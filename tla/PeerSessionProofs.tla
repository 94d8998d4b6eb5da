-------------------------- MODULE PeerSessionProofs --------------------------
(***************************************************************************)
(* What sessions guarantee for any number of daemons, connections, faults  *)
(* and commands.  The inductive invariant IInv says what a connection      *)
(* carries, whose tasks are alive, whose handle is in the table and what   *)
(* the documents hold; from it follow that a cleanup never takes another   *)
(* session's handle (OneSession), that clusters stay apart (Isolation) and *)
(* that events and member list agree (EventsTrackMembers).                 *)
(*                                                                         *)
(* Two more invariants rest on it: what holds until something goes wrong   *)
(* (CalmInv: OnlyGoneRemoved, HandleIsSession) and where handles are       *)
(* (Placed: LoopTakesHandle).  The last part shows that PeerSession        *)
(* implements Replication: every step of a session or a daemon is a step   *)
(* of Replication, or changes nothing of it, so what is proved about       *)
(* Replication holds of the documents that sessions keep.                  *)
(***************************************************************************)
EXTENDS PeerSession, MembershipProofs, SequenceTheorems, FiniteSetTheorems, TLAPS

Frame == Handshake \cup Ack \cup Sync

Content(s) == {s[k] : k \in 1 .. Len(s)}

\* The frames that e has not handled.
Buffered(e) == Content(inbox[e])

\* The control states of a session that has registered its peer.
Active == {"opening", "loop", "cleanup"}

\* A write that was made in the cluster of i, about a daemon of the cluster of i.
Ours(w, i) == Cookie[w.rep] = Cookie[i] /\ Cookie[w.path[1]] = Cookie[i]

\* What a frame m on its way to e may say.
Good(e, m) ==
  /\ link[e[1]] # <<>>
  /\ m.type # "sync" => m.from = Remote(e)
  /\ m.type = "sync" => Covered(m.delta) /\ \A w \in m.delta.writes : Ours(w, Local(e))

\* A connection is used by both of its ends or by none.
Wired == \A e \in End : pc[e] = "free" <=> link[e[1]] = <<>>

Frames == \A e \in End : \A m \in Buffered(e) : Good(e, m)

\* Only a running daemon has tasks, and one that has not started has no document.
Alive ==
  /\ \A e \in End : Open(e) => Up(Local(e))
  /\ \A i \in Node : status[i] = "off" => doc[i] = NewDoc

\* Both ends of a session are in one cluster.
Trusted == \A e \in End : pc[e] \in Active => Cookie[Local(e)] = Cookie[Remote(e)]

\* While nobody leaves, a session owns the handle for its peer.
Registered ==
  used.leaves = 0 =>
    \A e \in End : pc[e] \in Active => peers[Local(e)][Remote(e)].end = e

DocsCovered == \A i \in Node : Covered(doc[i])

IInv ==
  /\ TypeOK
  /\ Wired /\ Frames /\ Alive /\ Trusted
  /\ Registered
  /\ DocsCovered /\ Isolation
  /\ EventsTrackMembers

-------------------------------------------------------------------------------
(***************************************************************************)
(* Ends, frames and budgets                                                *)
(***************************************************************************)

LEMMA Ends ==
  ASSUME NEW e \in End
  PROVE  /\ Other(e) \in End /\ Other(Other(e)) = e /\ Other(e) # e
         /\ Other(e)[1] = e[1] /\ e[1] \in Conn /\ e # <<>>
<1>1. PICK c \in Conn, w \in {"init", "resp"} : e = <<c, w>>  BY DEF End
<1>2. e[1] = c /\ e[2] = w  BY <1>1
<1>3. Other(e) = <<c, IF w = "init" THEN "resp" ELSE "init">>  BY <1>2 DEF Other
<1>4. Other(e)[1] = c /\ Other(e)[2] = IF w = "init" THEN "resp" ELSE "init"  BY <1>3
<1>5. Other(Other(e)) = <<c, w>>  BY <1>4 DEF Other
<1>6. Other(e) \in End  BY <1>3 DEF End
<1>7. Other(e) # e  BY <1>2, <1>4
<1> QED BY <1>1, <1>2, <1>4, <1>5, <1>6, <1>7

LEMMA Linked2 ==
  ASSUME TypeOK, NEW e \in End, link[e[1]] # <<>>
  PROVE  /\ Local(e) \in Node /\ Remote(e) \in Node
         /\ Local(Other(e)) = Remote(e) /\ Remote(Other(e)) = Local(e)
<1>1. link[e[1]] \in Node \X Node  BY Ends DEF TypeOK
<1>2. link[e[1]][1] \in Node /\ link[e[1]][2] \in Node  BY <1>1
<1>3. Local(e) \in Node  BY <1>2 DEF Local
<1>4. Local(Other(e)) \in Node  BY <1>2, Ends DEF Local
<1>5. Remote(Other(e)) = Local(e)  BY Ends DEF Remote
<1> QED BY <1>3, <1>4, <1>5 DEF Remote

LEMMA ContentTail ==
  ASSUME NEW S, NEW s \in Seq(S), s # <<>>
  PROVE  /\ Tail(s) \in Seq(S) /\ Content(Tail(s)) \subseteq Content(s)
         /\ Head(s) \in S /\ Head(s) \in Content(s)
<1>1. Len(s) \in Nat /\ Len(s) # 0  BY EmptySeq
<1>2. /\ Head(s) \in S /\ Tail(s) \in Seq(S) /\ Len(Tail(s)) = Len(s) - 1
      /\ \A i \in 1 .. Len(Tail(s)) : Tail(s)[i] = s[i + 1]
  BY HeadTailProperties
<1>3. Head(s) = s[1] /\ 1 \in 1 .. Len(s)  BY <1>1
<1>4. \A i \in 1 .. Len(Tail(s)) : i + 1 \in 1 .. Len(s)  BY <1>1, <1>2
<1> QED BY <1>2, <1>3, <1>4 DEF Content

LEMMA ContentAppend ==
  ASSUME NEW S, NEW s \in Seq(S), NEW m \in S
  PROVE  /\ Append(s, m) \in Seq(S)
         /\ \A f \in Content(Append(s, m)) : f \in Content(s) \/ f = m
<1> DEFINE a == Append(s, m)
<1>1. /\ a \in Seq(S) /\ Len(a) = Len(s) + 1 /\ \A i \in 1 .. Len(s) : a[i] = s[i]
      /\ a[Len(s) + 1] = m
  BY AppendProperties
<1>2. Len(s) \in Nat  BY LenProperties
<1> HIDE DEF a
<1>3. \A i \in 1 .. Len(a) : i \in 1 .. Len(s) \/ i = Len(s) + 1  BY <1>1, <1>2
<1>4. \A f \in Content(a) : f \in Content(s) \/ f = m  BY <1>1, <1>3 DEF Content
<1> QED BY <1>1, <1>4 DEF a

LEMMA ContentEmpty == Content(<<>>) = {}
  BY DEF Content

\* The task of e takes its first frame.
LEMMA TakeFrames ==
  ASSUME TypeOK, NEW e \in End, inbox[e] # <<>>
  PROVE  /\ Take(e) \in [End -> Seq(Frame)]
         /\ \A x \in End : Content(Take(e)[x]) \subseteq Buffered(x)
         /\ Head(inbox[e]) \in Frame /\ Head(inbox[e]) \in Buffered(e)
<1>1. inbox \in [End -> Seq(Frame)]  BY DEF TypeOK, Frame
<1>2. inbox[e] \in Seq(Frame)  BY <1>1
<1>3. /\ Tail(inbox[e]) \in Seq(Frame) /\ Content(Tail(inbox[e])) \subseteq Content(inbox[e])
      /\ Head(inbox[e]) \in Frame /\ Head(inbox[e]) \in Content(inbox[e])
  BY <1>2, ContentTail
<1>4. /\ Take(e)[e] = Tail(inbox[e]) /\ Take(e) \in [End -> Seq(Frame)]
      /\ \A x \in End \ {e} : Take(e)[x] = inbox[x]
  BY <1>1, <1>3 DEF Take
<1> QED BY <1>3, <1>4 DEF Buffered

\* e writes m: only the other end gets it.
LEMMA WriteFrames ==
  ASSUME TypeOK, NEW e \in End, NEW m \in Frame, NEW box \in [End -> Seq(Frame)],
         \A x \in End : Content(box[x]) \subseteq Buffered(x),
         WriteOK(e, m, box)
  PROVE  /\ inbox' \in [End -> Seq(Frame)]
         /\ \A x \in End : \A f \in Buffered(x)' : f \in Buffered(x) \/ (x = Other(e) /\ f = m)
<1>1. CASE Gone(e)  BY <1>1 DEF WriteOK, Buffered
<1>2. CASE ~ Gone(e)
  <2> DEFINE o == Other(e)
  <2>1. inbox' = [box EXCEPT ![o] = Append(box[o], m)] /\ o \in End
    BY <1>2, Ends DEF WriteOK
  <2> HIDE DEF o
  <2>2. box[o] \in Seq(Frame)  BY <2>1
  <2>3. Append(box[o], m) \in Seq(Frame) /\ \A f \in Content(Append(box[o], m)) : f \in Content(box[o]) \/ f = m
    BY <2>2, ContentAppend
  <2>4. /\ inbox' \in [End -> Seq(Frame)] /\ inbox'[o] = Append(box[o], m)
        /\ \A x \in End \ {o} : inbox'[x] = box[x]
    BY <2>1, <2>3
  <2> QED BY <2>1, <2>3, <2>4 DEF Buffered, o
<1> QED BY <1>1, <1>2

\* Closing drops frames.
LEMMA CloseFrames ==
  ASSUME TypeOK, NEW S \in SUBSET End, Close(S)
  PROVE  /\ inbox' \in [End -> Seq(Frame)]
         /\ pc' \in [End -> {"free", "hello", "opening", "loop", "cleanup", "closed"}]
         /\ \A x \in End : pc'[x] = IF x \in S THEN "closed" ELSE pc[x]
         /\ \A x \in End : \A f \in Buffered(x)' : f \in Buffered(x)
<1>1. inbox \in [End -> Seq(Frame)]  BY DEF TypeOK, Frame
<1>2. <<>> \in Seq(Frame)  OBVIOUS
<1>3. inbox' \in [End -> Seq(Frame)] /\ \A x \in End : inbox'[x] = <<>> \/ inbox'[x] = inbox[x]
  BY <1>1, <1>2 DEF Close
<1>4. \A x \in End : \A f \in Buffered(x)' : f \in Buffered(x)  BY <1>3, ContentEmpty DEF Buffered
<1>5. /\ pc' \in [End -> {"free", "hello", "opening", "loop", "cleanup", "closed"}]
      /\ \A x \in End : pc'[x] = IF x \in S THEN "closed" ELSE pc[x]
  BY DEF Close, TypeOK
<1> QED BY <1>3, <1>4, <1>5

LEMMA SpendBudget ==
  ASSUME TypeOK, NEW what \in {"faults", "leaves", "ops"}, Spend(what)
  PROVE  /\ budget' = budget
         /\ used' \in [faults : 0 .. budget.faults, leaves : 0 .. budget.leaves,
                       ops : 0 .. budget.ops]
         /\ used'.leaves = 0 => used.leaves = 0 /\ what # "leaves"
         /\ used'.faults = 0 => used.faults = 0 /\ what # "faults"
<1>1. budget.faults \in Nat /\ budget.leaves \in Nat /\ budget.ops \in Nat
  BY SessionAssumption DEF TypeOK
<1>2. /\ used \in [faults : 0 .. budget.faults, leaves : 0 .. budget.leaves, ops : 0 .. budget.ops]
      /\ used' = [used EXCEPT ![what] = used[what] + 1] /\ used[what] < budget[what] /\ budget' = budget
  BY DEF Spend, TypeOK
<1>3. CASE what = "faults"
  <2>1. used' = [used EXCEPT !.faults = used.faults + 1] /\ used.faults < budget.faults  BY <1>2, <1>3
  <2> QED BY <1>1, <1>2, <1>3, <2>1
<1>4. CASE what = "leaves"
  <2>1. used' = [used EXCEPT !.leaves = used.leaves + 1] /\ used.leaves < budget.leaves  BY <1>2, <1>4
  <2> QED BY <1>1, <1>2, <1>4, <2>1
<1>5. CASE what = "ops"
  <2>1. used' = [used EXCEPT !.ops = used.ops + 1] /\ used.ops < budget.ops  BY <1>2, <1>5
  <2> QED BY <1>1, <1>2, <1>5, <2>1
<1> QED BY <1>3, <1>4, <1>5

-------------------------------------------------------------------------------
(***************************************************************************)
(* Steps of a task that touch neither documents nor handles                *)
(***************************************************************************)

\* The task of an open end goes on, and every new frame is a good one.
LEMMA TaskKeeps ==
  ASSUME IInv, NEW e \in End, Open(e), pc'[e] # "free",
         link' = link, status' = status,
         \A x \in End \ {e} : pc'[x] = pc[x],
         \A i \in Node \ {Local(e)} : doc'[i] = doc[i],
         \A x \in End : \A f \in Buffered(x)' : f \in Buffered(x) \/ Good(x, f)
  PROVE  Wired' /\ Frames' /\ Alive'
<1>1. Wired /\ Frames /\ Alive  BY DEF IInv
<1>2. Wired'  BY <1>1 DEF Wired, Open
<1>3. \A x \in End : Local(x)' = Local(x) /\ Remote(x)' = Remote(x)  BY DEF Local, Remote
<1>4. Frames'
  <2>1. \A x \in End : \A f \in Buffered(x)' : Good(x, f)  BY <1>1 DEF Frames
  <2>2. \A x \in End : \A f : Good(x, f) => Good(x, f)'  BY <1>3 DEF Good
  <2> QED BY <2>1, <2>2 DEF Frames
<1>5. Alive'
  <2>1. Up(Local(e)) /\ status[Local(e)] # "off"  BY <1>1 DEF Alive, Up
  <2>2. \A x \in End : Open(x)' => Open(x)  BY DEF Open
  <2>3. \A x \in End : Open(x)' => Up(Local(x))'  BY <1>1, <1>3, <2>2 DEF Alive, Up
  <2>4. \A i \in Node : status'[i] = "off" => doc'[i] = NewDoc  BY <1>1, <2>1 DEF Alive
  <2> QED BY <2>3, <2>4 DEF Alive
<1> QED BY <1>2, <1>4, <1>5

LEMMA QuietTask ==
  ASSUME IInv, TypeOK', NEW e \in End, Open(e), pc'[e] # "free",
         UNCHANGED <<link, status, doc, view, peers>>,
         \A x \in End \ {e} : pc'[x] = pc[x],
         pc'[e] \in Active => pc[e] \in Active,
         used'.leaves = 0 => used.leaves = 0,
         \A x \in End : \A f \in Buffered(x)' : f \in Buffered(x) \/ Good(x, f)
  PROVE  IInv'
<1>1. Wired' /\ Frames' /\ Alive'  BY TaskKeeps
<1>2. \A x \in End : Local(x)' = Local(x) /\ Remote(x)' = Remote(x)  BY DEF Local, Remote
<1>3. \A x \in End : pc'[x] \in Active => pc[x] \in Active  OBVIOUS
<1>4. Trusted' /\ Registered'  BY <1>2, <1>3 DEF IInv, Trusted, Registered
<1>5. DocsCovered' /\ Isolation' /\ EventsTrackMembers'
  BY DEF IInv, DocsCovered, Isolation, EventsTrackMembers
<1> QED BY <1>1, <1>4, <1>5 DEF IInv

\* A task of a registered session sends its daemon's document, or a part of it.
LEMMA DeltaIsGood ==
  ASSUME IInv, NEW e \in End, pc[e] \in Active, NEW v \in VV
  PROVE  LET m == [type |-> "sync", delta |-> DeltaForPeer(doc[Local(e)], v)]
         IN  m \in Frame /\ Good(Other(e), m)
<1> DEFINE d == DeltaForPeer(doc[Local(e)], v)
           m == [type |-> "sync", delta |-> d]
<1>0. TypeOK /\ Wired /\ Trusted /\ DocsCovered /\ Isolation  BY DEF IInv
<1>1. link[e[1]] # <<>> /\ Other(e)[1] = e[1]  BY <1>0, Ends DEF Wired, Active
<1>2. /\ Local(e) \in Node /\ Remote(e) \in Node
      /\ Local(Other(e)) = Remote(e) /\ Remote(Other(e)) = Local(e)
  BY <1>0, <1>1, Linked2
<1>3. doc[Local(e)] \in Doc /\ Covered(doc[Local(e)])  BY <1>0, <1>2 DEF TypeOK, DocsCovered
<1>4. d \in Doc /\ Covered(d)  BY <1>3, DeltaTypes, DeltaCovered
<1>5. d.writes \subseteq doc[Local(e)].writes  BY DEF DeltaForPeer, DeltaSince
<1>6. \A w \in d.writes : Ours(w, Remote(e))
  <2>1. Cookie[Local(e)] = Cookie[Remote(e)]  BY <1>0 DEF Trusted
  <2> QED BY <1>0, <1>2, <1>5, <2>1 DEF Isolation, Ours
<1> HIDE DEF d
<1>7. m \in Frame  BY <1>4 DEF Frame, Sync
<1>8. m.type = "sync" /\ m.delta = d  OBVIOUS
<1>9. Good(Other(e), m)  BY <1>1, <1>2, <1>4, <1>6, <1>8 DEF Good
<1> QED BY <1>7, <1>9 DEF d

LEMMA HelloEndsStep ==
  ASSUME IInv, NEW e \in End, HelloEnds(e) \/ Reject(e)
  PROVE  IInv'
<1>0. TypeOK  BY DEF IInv
<1>1. /\ pc[e] = "hello" /\ Close({e})
      /\ UNCHANGED <<doc, status, view, peers, link, cut, sig, used, budget>>
  BY DEF HelloEnds, Reject, limits
<1>2. /\ inbox' \in [End -> Seq(Frame)]
      /\ pc' \in [End -> {"free", "hello", "opening", "loop", "cleanup", "closed"}]
      /\ \A x \in End : pc'[x] = IF x \in {e} THEN "closed" ELSE pc[x]
      /\ \A x \in End : \A f \in Buffered(x)' : f \in Buffered(x)
  BY <1>0, <1>1, CloseFrames
<1>3. TypeOK'  BY <1>0, <1>1, <1>2 DEF TypeOK, Frame
<1>4. Open(e) /\ pc'[e] = "closed" /\ \A x \in End \ {e} : pc'[x] = pc[x]  BY <1>1, <1>2 DEF Open
<1> QED BY <1>1, <1>2, <1>3, <1>4, QuietTask DEF Active

LEMMA LoopEndsStep ==
  ASSUME IInv, NEW e \in End, EndOfStream(e) \/ Suspect(e) \/ ObserveShutdown(e)
  PROVE  IInv'
<1>0. TypeOK  BY DEF IInv
<1>1. /\ pc[e] = "loop" /\ pc' = [pc EXCEPT ![e] = "cleanup"]
      /\ UNCHANGED <<doc, status, view, peers, link, cut, inbox, sig>>
      /\ UNCHANGED <<used, budget>> \/ Spend("faults")
  BY DEF EndOfStream, Suspect, ObserveShutdown, Goto, limits
<1>2. /\ budget' = budget
      /\ used' \in [faults : 0 .. budget.faults, leaves : 0 .. budget.leaves, ops : 0 .. budget.ops]
      /\ used'.leaves = 0 => used.leaves = 0
  BY <1>0, <1>1, SpendBudget DEF TypeOK
<1>3. TypeOK'  BY <1>0, <1>1, <1>2 DEF TypeOK
<1>4. /\ Open(e) /\ pc'[e] = "cleanup" /\ \A x \in End \ {e} : pc'[x] = pc[x]
      /\ \A x \in End : Buffered(x)' = Buffered(x)
  BY <1>0, <1>1 DEF Open, TypeOK, Buffered
<1> QED BY <1>1, <1>2, <1>3, <1>4, QuietTask DEF Active

LEMMA SendInitialStep ==
  ASSUME IInv, NEW e \in End, SendInitial(e)
  PROVE  IInv'
<1>0. TypeOK /\ inbox \in [End -> Seq(Frame)]  BY DEF IInv, TypeOK, Frame
<1>1. /\ pc[e] = "opening" /\ Open(e) /\ pc[e] \in Active
      /\ UNCHANGED <<doc, status, view, peers, link, cut, used, budget>>
  BY DEF SendInitial, Open, Active, limits
<1>2. CASE /\ pc' = [pc EXCEPT ![e] = "loop"]
           /\ WriteOK(e, [type |-> "sync", delta |-> FullDelta(doc[Local(e)])], inbox)
           /\ UNCHANGED sig
  <2> DEFINE m == [type |-> "sync", delta |-> FullDelta(doc[Local(e)])]
  <2>1. m \in Frame /\ Good(Other(e), m)  BY <1>1, DeltaIsGood, DeltaTypes DEF FullDelta
  <2>2. \A x \in End : Content(inbox[x]) \subseteq Buffered(x)  BY DEF Buffered
  <2> HIDE DEF m
  <2>3. /\ inbox' \in [End -> Seq(Frame)]
        /\ \A x \in End : \A f \in Buffered(x)' : f \in Buffered(x) \/ (x = Other(e) /\ f = m)
    BY <1>0, <1>2, <2>1, <2>2, WriteFrames DEF m
  <2>4. TypeOK'  BY <1>0, <1>1, <1>2, <2>3 DEF TypeOK, Frame
  <2>5. pc'[e] = "loop" /\ \A x \in End \ {e} : pc'[x] = pc[x]  BY <1>0, <1>2 DEF TypeOK
  <2>6. \A x \in End : \A f \in Buffered(x)' : f \in Buffered(x) \/ Good(x, f)  BY <2>1, <2>3
  <2> QED BY <1>1, <2>4, <2>5, <2>6, QuietTask
<1>3. CASE Close({e}) /\ sig' = [sig EXCEPT ![e] = FALSE]
  <2>1. /\ inbox' \in [End -> Seq(Frame)]
        /\ pc' \in [End -> {"free", "hello", "opening", "loop", "cleanup", "closed"}]
        /\ \A x \in End : pc'[x] = IF x \in {e} THEN "closed" ELSE pc[x]
        /\ \A x \in End : \A f \in Buffered(x)' : f \in Buffered(x)
    BY <1>0, <1>3, CloseFrames
  <2>2. TypeOK'  BY <1>0, <1>1, <1>3, <2>1 DEF TypeOK, Frame
  <2>3. pc'[e] = "closed" /\ \A x \in End \ {e} : pc'[x] = pc[x]  BY <2>1
  <2> QED BY <1>1, <2>1, <2>2, <2>3, QuietTask
<1> QED BY <1>2, <1>3 DEF SendInitial, Goto

LEMMA SendDeltaStep ==
  ASSUME IInv, NEW e \in End, SendDelta(e)
  PROVE  IInv'
<1> DEFINE i == Local(e)
           j == Remote(e)
<1>0. TypeOK /\ inbox \in [End -> Seq(Frame)] /\ Wired  BY DEF IInv, TypeOK, Frame
<1>1. /\ pc[e] = "loop" /\ Open(e) /\ pc[e] \in Active
      /\ UNCHANGED <<doc, status, view, peers, link, cut, used, budget>>
      /\ sig' = [sig EXCEPT ![e] = FALSE]
  BY DEF SendDelta, Open, Active, limits
<1>2. link[e[1]] # <<>>  BY <1>0, <1>1 DEF Wired
<1>3. i \in Node /\ j \in Node  BY <1>0, <1>2, Linked2
<1>4. sig' \in [End -> BOOLEAN]  BY <1>0, <1>1 DEF TypeOK
<1>5. \A x \in End : Content(inbox[x]) \subseteq Buffered(x)  BY DEF Buffered
<1>6. CASE UNCHANGED <<pc, inbox>>
  <2>1. TypeOK'  BY <1>0, <1>1, <1>4, <1>6 DEF TypeOK
  <2>2. \A x \in End : Buffered(x)' = Buffered(x)  BY <1>6 DEF Buffered
  <2> QED BY <1>1, <1>6, <2>1, <2>2, QuietTask
<1>7. CASE /\ Connected(i, j) /\ UNCHANGED pc
           /\ WriteOK(e, [type |-> "sync", delta |-> DeltaForPeer(doc[i], peers[i][j].lastVV)], inbox)
  <2> DEFINE m == [type |-> "sync", delta |-> DeltaForPeer(doc[i], peers[i][j].lastVV)]
  <2>1. peers[i][j].lastVV \in VV
    <3>1. peers[i][j] \in PeerHandle  BY <1>0, <1>3, <1>7 DEF TypeOK, Connected
    <3> QED BY <3>1 DEF PeerHandle
  <2>2. m \in Frame /\ Good(Other(e), m)  BY <1>1, <2>1, DeltaIsGood
  <2> HIDE DEF m
  <2>3. /\ inbox' \in [End -> Seq(Frame)]
        /\ \A x \in End : \A f \in Buffered(x)' : f \in Buffered(x) \/ (x = Other(e) /\ f = m)
    BY <1>0, <1>5, <1>7, <2>2, WriteFrames DEF m
  <2>4. TypeOK'  BY <1>0, <1>1, <1>4, <1>7, <2>3 DEF TypeOK, Frame
  <2>5. \A x \in End : \A f \in Buffered(x)' : f \in Buffered(x) \/ Good(x, f)  BY <2>2, <2>3
  <2> QED BY <1>1, <1>7, <2>4, <2>5, QuietTask
<1>8. CASE pc' = [pc EXCEPT ![e] = "cleanup"] /\ UNCHANGED inbox
  <2>1. TypeOK'  BY <1>0, <1>1, <1>4, <1>8 DEF TypeOK
  <2>2. \A x \in End : Buffered(x)' = Buffered(x)  BY <1>8 DEF Buffered
  <2>3. pc'[e] = "cleanup" /\ \A x \in End \ {e} : pc'[x] = pc[x]  BY <1>0, <1>8 DEF TypeOK
  <2> QED BY <1>1, <2>1, <2>2, <2>3, QuietTask
<1> QED BY <1>6, <1>7, <1>8 DEF SendDelta, Goto

-------------------------------------------------------------------------------
(***************************************************************************)
(* Steps of a task that change its daemon's handles or document            *)
(***************************************************************************)

\* The frame an end reads next.
LEMMA FirstFrame ==
  ASSUME IInv, NEW e \in End, inbox[e] # <<>>
  PROVE  /\ Head(inbox[e]) \in Frame /\ Good(e, Head(inbox[e]))
         /\ link[e[1]] # <<>> /\ Local(e) \in Node /\ Remote(e) \in Node
         /\ Head(inbox[e]).type # "sync" => Head(inbox[e]).from = Remote(e)
<1>0. TypeOK /\ Frames  BY DEF IInv
<1>1. Head(inbox[e]) \in Frame /\ Head(inbox[e]) \in Buffered(e)  BY <1>0, TakeFrames
<1>2. Good(e, Head(inbox[e]))  BY <1>0, <1>1 DEF Frames
<1>3. link[e[1]] # <<>> /\ (Head(inbox[e]).type # "sync" => Head(inbox[e]).from = Remote(e))
  BY <1>2 DEF Good
<1>4. Local(e) \in Node /\ Remote(e) \in Node  BY <1>0, <1>3, Linked2
<1> QED BY <1>1, <1>2, <1>3, <1>4

\* Check and insert under one lock: the new handle is nobody else's.
LEMMA InsertStep ==
  ASSUME IInv, NEW e \in End, pc[e] = "hello", inbox[e] # <<>>, Head(inbox[e]).type # "sync",
         Accepts(e, Head(inbox[e]).from), NEW vv \in VV, Insert(e, Head(inbox[e]).from, vv),
         UNCHANGED <<doc, status, view, link, cut, sig, used, budget>>,
         pc' \in [End -> {"free", "hello", "opening", "loop", "cleanup", "closed"}],
         pc'[e] # "free", \A x \in End \ {e} : pc'[x] = pc[x],
         inbox' \in [End -> Seq(Frame)],
         \A x \in End : \A f \in Buffered(x)' : f \in Buffered(x) \/ Good(x, f)
  PROVE  IInv'
<1> DEFINE i == Local(e)
           j == Remote(e)
           new == [end |-> e, lastVV |-> vv]
<1>0. TypeOK /\ Wired /\ Trusted /\ Registered  BY DEF IInv
<1>1. i \in Node /\ j \in Node /\ Head(inbox[e]).from = j  BY FirstFrame
<1>2. Cookie[i] = Cookie[j] /\ peers[i][j] = NoPeer  BY <1>1 DEF Accepts, Connected
<1>3. peers' = [peers EXCEPT ![i][j] = new]  BY <1>1 DEF Insert
<1>4. new \in PeerHandle /\ new.end = e  BY DEF PeerHandle
<1>5. peers \in [Node -> [Node -> PeerHandle \cup {NoPeer}]]  BY <1>0 DEF TypeOK
<1> HIDE DEF i, j, new
<1>6. /\ peers' \in [Node -> [Node -> PeerHandle \cup {NoPeer}]]
      /\ peers'[i][j] = new
      /\ \A k, l \in Node : k # i \/ l # j => peers'[k][l] = peers[k][l]
  BY <1>1, <1>3, <1>4, <1>5
<1>7. TypeOK'  BY <1>0, <1>6 DEF TypeOK, Frame
<1>8. Open(e)  BY DEF Open
<1>9. Wired' /\ Frames' /\ Alive'  BY <1>8, TaskKeeps
<1>10. \A x \in End : Local(x)' = Local(x) /\ Remote(x)' = Remote(x)  BY DEF Local, Remote
<1>11. Trusted'  BY <1>0, <1>2, <1>10 DEF Trusted, i, j
<1>12. Registered'
  <2> SUFFICES ASSUME used.leaves = 0, NEW x \in End, pc'[x] \in Active
               PROVE  peers'[Local(x)][Remote(x)].end = x
    BY <1>10 DEF Registered
  <2>1. CASE x = e  BY <1>4, <1>6, <2>1 DEF i, j
  <2>2. CASE x # e
    <3>1. pc[x] \in Active /\ peers[Local(x)][Remote(x)].end = x  BY <1>0, <2>2 DEF Registered
    <3>2. link[x[1]] # <<>>  BY <1>0, <3>1 DEF Wired, Active
    <3>3. Local(x) \in Node /\ Remote(x) \in Node  BY <1>0, <3>2, Linked2
    <3>4. Local(x) # i \/ Remote(x) # j
      <4>1. NoPeer.end = <<>> /\ x # <<>>  BY Ends DEF NoPeer
      <4> QED BY <1>2, <3>1, <4>1
    <3> QED BY <1>6, <3>1, <3>3, <3>4
  <2> QED BY <2>1, <2>2
<1>13. DocsCovered' /\ Isolation' /\ EventsTrackMembers'
  BY DEF IInv, DocsCovered, Isolation, EventsTrackMembers
<1> QED BY <1>7, <1>9, <1>11, <1>12, <1>13 DEF IInv

LEMMA RecvHandshakeStep ==
  ASSUME IInv, NEW e \in End, RecvHandshake(e)
  PROVE  IInv'
<1>0. TypeOK  BY DEF IInv
<1>1. /\ pc[e] = "hello" /\ inbox[e] # <<>> /\ Head(inbox[e]).type = "handshake"
      /\ Accepts(e, Head(inbox[e]).from) /\ Insert(e, Head(inbox[e]).from, ZeroVV)
      /\ UNCHANGED <<doc, status, view, link, cut, sig, used, budget>>
  BY DEF RecvHandshake, HasFrame, limits
<1>2. ZeroVV \in VV  BY DeltaTypes
<1>3. CASE /\ pc' = [pc EXCEPT ![e] = "opening"]
           /\ WriteOK(e, [type |-> "ack", from |-> Local(e), vv |-> doc[Local(e)].vv], Take(e))
  <2> DEFINE m == [type |-> "ack", from |-> Local(e), vv |-> doc[Local(e)].vv]
  <2>1. Local(e) \in Node /\ link[e[1]] # <<>>  BY <1>1, FirstFrame
  <2>2. doc[Local(e)].vv \in VV  BY <1>0, <2>1 DEF TypeOK, Doc
  <2>3. m \in Frame  BY <2>1, <2>2 DEF Frame, Ack
  <2>4. Good(Other(e), m)
    <3>1. Remote(Other(e)) = Local(e) /\ Other(e)[1] = e[1]  BY <1>0, <2>1, Linked2, Ends
    <3>2. m.type = "ack" /\ m.from = Local(e)  OBVIOUS
    <3> QED BY <2>1, <3>1, <3>2 DEF Good
  <2>5. Take(e) \in [End -> Seq(Frame)] /\ \A x \in End : Content(Take(e)[x]) \subseteq Buffered(x)
    BY <1>0, <1>1, TakeFrames
  <2> HIDE DEF m
  <2>6. /\ inbox' \in [End -> Seq(Frame)]
        /\ \A x \in End : \A f \in Buffered(x)' : f \in Buffered(x) \/ (x = Other(e) /\ f = m)
    BY <1>0, <1>3, <2>3, <2>5, WriteFrames DEF m
  <2>7. \A x \in End : \A f \in Buffered(x)' : f \in Buffered(x) \/ Good(x, f)  BY <2>4, <2>6
  <2>8. /\ pc' \in [End -> {"free", "hello", "opening", "loop", "cleanup", "closed"}]
        /\ pc'[e] = "opening" /\ \A x \in End \ {e} : pc'[x] = pc[x]
    BY <1>0, <1>3 DEF TypeOK
  <2> QED BY <1>1, <1>2, <2>6, <2>7, <2>8, InsertStep
<1>4. CASE Close({e})
  <2>1. /\ inbox' \in [End -> Seq(Frame)]
        /\ pc' \in [End -> {"free", "hello", "opening", "loop", "cleanup", "closed"}]
        /\ \A x \in End : pc'[x] = IF x \in {e} THEN "closed" ELSE pc[x]
        /\ \A x \in End : \A f \in Buffered(x)' : f \in Buffered(x)
    BY <1>0, <1>4, CloseFrames
  <2>2. pc'[e] = "closed" /\ \A x \in End \ {e} : pc'[x] = pc[x]  BY <2>1
  <2> QED BY <1>1, <1>2, <2>1, <2>2, InsertStep
<1> QED BY <1>3, <1>4 DEF RecvHandshake, Goto

LEMMA RecvAckStep ==
  ASSUME IInv, NEW e \in End, RecvAck(e)
  PROVE  IInv'
<1>0. TypeOK  BY DEF IInv
<1>1. /\ pc[e] = "hello" /\ inbox[e] # <<>> /\ Head(inbox[e]).type = "ack"
      /\ Accepts(e, Head(inbox[e]).from) /\ Insert(e, Head(inbox[e]).from, Head(inbox[e]).vv)
      /\ pc' = [pc EXCEPT ![e] = "opening"] /\ inbox' = Take(e)
      /\ UNCHANGED <<doc, status, view, link, cut, sig, used, budget>>
  BY DEF RecvAck, HasFrame, Goto, limits
<1>2. Head(inbox[e]).vv \in VV
  <2>1. Head(inbox[e]) \in Frame  BY <1>1, FirstFrame
  <2>2. Head(inbox[e]) \in Ack  BY <1>1, <2>1 DEF Frame, Handshake, Ack, Sync
  <2> QED BY <2>2 DEF Ack
<1>3. Take(e) \in [End -> Seq(Frame)] /\ \A x \in End : Content(Take(e)[x]) \subseteq Buffered(x)
  BY <1>0, <1>1, TakeFrames
<1>4. \A x \in End : \A f \in Buffered(x)' : f \in Buffered(x)  BY <1>1, <1>3 DEF Buffered
<1>5. /\ pc' \in [End -> {"free", "hello", "opening", "loop", "cleanup", "closed"}]
      /\ pc'[e] = "opening" /\ \A x \in End \ {e} : pc'[x] = pc[x]
  BY <1>0, <1>1 DEF TypeOK
<1> QED BY <1>1, <1>2, <1>3, <1>4, <1>5, InsertStep

\* A merge brings writes of the own cluster, and the events say what it changed.
LEMMA RecvSyncStep ==
  ASSUME IInv, NEW e \in End, RecvSync(e)
  PROVE  IInv'
<1> DEFINE i == Local(e)
           j == Remote(e)
           delta == Head(inbox[e]).delta
           merged == MergeRemote(doc[i], delta)
<1>0. TypeOK /\ Wired /\ Trusted /\ Registered /\ DocsCovered /\ Isolation /\ EventsTrackMembers
  BY DEF IInv
<1>1. /\ pc[e] = "loop" /\ inbox[e] # <<>> /\ Head(inbox[e]).type = "sync"
      /\ inbox' = Take(e) /\ doc' = [doc EXCEPT ![i] = merged]
      /\ peers' = SetLastVV(i, j, delta.vv)
      /\ view' = [view EXCEPT ![i] = (view[i] \cup (Members(merged) \ Members(doc[i])))
                                       \ (Members(doc[i]) \ Members(merged))]
      /\ UNCHANGED <<status, link, cut, pc, sig, used, budget>>
  BY DEF RecvSync, HasFrame, DiffMembers, limits
<1>2. i \in Node /\ j \in Node /\ delta \in Doc /\ Covered(delta) /\ \A w \in delta.writes : Ours(w, i)
  <2>1. Head(inbox[e]) \in Frame /\ Good(e, Head(inbox[e])) /\ i \in Node /\ j \in Node
    BY <1>1, FirstFrame
  <2>2. Head(inbox[e]) \in Sync  BY <1>1, <2>1 DEF Frame, Handshake, Ack, Sync
  <2>3. delta \in Doc  BY <2>2 DEF Sync
  <2> QED BY <1>1, <2>1, <2>3 DEF Good
<1>3. doc[i] \in Doc /\ Covered(doc[i])  BY <1>0, <1>2 DEF TypeOK, DocsCovered
<1>4. merged \in Doc /\ Covered(merged) /\ merged.writes = doc[i].writes \cup delta.writes
  <2>1. merged \in Doc  BY <1>2, <1>3, DeltaTypes
  <2>2. Covered(merged)  BY <1>2, <1>3, MergeCovered
  <2>3. merged.writes = doc[i].writes \cup delta.writes  BY DEF MergeRemote, MergeDelta
  <2> QED BY <2>1, <2>2, <2>3
<1>5. delta.vv \in VV  BY <1>2 DEF Doc
<1> HIDE DEF i, j, delta, merged
<1>6. /\ peers' \in [Node -> [Node -> PeerHandle \cup {NoPeer}]]
      /\ \A k, l \in Node : peers'[k][l].end = peers[k][l].end
  <2>1. peers \in [Node -> [Node -> PeerHandle \cup {NoPeer}]]  BY <1>0 DEF TypeOK
  <2>2. CASE Connected(i, j)
    <3>1. peers[i][j] \in PeerHandle  BY <1>2, <2>1, <2>2 DEF Connected
    <3> DEFINE h == [peers[i][j] EXCEPT !.lastVV = delta.vv]
    <3>2. h \in PeerHandle /\ h.end = peers[i][j].end  BY <1>5, <3>1 DEF PeerHandle
    <3>3. peers' = [peers EXCEPT ![i] = [peers[i] EXCEPT ![j] = h]]  BY <1>1, <2>2 DEF SetLastVV
    <3> HIDE DEF h
    <3>4. /\ peers' \in [Node -> [Node -> PeerHandle \cup {NoPeer}]]
          /\ peers'[i][j] = h
          /\ \A k, l \in Node : k # i \/ l # j => peers'[k][l] = peers[k][l]
      BY <1>2, <2>1, <3>2, <3>3
    <3> QED BY <3>2, <3>4
  <2>3. CASE ~ Connected(i, j)  BY <1>1, <2>1, <2>3 DEF SetLastVV
  <2> QED BY <2>2, <2>3
<1>7. /\ inbox' \in [End -> Seq(Frame)]
      /\ \A x \in End : \A f \in Buffered(x)' : f \in Buffered(x)
  BY <1>0, <1>1, TakeFrames DEF Buffered
<1>8. /\ doc' \in [Node -> Doc] /\ doc'[i] = merged /\ \A k \in Node \ {i} : doc'[k] = doc[k]
  BY <1>0, <1>1, <1>2, <1>4 DEF TypeOK
<1>9. /\ view' \in [Node -> SUBSET Node] /\ \A k \in Node \ {i} : view'[k] = view[k]
      /\ view'[i] = (view[i] \cup (Members(merged) \ Members(doc[i]))) \ (Members(doc[i]) \ Members(merged))
  <2>1. Members(merged) \subseteq Node  BY DEF Members
  <2> QED BY <1>0, <1>1, <1>2, <2>1 DEF TypeOK
<1>10. TypeOK'  BY <1>0, <1>1, <1>6, <1>7, <1>8, <1>9 DEF TypeOK, Frame
<1>11. Wired' /\ Frames' /\ Alive'
  <2>1. Open(e)  BY <1>1 DEF Open
  <2>2. pc'[e] # "free" /\ \A x \in End \ {e} : pc'[x] = pc[x]  BY <1>1
  <2> QED BY <1>1, <1>7, <1>8, <2>1, <2>2, TaskKeeps DEF i
<1>12. \A x \in End : Local(x)' = Local(x) /\ Remote(x)' = Remote(x)  BY <1>1 DEF Local, Remote
<1>13. Trusted'  BY <1>0, <1>1, <1>12 DEF Trusted
<1>14. Registered'
  <2> SUFFICES ASSUME used.leaves = 0, NEW x \in End, pc[x] \in Active
               PROVE  peers'[Local(x)][Remote(x)].end = x
    BY <1>1, <1>12 DEF Registered
  <2>1. peers[Local(x)][Remote(x)].end = x  BY <1>0 DEF Registered
  <2>2. link[x[1]] # <<>>  BY <1>0 DEF Wired, Active
  <2>3. Local(x) \in Node /\ Remote(x) \in Node  BY <1>0, <2>2, Linked2
  <2> QED BY <1>6, <2>1, <2>3
<1>15. DocsCovered'  BY <1>0, <1>4, <1>8 DEF DocsCovered
<1>16. Isolation'
  <2>1. \A k \in Node : \A w \in doc[k].writes : Ours(w, k)  BY <1>0 DEF Isolation, Ours
  <2>2. \A k \in Node : \A w \in doc'[k].writes : Ours(w, k)  BY <1>2, <1>4, <1>8, <2>1
  <2> QED BY <2>2 DEF Isolation, Ours
<1>17. EventsTrackMembers'
  <2> SUFFICES ASSUME NEW k \in Node, status[k] = "running"  PROVE view'[k] = Members(doc'[k])
    BY <1>1 DEF EventsTrackMembers, Members, IsMember
  <2>1. view[k] = Members(doc[k])  BY <1>0 DEF EventsTrackMembers
  <2> QED BY <1>8, <1>9, <2>1
<1> QED BY <1>10, <1>11, <1>13, <1>14, <1>15, <1>16, <1>17 DEF IInv

\* The cleanup of a session takes its own handle, its peer off the member list, and
\* says so.
LEMMA CleanupStep ==
  ASSUME IInv, NEW e \in End, Cleanup(e)
  PROVE  IInv'
<1> DEFINE i == Local(e)
           j == Remote(e)
           less == RemoveNode(doc[i], i, j)
<1>0. TypeOK /\ Wired /\ Trusted /\ Registered /\ DocsCovered /\ Isolation /\ EventsTrackMembers
  BY DEF IInv
<1>1. /\ pc[e] = "cleanup" /\ peers' = [peers EXCEPT ![i][j] = NoPeer]
      /\ doc' = [doc EXCEPT ![i] = less]
      /\ view' = [view EXCEPT ![i] = view[i] \ {j}]
      /\ sig' = [Signal(peers'[i]) EXCEPT ![e] = FALSE]
      /\ Close({e})
      /\ UNCHANGED <<status, link, cut, used, budget>>
  BY DEF Cleanup, limits
<1>2. link[e[1]] # <<>>  BY <1>0, <1>1 DEF Wired
<1>3. i \in Node /\ j \in Node /\ Cookie[i] = Cookie[j]
  BY <1>0, <1>1, <1>2, Linked2 DEF Trusted, Active
<1>4. doc[i] \in Doc /\ Covered(doc[i])  BY <1>0, <1>3 DEF TypeOK, DocsCovered
<1>5. /\ less \in Doc /\ Covered(less) /\ Members(less) = Members(doc[i]) \ {j}
      /\ \A w \in less.writes \ doc[i].writes : w.rep = i /\ w.path[1] = j
  BY <1>3, <1>4, MutatorTypes, MutatorsCovered, RemoveNodeMembers, MutatorWrites
<1> HIDE DEF i, j, less
<1>6. /\ peers' \in [Node -> [Node -> PeerHandle \cup {NoPeer}]]
      /\ \A k, l \in Node : k # i \/ l # j => peers'[k][l] = peers[k][l]
  BY <1>0, <1>1, <1>3 DEF TypeOK
<1>7. /\ inbox' \in [End -> Seq(Frame)]
      /\ pc' \in [End -> {"free", "hello", "opening", "loop", "cleanup", "closed"}]
      /\ \A x \in End : pc'[x] = IF x \in {e} THEN "closed" ELSE pc[x]
      /\ \A x \in End : \A f \in Buffered(x)' : f \in Buffered(x)
  BY <1>0, <1>1, CloseFrames
<1>8. /\ doc' \in [Node -> Doc] /\ doc'[i] = less /\ \A k \in Node \ {i} : doc'[k] = doc[k]
  BY <1>0, <1>1, <1>3, <1>5 DEF TypeOK
<1>9. /\ view' \in [Node -> SUBSET Node] /\ \A k \in Node \ {i} : view'[k] = view[k]
      /\ view'[i] = view[i] \ {j}
  BY <1>0, <1>1, <1>3 DEF TypeOK
<1>10. sig' \in [End -> BOOLEAN]
  <2>1. Signal(peers'[i]) \in [End -> BOOLEAN]  BY DEF Signal
  <2> QED BY <1>1, <2>1
<1>11. TypeOK'  BY <1>0, <1>1, <1>6, <1>7, <1>8, <1>9, <1>10 DEF TypeOK, Frame
<1>12. Wired' /\ Frames' /\ Alive'
  <2>1. Open(e)  BY <1>1 DEF Open
  <2>2. pc'[e] # "free" /\ \A x \in End \ {e} : pc'[x] = pc[x]  BY <1>7
  <2> QED BY <1>1, <1>7, <1>8, <2>1, <2>2, TaskKeeps DEF i
<1>13. \A x \in End : Local(x)' = Local(x) /\ Remote(x)' = Remote(x)  BY <1>1 DEF Local, Remote
<1>14. \A x \in End : pc'[x] \in Active => pc[x] \in Active /\ x # e  BY <1>7 DEF Active
<1>15. Trusted'  BY <1>0, <1>13, <1>14 DEF Trusted
<1>16. Registered'
  <2> SUFFICES ASSUME used.leaves = 0, NEW x \in End, pc'[x] \in Active
               PROVE  peers'[Local(x)][Remote(x)].end = x
    BY <1>1, <1>13 DEF Registered
  <2>1. pc[x] \in Active /\ x # e /\ peers[Local(x)][Remote(x)].end = x  BY <1>0, <1>14 DEF Registered
  <2>2. peers[i][j].end = e  BY <1>0, <1>1 DEF Registered, Active, i, j
  <2>3. link[x[1]] # <<>>  BY <1>0, <2>1 DEF Wired, Active
  <2>4. Local(x) \in Node /\ Remote(x) \in Node  BY <1>0, <2>3, Linked2
  <2> QED BY <1>6, <2>1, <2>2, <2>4
<1>17. DocsCovered'  BY <1>0, <1>5, <1>8 DEF DocsCovered
<1>18. Isolation'
  <2>1. \A k \in Node : \A w \in doc[k].writes : Ours(w, k)  BY <1>0 DEF Isolation, Ours
  <2>2. \A w \in less.writes : Ours(w, i)  BY <1>3, <1>5, <2>1 DEF Ours
  <2>3. \A k \in Node : \A w \in doc'[k].writes : Ours(w, k)  BY <1>8, <2>1, <2>2
  <2> QED BY <2>3 DEF Isolation, Ours
<1>19. EventsTrackMembers'
  <2> SUFFICES ASSUME NEW k \in Node, status[k] = "running"  PROVE view'[k] = Members(doc'[k])
    BY <1>1 DEF EventsTrackMembers, Members, IsMember
  <2>1. view[k] = Members(doc[k])  BY <1>0 DEF EventsTrackMembers
  <2> QED BY <1>5, <1>8, <1>9, <2>1
<1> QED BY <1>11, <1>12, <1>15, <1>16, <1>17, <1>18, <1>19 DEF IInv

-------------------------------------------------------------------------------
(***************************************************************************)
(* Steps of a daemon, of operators and of the network                      *)
(***************************************************************************)

\* Signals, cut connections and spent budgets are all that changes.
LEMMA NothingElse ==
  ASSUME IInv, TypeOK', UNCHANGED <<doc, status, view, peers, link, pc, inbox>>,
         used'.leaves = 0 => used.leaves = 0
  PROVE  IInv'
<1>1. Wired' /\ Alive' /\ Trusted' /\ DocsCovered' /\ Isolation' /\ EventsTrackMembers'
  BY DEF IInv, Wired, Alive, Trusted, DocsCovered, Isolation, EventsTrackMembers, Open, Up, Local,
         Remote
<1>2. Frames'
  BY DEF IInv, Frames, Good, Buffered, Local, Remote
<1>3. Registered'  BY DEF IInv, Registered, Local, Remote
<1> QED BY <1>1, <1>2, <1>3 DEF IInv

\* A daemon that is up works on its own document.
LEMMA DaemonWrites ==
  ASSUME IInv, TypeOK', NEW i \in Node, UNCHANGED <<peers, link, pc, inbox>>,
         used'.leaves = 0 => used.leaves = 0,
         Up(i)', \A k \in Node \ {i} : /\ status'[k] = status[k]
                                       /\ doc'[k] = doc[k] /\ view'[k] = view[k],
         Covered(doc'[i]), \A w \in doc'[i].writes : Ours(w, i),
         status'[i] = "running" => view'[i] = Members(doc'[i])
  PROVE  IInv'
<1>0. Wired /\ Frames /\ Alive /\ Trusted /\ Registered /\ DocsCovered /\ Isolation /\ EventsTrackMembers
  BY DEF IInv
<1>1. \A x \in End : Local(x)' = Local(x) /\ Remote(x)' = Remote(x) /\ Buffered(x)' = Buffered(x)
  BY DEF Local, Remote, Buffered
<1>2. Wired' /\ Trusted'  BY <1>0, <1>1 DEF Wired, Trusted
<1>3. Frames'  BY <1>0, <1>1 DEF Frames, Good
<1>4. Registered'  BY <1>0, <1>1 DEF Registered
<1>5. Alive'
  <2>1. \A x \in End : Open(x)' => Up(Local(x))'
    <3> SUFFICES ASSUME NEW x \in End, Open(x)'  PROVE Up(Local(x))'
      OBVIOUS
    <3>1. Open(x) /\ link[x[1]] # <<>>  BY <1>0 DEF Open, Wired
    <3>2. Up(Local(x)) /\ Local(x) \in Node  BY <1>0, <3>1, Linked2 DEF Alive, IInv
    <3>3. CASE Local(x) = i  BY <1>1, <3>3
    <3>4. CASE Local(x) # i  BY <1>1, <3>2, <3>4 DEF Up
    <3> QED BY <3>3, <3>4
  <2>2. \A k \in Node : status'[k] = "off" => doc'[k] = NewDoc  BY <1>0 DEF Alive, Up
  <2> QED BY <2>1, <2>2 DEF Alive
<1>6. DocsCovered'  BY <1>0 DEF DocsCovered
<1>7. Isolation'
  <2>1. \A k \in Node : \A w \in doc'[k].writes : Ours(w, k)  BY <1>0 DEF Isolation, Ours
  <2> QED BY <2>1 DEF Isolation, Ours
<1>8. EventsTrackMembers'
  <2> SUFFICES ASSUME NEW k \in Node, status'[k] = "running"  PROVE view'[k] = Members(doc'[k])
    BY DEF EventsTrackMembers, Members, IsMember
  <2> QED BY <1>0 DEF EventsTrackMembers
<1> QED BY <1>2, <1>3, <1>4, <1>5, <1>6, <1>7, <1>8 DEF IInv

LEMMA StartStep ==
  ASSUME IInv, NEW i \in Node, Start(i)
  PROVE  IInv'
<1> DEFINE d == AddNode(NewDoc, i)
<1>0. TypeOK /\ doc[i] = NewDoc  BY DEF IInv, Alive, Start
<1>1. /\ status' = [status EXCEPT ![i] = "running"] /\ doc' = [doc EXCEPT ![i] = d]
      /\ view' = [view EXCEPT ![i] = {i}]
      /\ UNCHANGED <<peers, link, cut, pc, inbox, sig, used, budget>>
  BY <1>0 DEF Start, taskVars, limits
<1>2. NewDoc \in Doc /\ Covered(NewDoc) /\ NewDoc.writes = {}
  BY DeltaTypes DEF Covered, NewDoc
<1>3. d \in Doc /\ Covered(d) /\ Members(d) = {i} /\ \A w \in d.writes : w.rep = i /\ w.path[1] = i
  BY <1>2, MutatorTypes, MutatorsCovered, MutatorWrites, FirstMember
<1>4. \A w \in d.writes : Ours(w, i)  BY <1>3 DEF Ours
<1> HIDE DEF d
<1>5. TypeOK'  BY <1>0, <1>1, <1>3 DEF TypeOK
<1>6. /\ status'[i] = "running" /\ doc'[i] = d /\ view'[i] = {i}
      /\ \A k \in Node \ {i} : status'[k] = status[k] /\ doc'[k] = doc[k] /\ view'[k] = view[k]
  BY <1>0, <1>1 DEF TypeOK
<1>7. Up(i)'  BY <1>6 DEF Up
<1> QED BY <1>1, <1>3, <1>4, <1>5, <1>6, <1>7, DaemonWrites

LEMMA ServiceOpStep ==
  ASSUME IInv, NEW i \in Node, NEW s \in Service, ServiceOp(i, s)
  PROVE  IInv'
<1>0. TypeOK /\ Isolation /\ doc[i] \in Doc /\ Covered(doc[i]) /\ EventsTrackMembers
  BY DEF IInv, TypeOK, DocsCovered
<1>1. PICK d \in {RegisterService(doc[i], i, s), UnregisterService(doc[i], i, s)} :
            doc' = [doc EXCEPT ![i] = d]
  BY DEF ServiceOp
<1>2. Up(i) /\ UNCHANGED <<status, view, peers, link, cut, pc, inbox, sig>> /\ Spend("ops")
  BY DEF ServiceOp, taskVars
<1>3. /\ d \in Doc /\ Covered(d) /\ Members(d) = Members(doc[i])
      /\ \A w \in d.writes \ doc[i].writes : w.rep = i /\ w.path[1] = i
  BY <1>0, <1>1, MutatorTypes, MutatorsCovered, MutatorWrites, ServicesKeepMembers
<1>4. \A w \in d.writes : Ours(w, i)  BY <1>0, <1>3 DEF Ours, Isolation
<1>5. /\ budget' = budget
      /\ used' \in [faults : 0 .. budget.faults, leaves : 0 .. budget.leaves, ops : 0 .. budget.ops]
      /\ used'.leaves = 0 => used.leaves = 0
  BY <1>0, <1>2, SpendBudget
<1>6. TypeOK'  BY <1>0, <1>1, <1>2, <1>3, <1>5 DEF TypeOK
<1>7. doc'[i] = d /\ \A k \in Node \ {i} : doc'[k] = doc[k]  BY <1>0, <1>1 DEF TypeOK
<1>8. Up(i)' /\ (status'[i] = "running" => view'[i] = Members(doc'[i]))
  BY <1>0, <1>2, <1>3, <1>7 DEF Up, EventsTrackMembers
<1> QED BY <1>2, <1>3, <1>4, <1>5, <1>6, <1>7, <1>8, DaemonWrites

LEMMA ShutdownStep ==
  ASSUME IInv, NEW i \in Node, BeginShutdown(i) \/ Cancel(i)
  PROVE  IInv'
<1>0. TypeOK /\ Isolation /\ doc[i] \in Doc /\ Covered(doc[i])
  BY DEF IInv, TypeOK, DocsCovered
<1>1. CASE BeginShutdown(i)
  <2> DEFINE d == RemoveNode(doc[i], i, i)
  <2>1. /\ status' = [status EXCEPT ![i] = "draining"] /\ doc' = [doc EXCEPT ![i] = d]
        /\ sig' = Signal(peers[i])
        /\ UNCHANGED <<view, peers, link, cut, pc, inbox, used, budget>>
    BY <1>1 DEF BeginShutdown, limits
  <2>2. /\ d \in Doc /\ Covered(d)
        /\ \A w \in d.writes \ doc[i].writes : w.rep = i /\ w.path[1] = i
    BY <1>0, MutatorTypes, MutatorsCovered, MutatorWrites
  <2>3. \A w \in d.writes : Ours(w, i)  BY <1>0, <2>2 DEF Ours, Isolation
  <2> HIDE DEF d
  <2>4. sig' \in [End -> BOOLEAN]  BY <2>1 DEF Signal
  <2>5. TypeOK'  BY <1>0, <2>1, <2>2, <2>4 DEF TypeOK
  <2>6. /\ status'[i] = "draining" /\ doc'[i] = d
        /\ \A k \in Node \ {i} : status'[k] = status[k] /\ doc'[k] = doc[k]
    BY <1>0, <2>1 DEF TypeOK
  <2>7. Up(i)'  BY <2>6 DEF Up
  <2> QED BY <2>1, <2>2, <2>3, <2>5, <2>6, <2>7, DaemonWrites
<1>2. CASE Cancel(i)
  <2>1. /\ status' = [status EXCEPT ![i] = "cancelled"]
        /\ UNCHANGED <<doc, view, peers, link, cut, pc, inbox, sig, used, budget>>
    BY <1>2 DEF Cancel, taskVars, limits
  <2>2. TypeOK'  BY <1>0, <2>1 DEF TypeOK
  <2>3. status'[i] = "cancelled" /\ \A k \in Node \ {i} : status'[k] = status[k]
    BY <1>0, <2>1 DEF TypeOK
  <2>4. Up(i)' /\ \A w \in doc'[i].writes : Ours(w, i)  BY <1>0, <2>1, <2>3 DEF Up, Isolation, Ours
  <2> QED BY <1>0, <2>1, <2>2, <2>3, <2>4, DaemonWrites
<1> QED BY <1>1, <1>2

\* A process takes its tasks and its handles with it.
LEMMA ProcessEndsStep ==
  ASSUME IInv, NEW i \in Node, Exit(i) \/ Crash(i)
  PROVE  IInv'
<1> DEFINE mine == {e \in End : link[e[1]] # <<>> /\ Local(e) = i}
<1>0. TypeOK /\ Wired /\ Frames /\ Alive /\ Trusted /\ Registered /\ DocsCovered /\ Isolation /\ EventsTrackMembers
  BY DEF IInv
<1>1. /\ status' = [status EXCEPT ![i] = "exited"]
      /\ peers' = [peers EXCEPT ![i] = [j \in Node |-> NoPeer]]
      /\ Close(mine) /\ sig' = [e \in End |-> sig[e] /\ e \notin mine]
      /\ UNCHANGED <<doc, view, link, cut>>
      /\ UNCHANGED <<used, budget>> \/ Spend("faults")
  BY DEF Exit, Crash, ProcessEnds, limits
<1>2. /\ budget' = budget
      /\ used' \in [faults : 0 .. budget.faults, leaves : 0 .. budget.leaves, ops : 0 .. budget.ops]
      /\ used'.leaves = 0 => used.leaves = 0
  BY <1>0, <1>1, SpendBudget DEF TypeOK
<1>3. mine \in SUBSET End /\ \A x \in End : x \in mine <=> link[x[1]] # <<>> /\ Local(x) = i
  OBVIOUS
<1> HIDE DEF mine
<1>4. /\ inbox' \in [End -> Seq(Frame)]
      /\ pc' \in [End -> {"free", "hello", "opening", "loop", "cleanup", "closed"}]
      /\ \A x \in End : pc'[x] = IF x \in mine THEN "closed" ELSE pc[x]
      /\ \A x \in End : \A f \in Buffered(x)' : f \in Buffered(x)
  BY <1>0, <1>1, <1>3, CloseFrames
<1>5. /\ peers' \in [Node -> [Node -> PeerHandle \cup {NoPeer}]]
      /\ \A k \in Node \ {i} : peers'[k] = peers[k]
  BY <1>0, <1>1 DEF TypeOK
<1>6. sig' \in [End -> BOOLEAN]  BY <1>1
<1>7. status' \in [Node -> {"off", "running", "draining", "cancelled", "exited"}]
      /\ status'[i] = "exited" /\ \A k \in Node \ {i} : status'[k] = status[k]
  BY <1>0, <1>1 DEF TypeOK
<1>8. TypeOK'  BY <1>0, <1>1, <1>2, <1>4, <1>5, <1>6, <1>7 DEF TypeOK, Frame
<1>9. \A x \in End : Local(x)' = Local(x) /\ Remote(x)' = Remote(x)  BY <1>1 DEF Local, Remote
<1>10. Wired'  BY <1>0, <1>1, <1>3, <1>4 DEF Wired
<1>11. Frames'  BY <1>0, <1>1, <1>4, <1>9 DEF Frames, Good
<1>12. \A x \in End : pc'[x] \notin {"free", "closed"} =>
          pc'[x] = pc[x] /\ link[x[1]] # <<>> /\ Local(x) # i
  BY <1>0, <1>3, <1>4 DEF Wired
<1>13. \A x \in End : link[x[1]] # <<>> => Local(x) \in Node /\ Remote(x) \in Node
  BY <1>0, Linked2
<1>14. Alive'
  <2>1. ASSUME NEW x \in End, Open(x)'  PROVE Up(Local(x))'
    <3>1. Open(x) /\ Local(x) \in Node \ {i}  BY <1>12, <1>13, <2>1 DEF Open
    <3>2. Up(Local(x))  BY <1>0, <3>1 DEF Alive
    <3> QED BY <1>7, <1>9, <3>1, <3>2 DEF Up
  <2>2. \A k \in Node : status'[k] = "off" => doc'[k] = NewDoc  BY <1>0, <1>1, <1>7 DEF Alive
  <2> QED BY <2>1, <2>2 DEF Alive
<1>15. Trusted'  BY <1>0, <1>9, <1>12 DEF Trusted, Active
<1>16. Registered'
  <2> SUFFICES ASSUME used'.leaves = 0, NEW x \in End, pc'[x] \in Active
               PROVE  peers'[Local(x)][Remote(x)].end = x
    BY <1>9 DEF Registered
  <2>1. pc[x] \in Active /\ Local(x) \in Node \ {i}  BY <1>12, <1>13 DEF Active
  <2> QED BY <1>0, <1>2, <1>5, <2>1 DEF Registered
<1>17. DocsCovered' /\ Isolation'  BY <1>0, <1>1 DEF DocsCovered, Isolation
<1>18. EventsTrackMembers'
  <2> SUFFICES ASSUME NEW k \in Node, status'[k] = "running"  PROVE view'[k] = Members(doc'[k])
    BY DEF EventsTrackMembers, Members, IsMember
  <2> QED BY <1>0, <1>1, <1>7 DEF EventsTrackMembers
<1> QED BY <1>8, <1>10, <1>11, <1>14, <1>15, <1>16, <1>17, <1>18 DEF IInv

LEMMA LeaveStep ==
  ASSUME IInv, NEW i \in Node, NEW j \in Node, Leave(i, j)
  PROVE  IInv'
<1>0. TypeOK  BY DEF IInv
<1>1. /\ Spend("leaves") /\ peers' = [peers EXCEPT ![i][j] = NoPeer]
      /\ UNCHANGED <<doc, status, view, link, cut, pc, inbox, sig>>
  BY DEF Leave, taskVars
<1>2. /\ budget' = budget
      /\ used' \in [faults : 0 .. budget.faults, leaves : 0 .. budget.leaves, ops : 0 .. budget.ops]
      /\ used'.leaves # 0
  BY <1>0, <1>1, SpendBudget
<1>3. TypeOK'  BY <1>0, <1>1, <1>2 DEF TypeOK
<1>4. Wired' /\ Alive' /\ Trusted' /\ DocsCovered' /\ Isolation' /\ EventsTrackMembers'
  BY <1>1 DEF IInv, Wired, Alive, Trusted, DocsCovered, Isolation, EventsTrackMembers, Open, Up, Local,
              Remote
<1>5. Frames'  BY <1>1 DEF IInv, Frames, Good, Buffered, Local, Remote
<1>6. Registered'  BY <1>2 DEF Registered
<1> QED BY <1>3, <1>4, <1>5, <1>6 DEF IInv

LEMMA SignalOrBreakStep ==
  ASSUME IInv, \/ \E i, j \in Node : GossipTick(i, j)
               \/ \E c \in Conn : Break(c)
  PROVE  IInv'
<1>0. TypeOK  BY DEF IInv
<1>1. ASSUME NEW i \in Node, NEW j \in Node, GossipTick(i, j)  PROVE IInv'
  <2>1. /\ sig' = Signal([k \in {j} |-> peers[i][k]])
        /\ UNCHANGED <<doc, status, view, peers, link, cut, pc, inbox, used, budget>>
    BY <1>1 DEF GossipTick, limits
  <2>2. sig' \in [End -> BOOLEAN]  BY <2>1 DEF Signal
  <2>3. TypeOK'  BY <1>0, <2>1, <2>2 DEF TypeOK
  <2> QED BY <2>1, <2>3, NothingElse
<1>2. ASSUME NEW c \in Conn, Break(c)  PROVE IInv'
  <2>1. /\ Spend("faults") /\ cut' = cut \cup {c}
        /\ UNCHANGED <<doc, status, view, peers, link, pc, inbox, sig>>
    BY <1>2 DEF Break, taskVars
  <2>2. /\ budget' = budget
        /\ used' \in [faults : 0 .. budget.faults, leaves : 0 .. budget.leaves, ops : 0 .. budget.ops]
        /\ used'.leaves = 0 => used.leaves = 0
    BY <1>0, <2>1, SpendBudget
  <2>3. TypeOK'  BY <1>0, <2>1, <2>2 DEF TypeOK
  <2> QED BY <2>1, <2>2, <2>3, NothingElse
<1> QED BY <1>1, <1>2

\* A new connection, with a Handshake on its way.
LEMMA DialStep ==
  ASSUME IInv, NEW i \in Node, NEW j \in Node, NEW c \in Conn, Dial(i, j, c)
  PROVE  IInv'
<1> DEFINE a == <<c, "init">>
           b == <<c, "resp">>
           hs == [type |-> "handshake", from |-> i]
<1>0. TypeOK /\ Wired /\ Frames /\ Alive /\ Trusted /\ Registered /\ DocsCovered /\ Isolation /\ EventsTrackMembers
  BY DEF IInv
<1>1. /\ status[i] = "running" /\ Listening(j) /\ link[c] = <<>>
      /\ link' = [link EXCEPT ![c] = <<i, j>>]
      /\ pc' = [pc EXCEPT ![a] = "hello", ![b] = "hello"]
      /\ inbox' = [inbox EXCEPT ![b] = <<hs>>]
      /\ UNCHANGED <<doc, status, view, peers, cut, sig, used, budget>>
  BY DEF Dial, limits
<1>2. /\ a \in End /\ b \in End /\ a # b /\ a[1] = c /\ b[1] = c /\ Other(a) = b /\ Other(b) = a
      /\ \A x \in End : x[1] = c => x = a \/ x = b
  BY DEF End, Other
<1>3. hs \in Frame /\ hs.type = "handshake" /\ hs.from = i  BY DEF Frame, Handshake
<1>4. <<hs>> \in Seq(Frame) /\ Content(<<hs>>) = {hs}
  <2>1. Len(<<hs>>) = 1 /\ <<hs>>[1] = hs /\ <<hs>> \in Seq(Frame)  BY <1>3
  <2>2. \A k \in 1 .. 1 : k = 1  OBVIOUS
  <2> QED BY <2>1, <2>2 DEF Content
<1> HIDE DEF hs
<1>5. /\ link' \in [Conn -> (Node \X Node) \cup {<<>>}] /\ link'[c] = <<i, j>>
      /\ \A d \in Conn \ {c} : link'[d] = link[d]
  BY <1>0, <1>1 DEF TypeOK
<1>6. /\ Local(a)' = i /\ Local(b)' = j /\ Remote(a)' = j /\ Remote(b)' = i
  <2>1. /\ a[1] = c /\ a[2] = "init" /\ b[1] = c /\ b[2] = "resp"
        /\ link'[c][1] = i /\ link'[c][2] = j
    BY <1>5
  <2>2. Local(a)' = i /\ Local(b)' = j  BY <2>1 DEF Local
  <2> QED BY <1>2, <2>2 DEF Remote
<1>7. \A x \in End : x[1] # c => link'[x[1]] = link[x[1]] /\ Local(x)' = Local(x) /\ Remote(x)' = Remote(x)
  BY <1>5, Ends DEF Local, Remote
<1> HIDE DEF a, b
<1>8. /\ inbox' \in [End -> Seq(Frame)] /\ inbox'[b] = <<hs>>
      /\ \A x \in End \ {b} : inbox'[x] = inbox[x]
  BY <1>0, <1>1, <1>2, <1>4 DEF TypeOK, Frame
<1>9. /\ pc' \in [End -> {"free", "hello", "opening", "loop", "cleanup", "closed"}]
      /\ pc'[a] = "hello" /\ pc'[b] = "hello"
      /\ \A x \in End : x # a /\ x # b => pc'[x] = pc[x]
  BY <1>0, <1>1, <1>2 DEF TypeOK
<1>10. TypeOK'  BY <1>0, <1>1, <1>5, <1>8, <1>9 DEF TypeOK, Frame
<1>11. Wired'
  <2> SUFFICES ASSUME NEW x \in End  PROVE pc'[x] = "free" <=> link'[x[1]] = <<>>
    BY DEF Wired
  <2>1. CASE x[1] = c
    <3>1. link'[x[1]] # <<>>
      <4>1. <<i, j>> # <<>>  OBVIOUS
      <4> QED BY <1>5, <2>1, <4>1
    <3> QED BY <1>2, <1>9, <2>1, <3>1
  <2>2. CASE x[1] # c  BY <1>0, <1>2, <1>7, <1>9, <2>2 DEF Wired
  <2> QED BY <2>1, <2>2
<1>12. Frames'
  <2> SUFFICES ASSUME NEW x \in End, NEW f \in Buffered(x)'  PROVE Good(x, f)'
    BY DEF Frames
  <2>1. CASE x = b
    <3>1. f = hs  BY <1>4, <1>8, <2>1 DEF Buffered
    <3>2. link'[x[1]] # <<>>
      <4>1. <<i, j>> # <<>>  OBVIOUS
      <4> QED BY <1>2, <1>5, <2>1, <4>1
    <3> QED BY <1>3, <1>6, <2>1, <3>1, <3>2 DEF Good
  <2>2. CASE x # b
    <3>1. f \in Buffered(x)  BY <1>8, <2>2 DEF Buffered
    <3>2. Good(x, f)  BY <1>0, <3>1 DEF Frames
    <3>3. x[1] # c  BY <1>1, <3>2 DEF Good
    <3> QED BY <1>7, <3>2, <3>3 DEF Good
  <2> QED BY <2>1, <2>2
<1>13. Alive'
  <2>1. ASSUME NEW x \in End, Open(x)'  PROVE Up(Local(x))'
    <3>1. CASE x = a  BY <1>1, <1>6, <3>1 DEF Up
    <3>2. CASE x = b  BY <1>1, <1>6, <3>2 DEF Up, Listening
    <3>3. CASE x # a /\ x # b
      <4>1. Open(x) /\ x[1] # c  BY <1>2, <1>9, <2>1, <3>3 DEF Open
      <4> QED BY <1>0, <1>1, <1>7, <4>1 DEF Alive, Up
    <3> QED BY <3>1, <3>2, <3>3
  <2>2. \A k \in Node : status'[k] = "off" => doc'[k] = NewDoc  BY <1>0, <1>1 DEF Alive
  <2> QED BY <2>1, <2>2 DEF Alive
<1>14. \A x \in End : pc'[x] \in Active => pc[x] \in Active /\ x[1] # c
  BY <1>2, <1>9 DEF Active
<1>15. Trusted'  BY <1>0, <1>7, <1>14 DEF Trusted
<1>16. Registered'  BY <1>0, <1>1, <1>7, <1>14 DEF Registered
<1>17. DocsCovered' /\ Isolation' /\ EventsTrackMembers'
  BY <1>0, <1>1 DEF DocsCovered, Isolation, EventsTrackMembers
<1> QED BY <1>10, <1>11, <1>12, <1>13, <1>15, <1>16, <1>17 DEF IInv

-------------------------------------------------------------------------------
(***************************************************************************)
(* Theorems                                                                *)
(***************************************************************************)

LEMMA InitInv == Init => IInv
<1> SUFFICES ASSUME Init  PROVE IInv
  OBVIOUS
<1>1. TypeOK
  <2>1. NewDoc \in Doc /\ <<>> \in Seq(Frame)  BY DeltaTypes
  <2>2. budget.faults \in Nat /\ budget.leaves \in Nat /\ budget.ops \in Nat
    BY SessionAssumption DEF Init
  <2>3. used \in [faults : 0 .. budget.faults, leaves : 0 .. budget.leaves, ops : 0 .. budget.ops]
    BY <2>2 DEF Init
  <2> QED BY <2>1, <2>3 DEF Init, TypeOK, Frame
<1>2. \A e \in End : pc[e] = "free" /\ link[e[1]] = <<>> /\ Buffered(e) = {}
  BY Ends, ContentEmpty DEF Init, Buffered
<1>3. Wired /\ Frames /\ Trusted /\ Registered  BY <1>2 DEF Wired, Frames, Trusted, Registered, Active
<1>4. Alive  BY <1>2 DEF Alive, Open, Init
<1>5. DocsCovered /\ Isolation
  <2>1. \A i \in Node : doc[i].writes = {}  BY DEF Init, NewDoc
  <2> QED BY <2>1 DEF DocsCovered, Covered, Isolation
<1>6. EventsTrackMembers  BY DEF EventsTrackMembers, Init
<1> QED BY <1>1, <1>3, <1>4, <1>5, <1>6 DEF IInv

LEMMA StepInv == IInv /\ [Next]_vars => IInv'
<1> SUFFICES ASSUME IInv, [Next]_vars  PROVE IInv'
  OBVIOUS
<1>1. CASE UNCHANGED vars
  <2>1. UNCHANGED <<doc, status, view, peers, link, cut, pc, inbox, sig, used, budget>>
    BY <1>1 DEF vars, limits
  <2>2. TypeOK'  BY <2>1 DEF IInv, TypeOK
  <2> QED BY <2>1, <2>2, NothingElse
<1>2. ASSUME NEW i \in Node, DaemonStep(i)  PROVE IInv'
  BY <1>2, StartStep, ServiceOpStep, ShutdownStep, ProcessEndsStep, LeaveStep, SignalOrBreakStep
     DEF DaemonStep
<1>3. ASSUME NEW e \in End, Session(e) \/ Suspect(e)  PROVE IInv'
  BY <1>3, HelloEndsStep, LoopEndsStep, SendInitialStep, SendDeltaStep, RecvHandshakeStep, RecvAckStep,
     RecvSyncStep, CleanupStep
     DEF Session, Straight
<1> QED BY <1>1, <1>2, <1>3, DialStep, SignalOrBreakStep DEF Next

\* The invariant holds throughout, whatever the daemons, the operators and the
\* network do.
THEOREM Invariance == Spec => []IInv
  BY InitInv, StepInv, PTL DEF Spec

\* The state of every daemon and connection keeps its type.
THEOREM TypeCorrect == Spec => []TypeOK
<1>1. IInv => TypeOK  BY DEF IInv
<1> QED BY Invariance, <1>1, PTL

\* While nobody runs pmd leave, a daemon has at most one registered session with
\* each other daemon, in any cluster and with any number of simultaneous dials in
\* either direction: the check for a duplicate and the insertion of the handle are
\* one locked block in run_inbound and in connect_to_peer.
THEOREM OneSessionTheorem == Spec => []OneSession
<1>1. IInv => OneSession
  <2> SUFFICES ASSUME IInv, NEW d \in End, NEW e \in End, pc[d] \in Active, pc[e] \in Active,
                      Local(d) = Local(e), Remote(d) = Remote(e), used.leaves = 0
               PROVE  d = e
    BY DEF OneSession, Active
  <2>1. peers[Local(d)][Remote(d)].end = d /\ peers[Local(e)][Remote(e)].end = e
    BY DEF IInv, Registered
  <2> QED BY <2>1
<1> QED BY Invariance, <1>1, PTL

\* Daemons with different cookies never come to hold each other's writes, however
\* many daemons and clusters there are and however deltas travel between them: the
\* cookie check of the handshake is enough for the whole mesh.
THEOREM IsolationTheorem == Spec => []Isolation
<1>1. IInv => Isolation  BY DEF IInv
<1> QED BY Invariance, <1>1, PTL

\* The NodeJoined and NodeLeft events of a running daemon add up to its member
\* list: the differences that merges report, and the one NodeLeft of a cleanup,
\* leave nothing out.
THEOREM EventsTheorem == Spec => []EventsTrackMembers
<1>1. IInv => EventsTrackMembers  BY DEF IInv
<1> QED BY Invariance, <1>1, PTL

-------------------------------------------------------------------------------
(***************************************************************************)
(* Clusters in which nothing goes wrong                                    *)
(***************************************************************************)

\* So far nothing has failed, nobody has left or stopped, and no two daemons have
\* dialled each other (nor one itself).
Calm ==
  /\ used.faults = 0 /\ used.leaves = 0
  /\ \A i \in Node : status[i] \in {"off", "running"}
  /\ \A d, e \in End :
       /\ link[d[1]] # <<>> /\ link[e[1]] # <<>>
       /\ Local(d) = Local(e) /\ Remote(d) = Remote(e)
       => d[2] = e[2]

\* A connection ends only because its responder refuses it, and then neither end
\* has got past the handshake.
Sound ==
  /\ cut = {}
  /\ \A e \in End :
       /\ pc[e] # "cleanup"
       /\ pc[e] \in Active => pc[Other(e)] # "closed"
       /\ e[2] = "resp" /\ pc[e] = "hello" => pc[Other(e)] = "hello"

\* An Ack waits only for an initiator whose responder has a session, and no frame
\* carries a tombstone.
Fits(e, m) ==
  /\ m.type = "handshake" => e[2] = "resp"
  /\ m.type = "ack" => e[2] = "init" /\ pc[Other(e)] \in Active
  /\ m.type = "sync" => \A w \in m.delta.writes : w.val # "dead"

Fitting == \A e \in End : \A m \in Buffered(e) : Fits(e, m)

\* A handle is the one of a session of its daemon with the peer it stands for.
Held ==
  \A i, j \in Node : Connected(i, j) =>
    LET e == peers[i][j].end
    IN  /\ e \in End /\ link[e[1]] # <<>> /\ pc[e] \in Active
        /\ Local(e) = i /\ Remote(e) = j

NoneDead == \A i \in Node : \A w \in doc[i].writes : w.val # "dead"

Settled == Sound /\ Fitting /\ Held /\ NoneDead

CalmInv == Calm => Settled

\* Handles are told apart by the end they signal.
LEMMA HandleEnd ==
  ASSUME TypeOK, NEW i \in Node, NEW j \in Node
  PROVE  /\ Connected(i, j) => peers[i][j] \in PeerHandle /\ peers[i][j].end \in End
         /\ Connected(i, j) <=> peers[i][j].end # <<>>
<1>1. peers[i][j] \in PeerHandle \/ peers[i][j] = NoPeer  BY DEF TypeOK
<1>2. NoPeer.end = <<>>  BY DEF NoPeer
<1>3. peers[i][j] \in PeerHandle => peers[i][j].end \in End  BY DEF PeerHandle
<1> QED BY <1>1, <1>2, <1>3, Ends DEF Connected

\* A new last_vv leaves the handle with its session.
LEMMA LastVVEnds ==
  ASSUME TypeOK, NEW i \in Node, NEW j \in Node, NEW vv
  PROVE  \A k, l \in Node : /\ SetLastVV(i, j, vv)[k][l].end = peers[k][l].end
                            /\ ~ Connected(k, l) => SetLastVV(i, j, vv)[k][l] = peers[k][l]
<1>1. peers \in [Node -> [Node -> PeerHandle \cup {NoPeer}]]  BY DEF TypeOK
<1>2. CASE Connected(i, j)
  <2>1. peers[i][j] \in PeerHandle  BY <1>2, HandleEnd
  <2> DEFINE h == [peers[i][j] EXCEPT !.lastVV = vv]
             table == [peers EXCEPT ![i] = [peers[i] EXCEPT ![j] = h]]
  <2>2. h.end = peers[i][j].end  BY <2>1 DEF PeerHandle
  <2>3. SetLastVV(i, j, vv) = table  BY <1>2 DEF SetLastVV
  <2> HIDE DEF h
  <2>4. /\ table[i][j] = h
        /\ \A k, l \in Node : k # i \/ l # j => table[k][l] = peers[k][l]
    BY <1>1
  <2> QED BY <1>2, <2>2, <2>3, <2>4
<1>3. CASE ~ Connected(i, j)  BY <1>3 DEF SetLastVV
<1> QED BY <1>2, <1>3

\* A step that changes no handle's end keeps every handle with its session.
LEMMA HeldKept ==
  ASSUME TypeOK, TypeOK', Held, UNCHANGED link,
         \A k, l \in Node : peers'[k][l].end = peers[k][l].end,
         \A x \in End : pc[x] \in Active => pc'[x] \in Active
  PROVE  Held'
<1> SUFFICES ASSUME NEW k \in Node, NEW l \in Node, Connected(k, l)'
             PROVE  LET x == peers[k][l].end
                    IN  /\ x \in End /\ link[x[1]] # <<>> /\ pc'[x] \in Active
                        /\ Local(x)' = k /\ Remote(x)' = l
  BY DEF Held
<1>1. peers'[k][l].end # <<>>
  <2>1. peers'[k][l] \in PeerHandle \/ peers'[k][l] = NoPeer  BY DEF TypeOK
  <2>2. peers'[k][l] \in PeerHandle  BY <2>1 DEF Connected
  <2>3. peers'[k][l].end \in End  BY <2>2 DEF PeerHandle
  <2> QED BY <2>3, Ends
<1>2. Connected(k, l)  BY <1>1, HandleEnd
<1> QED BY <1>2 DEF Held, Local, Remote

\* The task of e goes on; the other tasks stay where they are.
LEMMA SoundTask ==
  ASSUME Settled, NEW e \in End, UNCHANGED <<link, cut>>,
         \A x \in End \ {e} : pc'[x] = pc[x],
         pc[e] \in Active => pc'[e] \in Active,
         pc'[e] # "cleanup",
         pc'[e] = "hello" => pc[e] = "hello",
         pc'[e] = "closed" => pc[Other(e)] \notin Active,
         pc'[e] \in Active => pc[Other(e)] # "closed",
         e[2] = "init" /\ pc'[e] # "hello" => pc[Other(e)] # "hello",
         \A x \in End : \A f \in Buffered(x)' : f \in Buffered(x) \/ Fits(x, f)'
  PROVE  Sound' /\ Fitting'
<1>0. Sound /\ Fitting  BY DEF Settled
<1>1. /\ Other(e) \in End /\ Other(Other(e)) = e /\ Other(e) # e  BY Ends
<1>2. \A x \in End : x # e => Other(x) \in End  BY Ends
<1>3. \A x \in End : Other(x) = e => x = Other(e)  BY Ends
<1>4. e[2] = "resp" \/ e[2] = "init"
  <2>1. PICK c \in Conn, w \in {"init", "resp"} : e = <<c, w>>  BY DEF End
  <2> QED BY <2>1
<1>5. Other(e)[2] = "resp" => e[2] = "init"  BY <1>4 DEF Other
<1>6. Sound'
  <2> SUFFICES ASSUME NEW x \in End
               PROVE  /\ pc'[x] # "cleanup"
                      /\ pc'[x] \in Active => pc'[Other(x)] # "closed"
                      /\ x[2] = "resp" /\ pc'[x] = "hello" => pc'[Other(x)] = "hello"
    BY <1>0 DEF Sound
  <2>0. /\ pc[x] # "cleanup" /\ (pc[x] \in Active => pc[Other(x)] # "closed")
        /\ (x[2] = "resp" /\ pc[x] = "hello" => pc[Other(x)] = "hello")
    BY <1>0 DEF Sound
  <2>1. CASE x = e  BY <1>1, <2>0, <2>1
  <2>2. CASE x = Other(e)  BY <1>1, <1>5, <2>0, <2>2
  <2>3. CASE x # e /\ x # Other(e)
    <3>1. pc'[x] = pc[x] /\ pc'[Other(x)] = pc[Other(x)]  BY <1>2, <1>3, <2>3
    <3> QED BY <2>0, <3>1
  <2> QED BY <2>1, <2>2, <2>3
<1>7. Fitting'
  <2> SUFFICES ASSUME NEW x \in End, NEW f \in Buffered(x)  PROVE Fits(x, f)'
    BY DEF Fitting
  <2>1. Fits(x, f)  BY <1>0 DEF Fitting
  <2>2. pc[Other(x)] \in Active => pc'[Other(x)] \in Active  BY Ends
  <2> QED BY <2>1, <2>2 DEF Fits
<1> QED BY <1>6, <1>7

\* What one end is when nothing has gone wrong.
LEMMA SoundEnd ==
  ASSUME IInv, Settled, NEW e \in End
  PROVE  /\ pc[e] \in Active => ~ Gone(e) /\ pc[Other(e)] # "closed"
         /\ Gone(e) => pc[Other(e)] = "closed"
         /\ e[2] = "init" /\ pc[e] \in Active => pc[Other(e)] \in Active
<1>0. TypeOK /\ Wired /\ Sound  BY DEF IInv, Settled
<1>1. /\ Other(e) \in End /\ Other(Other(e)) = e /\ Other(e)[1] = e[1]  BY Ends
<1>2. Gone(e) => pc[Other(e)] = "closed"  BY <1>0 DEF Gone, Sound
<1>3. pc[e] \in Active => pc[Other(e)] # "closed"  BY <1>0 DEF Sound
<1>4. ASSUME e[2] = "init", pc[e] \in Active  PROVE pc[Other(e)] \in Active
  <2>1. Other(e)[2] = "resp"  BY <1>4 DEF Other
  <2>2. pc[e] # "hello" /\ pc[e] # "free"  BY <1>4 DEF Active
  <2>3. pc[Other(e)] # "hello"  BY <1>0, <1>1, <2>1, <2>2 DEF Sound
  <2>4. pc[Other(e)] # "free"  BY <1>0, <1>1, <2>2 DEF Wired
  <2>5. pc[Other(e)] \in {"free", "hello", "opening", "loop", "cleanup", "closed"}  BY <1>0, <1>1 DEF TypeOK
  <2> QED BY <1>3, <1>4, <2>3, <2>4, <2>5 DEF Active
<1> QED BY <1>2, <1>3, <1>4

\* A session is the only one of its daemon with its peer.
LEMMA OnlySession ==
  ASSUME IInv, Calm, NEW d \in End, NEW e \in End, pc[d] \in Active, pc[e] \in Active,
         Local(d) = Local(e), Remote(d) = Remote(e)
  PROVE  d = e
<1>1. peers[Local(d)][Remote(d)].end = d /\ peers[Local(e)][Remote(e)].end = e
  BY DEF IInv, Registered, Calm
<1> QED BY <1>1

\* An initiator never finds itself connected when its Ack comes.
LEMMA AckAccepted ==
  ASSUME IInv, Calm, Settled, NEW e \in End, pc[e] = "hello", HasFrame(e, "ack")
  PROVE  Accepts(e, Head(inbox[e]).from)
<1> DEFINE i == Local(e)
           j == Remote(e)
           o == Other(e)
<1>0. TypeOK /\ Frames /\ Wired /\ Trusted /\ Fitting /\ Held  BY DEF IInv, Settled
<1>1. inbox[e] # <<>> /\ Head(inbox[e]).type = "ack"  BY DEF HasFrame
<1>2. /\ link[e[1]] # <<>> /\ i \in Node /\ j \in Node /\ Head(inbox[e]).from = j
  BY <1>1, FirstFrame
<1>3. Head(inbox[e]) \in Buffered(e)  BY <1>0, <1>1, TakeFrames
<1>4. e[2] = "init" /\ pc[o] \in Active  BY <1>0, <1>1, <1>3 DEF Fitting, Fits
<1>5. o \in End /\ Local(o) = j /\ Remote(o) = i  BY <1>0, <1>2, Ends, Linked2
<1>6. Cookie[i] = Cookie[j]  BY <1>0, <1>4, <1>5 DEF Trusted
<1>7. ~ Connected(i, j)
  <2> SUFFICES ASSUME Connected(i, j)  PROVE FALSE
    OBVIOUS
  <2> DEFINE d == peers[i][j].end
  <2>1. d \in End /\ link[d[1]] # <<>> /\ pc[d] \in Active /\ Local(d) = i /\ Remote(d) = j
    BY <1>0, <1>2 DEF Held
  <2> HIDE DEF d
  <2>2. d[2] = "init"  BY <1>2, <1>4, <2>1 DEF Calm
  <2>3. pc[Other(d)] \in Active  BY <2>1, <2>2, SoundEnd
  <2>4. Other(d) \in End /\ Local(Other(d)) = j /\ Remote(Other(d)) = i  BY <1>0, <2>1, Ends, Linked2
  <2>5. Other(d) = o  BY <1>4, <1>5, <2>3, <2>4, OnlySession
  <2>6. d = e  BY <2>1, <2>5, Ends
  <2> QED BY <2>1, <2>6 DEF Active
<1> QED BY <1>2, <1>6, <1>7 DEF Accepts

LEMMA CalmHelloEnds ==
  ASSUME IInv, IInv', Calm, Settled, NEW e \in End, HelloEnds(e) \/ Reject(e)
  PROVE  Settled'
<1>0. TypeOK /\ TypeOK' /\ Fitting /\ Held /\ NoneDead /\ Sound  BY DEF IInv, Settled
<1>1. /\ pc[e] = "hello" /\ Close({e})
      /\ UNCHANGED <<doc, status, view, peers, link, cut, sig, used, budget>>
  BY DEF HelloEnds, Reject, limits
<1>2. /\ \A x \in End : pc'[x] = IF x \in {e} THEN "closed" ELSE pc[x]
      /\ \A x \in End : \A f \in Buffered(x)' : f \in Buffered(x)
  BY <1>0, <1>1, CloseFrames
<1>3. pc'[e] = "closed" /\ \A x \in End \ {e} : pc'[x] = pc[x]  BY <1>2
<1>4. pc[Other(e)] \notin Active /\ (e[2] = "init" => pc[Other(e)] # "hello")
  <2>1. CASE HelloEnds(e)
    <3>1. pc[Other(e)] = "closed"  BY <2>1, SoundEnd DEF HelloEnds
    <3> QED BY <3>1 DEF Active
  <2>2. CASE Reject(e)
    <3>1. ~ HasFrame(e, "ack")  BY <2>2, AckAccepted DEF Reject
    <3>2. inbox[e] # <<>> /\ Head(inbox[e]).type = "handshake"  BY <2>2, <3>1 DEF Reject, HasFrame
    <3>3. Head(inbox[e]) \in Buffered(e)  BY <1>0, <3>2, TakeFrames
    <3>4. e[2] = "resp"  BY <1>0, <3>2, <3>3 DEF Fitting, Fits
    <3>5. pc[Other(e)] = "hello"  BY <1>0, <1>1, <3>4 DEF Sound
    <3> QED BY <3>4, <3>5 DEF Active
  <2> QED BY <2>1, <2>2
<1>5. Sound' /\ Fitting'  BY <1>1, <1>2, <1>3, <1>4, SoundTask DEF Active
<1>6. Held'
  <2>1. \A x \in End : pc[x] \in Active => pc'[x] \in Active  BY <1>1, <1>3 DEF Active
  <2> QED BY <1>0, <1>1, <2>1, HeldKept
<1>7. NoneDead'  BY <1>0, <1>1 DEF NoneDead
<1> QED BY <1>5, <1>6, <1>7 DEF Settled

\* Check and insert, when the session goes on.
LEMMA CalmInsert ==
  ASSUME IInv, IInv', Settled, NEW e \in End, pc[e] = "hello", inbox[e] # <<>>,
         Head(inbox[e]).type # "sync", NEW vv, Insert(e, Head(inbox[e]).from, vv),
         UNCHANGED <<doc, link, cut>>,
         pc' = [pc EXCEPT ![e] = "opening"],
         pc[Other(e)] # "closed", e[2] = "init" => pc[Other(e)] # "hello",
         \A x \in End : \A f \in Buffered(x)' : f \in Buffered(x) \/ Fits(x, f)'
  PROVE  Settled'
<1> DEFINE i == Local(e)
           j == Remote(e)
           new == [end |-> e, lastVV |-> vv]
<1>0. TypeOK /\ TypeOK' /\ Held /\ NoneDead  BY DEF IInv, Settled
<1>1. /\ i \in Node /\ j \in Node /\ link[e[1]] # <<>> /\ Head(inbox[e]).from = j  BY FirstFrame
<1>2. pc'[e] = "opening" /\ \A x \in End \ {e} : pc'[x] = pc[x]  BY <1>0 DEF TypeOK
<1>3. Sound' /\ Fitting'  BY <1>2, SoundTask DEF Active
<1>4. peers' = [peers EXCEPT ![i][j] = new] /\ new.end = e  BY <1>1 DEF Insert
<1>5. \A x \in End : Local(x)' = Local(x) /\ Remote(x)' = Remote(x)  BY DEF Local, Remote
<1>6. i = Local(e) /\ j = Remote(e)  OBVIOUS
<1> HIDE DEF i, j, new
<1>7. /\ peers'[i][j] = new
      /\ \A k, l \in Node : k # i \/ l # j => peers'[k][l] = peers[k][l]
  BY <1>0, <1>1, <1>4 DEF TypeOK
<1>8. Held'
  <2> SUFFICES ASSUME NEW k \in Node, NEW l \in Node, Connected(k, l)'
               PROVE  LET x == peers'[k][l].end
                      IN  /\ x \in End /\ link[x[1]] # <<>> /\ pc'[x] \in Active
                          /\ Local(x) = k /\ Remote(x) = l
    BY <1>5 DEF Held
  <2>1. CASE k = i /\ l = j
    <3>1. peers'[k][l].end = e  BY <1>4, <1>7, <2>1
    <3> QED BY <1>1, <1>2, <1>6, <2>1, <3>1 DEF Active
  <2>2. CASE k # i \/ l # j
    <3>1. peers'[k][l] = peers[k][l] /\ Connected(k, l)  BY <1>7, <2>2 DEF Connected
    <3>2. \A x \in End : pc[x] \in Active => pc'[x] \in Active  BY <1>2 DEF Active
    <3> QED BY <1>0, <3>1, <3>2 DEF Held
  <2> QED BY <2>1, <2>2
<1>9. NoneDead'  BY <1>0 DEF NoneDead
<1> QED BY <1>3, <1>8, <1>9 DEF Settled

LEMMA CalmRecvHandshake ==
  ASSUME IInv, IInv', Settled, NEW e \in End, RecvHandshake(e)
  PROVE  Settled'
<1>0. TypeOK /\ Sound /\ Fitting  BY DEF IInv, Settled
<1>1. /\ pc[e] = "hello" /\ inbox[e] # <<>> /\ Head(inbox[e]).type = "handshake"
      /\ Insert(e, Head(inbox[e]).from, ZeroVV)
      /\ UNCHANGED <<doc, status, view, link, cut, sig, used, budget>>
  BY DEF RecvHandshake, HasFrame, limits
<1>2. Head(inbox[e]) \in Buffered(e)  BY <1>0, <1>1, TakeFrames
<1>3. e[2] = "resp"  BY <1>0, <1>1, <1>2 DEF Fitting, Fits
<1>4. pc[Other(e)] = "hello"  BY <1>0, <1>1, <1>3 DEF Sound
<1>5. ~ Gone(e)  BY <1>4, SoundEnd
<1>6. [type |-> "ack", from |-> Local(e), vv |-> doc[Local(e)].vv] \in Frame
  <2>1. Local(e) \in Node  BY <1>1, FirstFrame
  <2>2. doc[Local(e)].vv \in VV  BY <1>0, <2>1 DEF TypeOK, Doc
  <2> QED BY <2>1, <2>2 DEF Frame, Ack
<1>7. PICK m \in Frame : m = [type |-> "ack", from |-> Local(e), vv |-> doc[Local(e)].vv]
  BY <1>6
<1>8. pc' = [pc EXCEPT ![e] = "opening"] /\ WriteOK(e, m, Take(e))
  BY <1>5, <1>7 DEF RecvHandshake, Goto
<1>9. Take(e) \in [End -> Seq(Frame)] /\ \A x \in End : Content(Take(e)[x]) \subseteq Buffered(x)
  BY <1>0, <1>1, TakeFrames
<1>10. \A x \in End : \A f \in Buffered(x)' : f \in Buffered(x) \/ (x = Other(e) /\ f = m)
  BY <1>0, <1>8, <1>9, WriteFrames
<1>11. Fits(Other(e), m)'
  <2>1. pc'[e] = "opening"  BY <1>0, <1>8 DEF TypeOK
  <2>2. Other(Other(e)) = e /\ Other(e)[2] = "init"  BY <1>3, Ends DEF Other
  <2>3. m.type = "ack"  BY <1>7
  <2> QED BY <2>1, <2>2, <2>3 DEF Fits, Active
<1>12. \A x \in End : \A f \in Buffered(x)' : f \in Buffered(x) \/ Fits(x, f)'  BY <1>10, <1>11
<1> QED BY <1>1, <1>3, <1>4, <1>8, <1>12, CalmInsert

LEMMA CalmRecvAck ==
  ASSUME IInv, IInv', Settled, NEW e \in End, RecvAck(e)
  PROVE  Settled'
<1>0. TypeOK /\ Fitting  BY DEF IInv, Settled
<1>1. /\ pc[e] = "hello" /\ inbox[e] # <<>> /\ Head(inbox[e]).type = "ack"
      /\ Insert(e, Head(inbox[e]).from, Head(inbox[e]).vv)
      /\ pc' = [pc EXCEPT ![e] = "opening"] /\ inbox' = Take(e)
      /\ UNCHANGED <<doc, status, view, link, cut, sig, used, budget>>
  BY DEF RecvAck, HasFrame, Goto, limits
<1>2. /\ Head(inbox[e]) \in Buffered(e)
      /\ \A x \in End : Content(Take(e)[x]) \subseteq Buffered(x)
  BY <1>0, <1>1, TakeFrames
<1>3. pc[Other(e)] \in Active  BY <1>0, <1>1, <1>2 DEF Fitting, Fits
<1>4. pc[Other(e)] # "closed" /\ pc[Other(e)] # "hello"  BY <1>3 DEF Active
<1>5. \A x \in End : \A f \in Buffered(x)' : f \in Buffered(x)  BY <1>1, <1>2 DEF Buffered
<1> QED BY <1>1, <1>4, <1>5, CalmInsert

\* A session sends what its daemon holds, and goes on.
LEMMA CalmSend ==
  ASSUME IInv, IInv', Settled, NEW e \in End, pc[e] \in Active, NEW v \in VV,
         UNCHANGED <<doc, peers, link, cut>>,
         pc'[e] \in {"opening", "loop"}, \A x \in End \ {e} : pc'[x] = pc[x],
         WriteOK(e, [type |-> "sync", delta |-> DeltaForPeer(doc[Local(e)], v)], inbox)
  PROVE  Settled'
<1>0. TypeOK /\ TypeOK' /\ Wired /\ Held /\ NoneDead  BY DEF IInv, Settled
<1>1. PICK m \in Frame : m = [type |-> "sync", delta |-> DeltaForPeer(doc[Local(e)], v)]
  BY DeltaIsGood
<1>2. /\ inbox \in [End -> Seq(Frame)] /\ \A x \in End : Content(inbox[x]) \subseteq Buffered(x)
  BY <1>0 DEF TypeOK, Frame, Buffered
<1>3. \A x \in End : \A f \in Buffered(x)' : f \in Buffered(x) \/ (x = Other(e) /\ f = m)
  BY <1>0, <1>1, <1>2, WriteFrames
<1>4. m.type = "sync" /\ \A w \in m.delta.writes : w.val # "dead"
  <2>1. link[e[1]] # <<>>  BY <1>0 DEF Wired, Active
  <2>2. Local(e) \in Node  BY <1>0, <2>1, Linked2
  <2>3. m.delta.writes \subseteq doc[Local(e)].writes  BY <1>1 DEF DeltaForPeer, DeltaSince
  <2> QED BY <1>0, <1>1, <2>2, <2>3 DEF NoneDead
<1>5. \A x \in End : \A f \in Buffered(x)' : f \in Buffered(x) \/ Fits(x, f)'  BY <1>3, <1>4 DEF Fits
<1>6. pc[Other(e)] # "closed" /\ (e[2] = "init" => pc[Other(e)] # "hello")
  BY SoundEnd DEF Active
<1>7. Sound' /\ Fitting'  BY <1>5, <1>6, SoundTask DEF Active
<1>8. Held'
  <2>1. \A x \in End : pc[x] \in Active => pc'[x] \in Active  BY DEF Active
  <2> QED BY <1>0, <2>1, HeldKept
<1>9. NoneDead'  BY <1>0 DEF NoneDead
<1> QED BY <1>7, <1>8, <1>9 DEF Settled

LEMMA CalmSendInitial ==
  ASSUME IInv, IInv', Settled, NEW e \in End, SendInitial(e)
  PROVE  Settled'
<1>0. TypeOK /\ pc[e] \in Active  BY DEF IInv, SendInitial, Active
<1>1. ~ Gone(e)  BY <1>0, SoundEnd
<1>2. /\ pc' = [pc EXCEPT ![e] = "loop"]
      /\ WriteOK(e, [type |-> "sync", delta |-> DeltaForPeer(doc[Local(e)], ZeroVV)], inbox)
      /\ UNCHANGED <<doc, peers, link, cut>>
  BY <1>1 DEF SendInitial, Goto, FullDelta
<1>3. pc'[e] = "loop" /\ \A x \in End \ {e} : pc'[x] = pc[x]  BY <1>0, <1>2 DEF TypeOK
<1>4. ZeroVV \in VV  BY DeltaTypes
<1> QED BY <1>0, <1>2, <1>3, <1>4, CalmSend

LEMMA CalmSendDelta ==
  ASSUME IInv, IInv', Settled, NEW e \in End, SendDelta(e)
  PROVE  Settled'
<1> DEFINE i == Local(e)
           j == Remote(e)
<1>0. TypeOK /\ Wired  BY DEF IInv
<1>1. pc[e] = "loop" /\ pc[e] \in Active /\ UNCHANGED <<doc, peers, link, cut>>
  BY DEF SendDelta, Active
<1>2. ~ Gone(e)  BY <1>1, SoundEnd
<1>3. link[e[1]] # <<>>  BY <1>0, <1>1 DEF Wired
<1>4. i \in Node /\ j \in Node  BY <1>0, <1>3, Linked2
<1>5. ASSUME UNCHANGED <<pc, inbox>>  PROVE Settled'
  BY <1>1, <1>5 DEF Settled, Sound, Fitting, Fits, Held, NoneDead, Connected, Buffered, Local, Remote
<1>6. ASSUME /\ Connected(i, j) /\ UNCHANGED pc
             /\ WriteOK(e, [type |-> "sync", delta |-> DeltaForPeer(doc[i], peers[i][j].lastVV)], inbox)
      PROVE  Settled'
  <2>1. peers[i][j].lastVV \in VV  BY <1>0, <1>4, <1>6, HandleEnd DEF PeerHandle
  <2> QED BY <1>1, <1>6, <2>1, CalmSend
<1> QED BY <1>2, <1>5, <1>6 DEF SendDelta

LEMMA CalmRecvSync ==
  ASSUME IInv, IInv', Settled, NEW e \in End, RecvSync(e)
  PROVE  Settled'
<1> DEFINE i == Local(e)
           j == Remote(e)
           delta == Head(inbox[e]).delta
           merged == MergeRemote(doc[i], delta)
<1>0. TypeOK /\ TypeOK' /\ Sound /\ Fitting /\ Held /\ NoneDead  BY DEF IInv, Settled
<1>1. /\ pc[e] = "loop" /\ inbox[e] # <<>> /\ Head(inbox[e]).type = "sync"
      /\ inbox' = Take(e) /\ doc' = [doc EXCEPT ![i] = merged]
      /\ peers' = SetLastVV(i, j, delta.vv)
      /\ UNCHANGED <<link, cut, pc>>
  BY DEF RecvSync, HasFrame
<1>2. i \in Node /\ j \in Node  BY <1>1, FirstFrame
<1>3. /\ Head(inbox[e]) \in Buffered(e)
      /\ \A x \in End : Content(Take(e)[x]) \subseteq Buffered(x)
  BY <1>0, <1>1, TakeFrames
<1>4. \A w \in delta.writes : w.val # "dead"  BY <1>0, <1>1, <1>3 DEF Fitting, Fits
<1>5. merged.writes = doc[i].writes \cup delta.writes  BY DEF MergeRemote, MergeDelta
<1> HIDE DEF i, j, delta, merged
<1>6. NoneDead'
  <2>1. doc'[i] = merged /\ \A k \in Node \ {i} : doc'[k] = doc[k]  BY <1>0, <1>1, <1>2 DEF TypeOK
  <2> QED BY <1>0, <1>2, <1>4, <1>5, <2>1 DEF NoneDead
<1>7. Sound'  BY <1>0, <1>1 DEF Sound
<1>8. Fitting'
  <2>1. \A x \in End : \A f \in Buffered(x)' : f \in Buffered(x)  BY <1>1, <1>3 DEF Buffered
  <2> QED BY <1>0, <1>1, <2>1 DEF Fitting, Fits
<1>9. \A k, l \in Node : peers'[k][l].end = peers[k][l].end  BY <1>0, <1>1, <1>2, LastVVEnds
<1>10. Held'  BY <1>0, <1>1, <1>9, HeldKept
<1> QED BY <1>6, <1>7, <1>8, <1>10 DEF Settled

\* A daemon that starts or changes its services writes no tombstone.
LEMMA NoTombstone ==
  ASSUME NEW d, NEW i \in Node, \A w \in d.writes : w.val # "dead"
  PROVE  /\ \A w \in AddNode(d, i).writes : w.val # "dead"
         /\ \A s \in Service : /\ \A w \in RegisterService(d, i, s).writes : w.val # "dead"
                               /\ \A w \in UnregisterService(d, i, s).writes : w.val # "dead"
<1>1. ASSUME NEW puts, NEW ctx, \A p \in DOMAIN puts : puts[p] # "dead"
      PROVE  \A w \in Commit(d, i, puts, ctx).writes : w.val # "dead"
  BY <1>1 DEF Commit
<1>2. \A w \in AddNode(d, i).writes : w.val # "dead"
  <2> DEFINE puts == [p \in {NodePath(i)} |-> "addr"]
  <2>1. \A p \in DOMAIN puts : puts[p] # "dead"  OBVIOUS
  <2> HIDE DEF puts
  <2>2. \A w \in Commit(d, i, puts, d.vv).writes : w.val # "dead"  BY <1>1, <2>1
  <2> QED BY <2>2 DEF AddNode, SetPaths, puts
<1>3. ASSUME NEW s \in Service
      PROVE  /\ \A w \in RegisterService(d, i, s).writes : w.val # "dead"
             /\ \A w \in UnregisterService(d, i, s).writes : w.val # "dead"
  <2> DEFINE puts == [p \in {SvcPath(i, s)} |-> "port"]
             none == [q \in {SvcPath(i, s)} |-> "removed"]
             ctx  == [n \in Node |-> IF n = i THEN d.vv[i] ELSE 0]
  <2>1. (\A p \in DOMAIN puts : puts[p] # "dead") /\ (\A p \in DOMAIN none : none[p] # "dead")
    OBVIOUS
  <2> HIDE DEF puts, none, ctx
  <2>2. /\ \A w \in Commit(d, i, puts, d.vv).writes : w.val # "dead"
        /\ \A w \in Commit(d, i, none, ctx).writes : w.val # "dead"
    BY <1>1, <2>1
  <2> QED BY <2>2 DEF RegisterService, UnregisterService, SetPaths, RemovePath, puts, none, ctx
<1> QED BY <1>2, <1>3

LEMMA CalmDaemon ==
  ASSUME IInv, Settled, NEW i \in Node,
         Start(i) \/ (\E s \in Service : ServiceOp(i, s)) \/ (\E j \in Node : GossipTick(i, j))
  PROVE  Settled'
<1>0. TypeOK /\ NoneDead  BY DEF IInv, Settled
<1>1. UNCHANGED <<peers, link, cut, pc, inbox>>  BY DEF Start, ServiceOp, GossipTick, taskVars
<1>2. Sound' /\ Fitting' /\ Held'
  BY <1>1 DEF Settled, Sound, Fitting, Fits, Held, Connected, Buffered, Local, Remote
<1>3. NoneDead'
  <2>1. \A w \in doc[i].writes : w.val # "dead"  BY <1>0 DEF NoneDead
  <2>2. ASSUME NEW d, doc' = [doc EXCEPT ![i] = d], \A w \in d.writes : w.val # "dead"  PROVE NoneDead'
    <3>1. doc'[i] = d /\ \A k \in Node \ {i} : doc'[k] = doc[k]  BY <1>0, <2>2 DEF TypeOK
    <3> QED BY <1>0, <2>2, <3>1 DEF NoneDead
  <2>3. ASSUME Start(i)  PROVE NoneDead'
    <3>1. doc' = [doc EXCEPT ![i] = AddNode(doc[i], i)]  BY <2>3 DEF Start
    <3>2. \A w \in AddNode(doc[i], i).writes : w.val # "dead"  BY <2>1, NoTombstone
    <3> QED BY <2>2, <3>1, <3>2
  <2>4. ASSUME NEW s \in Service, ServiceOp(i, s)  PROVE NoneDead'
    <3>1. PICK d \in {RegisterService(doc[i], i, s), UnregisterService(doc[i], i, s)} :
                doc' = [doc EXCEPT ![i] = d]
      BY <2>4 DEF ServiceOp
    <3>2. \A w \in d.writes : w.val # "dead"  BY <2>1, <3>1, NoTombstone
    <3> QED BY <2>2, <3>1, <3>2
  <2>5. ASSUME NEW j \in Node, GossipTick(i, j)  PROVE NoneDead'
    BY <1>0, <2>5 DEF GossipTick, NoneDead
  <2> QED BY <2>3, <2>4, <2>5
<1> QED BY <1>2, <1>3 DEF Settled

LEMMA CalmDial ==
  ASSUME IInv, Settled, NEW i \in Node, NEW j \in Node, NEW c \in Conn, Dial(i, j, c)
  PROVE  Settled'
<1> DEFINE a == <<c, "init">>
           b == <<c, "resp">>
           hs == [type |-> "handshake", from |-> i]
<1>0. TypeOK /\ Wired /\ Sound /\ Fitting /\ Held /\ NoneDead  BY DEF IInv, Settled
<1>1. /\ link[c] = <<>> /\ link' = [link EXCEPT ![c] = <<i, j>>]
      /\ pc' = [pc EXCEPT ![a] = "hello", ![b] = "hello"]
      /\ inbox' = [inbox EXCEPT ![b] = <<hs>>]
      /\ UNCHANGED <<doc, peers, cut>>
  BY DEF Dial
<1>2. /\ a \in End /\ b \in End /\ a # b /\ a[1] = c /\ b[1] = c /\ Other(a) = b /\ Other(b) = a
      /\ b[2] = "resp" /\ \A x \in End : x[1] = c => x = a \/ x = b
  BY DEF End, Other
<1>3. Content(<<hs>>) = {hs} /\ hs.type = "handshake"
  <2>1. Len(<<hs>>) = 1 /\ <<hs>>[1] = hs  OBVIOUS
  <2>2. \A k \in 1 .. 1 : k = 1  OBVIOUS
  <2> QED BY <2>1, <2>2 DEF Content
<1> HIDE DEF hs, a, b
<1>4. /\ pc'[a] = "hello" /\ pc'[b] = "hello"
      /\ \A x \in End : x[1] # c => pc'[x] = pc[x] /\ pc'[Other(x)] = pc[Other(x)]
  <2>1. \A x \in End : x[1] # c => x # a /\ x # b /\ Other(x) \in End /\ Other(x) # a /\ Other(x) # b
    BY <1>2, Ends
  <2> QED BY <1>0, <1>1, <1>2, <2>1 DEF TypeOK
<1>5. Sound'
  <2> SUFFICES ASSUME NEW x \in End
               PROVE  /\ pc'[x] # "cleanup"
                      /\ pc'[x] \in Active => pc'[Other(x)] # "closed"
                      /\ x[2] = "resp" /\ pc'[x] = "hello" => pc'[Other(x)] = "hello"
    BY <1>0, <1>1 DEF Sound
  <2>1. ASSUME x[1] = c  PROVE pc'[x] = "hello" /\ pc'[Other(x)] = "hello"  BY <1>2, <1>4, <2>1
  <2>2. ASSUME x[1] # c  PROVE pc'[x] = pc[x] /\ pc'[Other(x)] = pc[Other(x)]  BY <1>4, <2>2
  <2> QED BY <1>0, <2>1, <2>2 DEF Sound, Active
<1>6. Fitting'
  <2> SUFFICES ASSUME NEW x \in End, NEW f \in Buffered(x)'  PROVE Fits(x, f)'
    BY DEF Fitting
  <2>1. CASE x = b
    <3>1. f = hs  BY <1>0, <1>1, <1>2, <1>3, <2>1 DEF Buffered, TypeOK
    <3> QED BY <1>2, <1>3, <2>1, <3>1 DEF Fits
  <2>2. CASE x # b
    <3>1. f \in Buffered(x)  BY <1>0, <1>1, <2>2 DEF Buffered, TypeOK
    <3>2. x[1] # c  BY <1>1, <3>1 DEF IInv, Frames, Good
    <3>3. Fits(x, f) /\ pc'[Other(x)] = pc[Other(x)]  BY <1>0, <1>4, <3>1, <3>2 DEF Fitting
    <3> QED BY <3>3 DEF Fits
  <2> QED BY <2>1, <2>2
<1>7. Held'
  <2>1. ASSUME NEW x \in End, link[x[1]] # <<>>
        PROVE  /\ link'[x[1]] # <<>> /\ pc'[x] = pc[x]
               /\ Local(x)' = Local(x) /\ Remote(x)' = Remote(x)
    <3>1. x[1] # c /\ x[1] \in Conn /\ Other(x)[1] = x[1]  BY <1>1, <2>1, Ends
    <3>2. link'[x[1]] = link[x[1]] /\ pc'[x] = pc[x]  BY <1>0, <1>1, <1>4, <3>1 DEF TypeOK
    <3> QED BY <2>1, <3>1, <3>2 DEF Local, Remote
  <2> SUFFICES ASSUME NEW k \in Node, NEW l \in Node, Connected(k, l)'
               PROVE  LET x == peers'[k][l].end
                      IN  /\ x \in End /\ link'[x[1]] # <<>> /\ pc'[x] \in Active
                          /\ Local(x) = k /\ Remote(x) = l /\ link[x[1]] # <<>>
    BY <2>1 DEF Held
  <2> QED BY <1>0, <1>1, <2>1 DEF Held, Connected
<1>8. NoneDead'  BY <1>0, <1>1 DEF NoneDead
<1> QED BY <1>5, <1>6, <1>7, <1>8 DEF Settled

\* What has gone wrong, and who has dialled whom, is never forgotten.
LEMMA NothingForgotten ==
  ASSUME IInv, Next
  PROVE  /\ used'.faults = 0 => used.faults = 0
         /\ used'.leaves = 0 => used.leaves = 0
         /\ \A k \in Node : status'[k] \in {"off", "running"} => status[k] \in {"off", "running"}
         /\ \A c \in Conn : link[c] # <<>> => link'[c] = link[c]
<1> DEFINE Kept == /\ used'.faults = 0 => used.faults = 0
                   /\ used'.leaves = 0 => used.leaves = 0
                   /\ \A k \in Node : status'[k] \in {"off", "running"} => status[k] \in {"off", "running"}
                   /\ \A c \in Conn : link[c] # <<>> => link'[c] = link[c]
<1>0. TypeOK  BY DEF IInv
<1>1. ASSUME NEW i \in Node, DaemonStep(i)  PROVE Kept
  <2>1. UNCHANGED link /\ (UNCHANGED used \/ \E what \in {"faults", "leaves", "ops"} : Spend(what))
    BY <1>1 DEF DaemonStep, Start, BeginShutdown, Cancel, Exit, Crash, ProcessEnds, ServiceOp, Leave,
                GossipTick, limits
  <2>2. /\ (status[i] = "off" \/ status'[i] \notin {"off", "running"} \/ status' = status)
        /\ \A k \in Node \ {i} : status'[k] = status[k]
    BY <1>0, <1>1 DEF DaemonStep, Start, BeginShutdown, Cancel, Exit, Crash, ProcessEnds, ServiceOp,
                Leave, GossipTick, TypeOK
  <2>3. /\ used'.faults = 0 => used.faults = 0
        /\ used'.leaves = 0 => used.leaves = 0
    BY <1>0, <2>1, SpendBudget
  <2> QED BY <2>1, <2>2, <2>3
<1>2. ASSUME NEW i \in Node, NEW j \in Node, NEW c \in Conn, Dial(i, j, c)  PROVE Kept
  BY <1>0, <1>2 DEF Dial, TypeOK, limits
<1>3. ASSUME NEW c \in Conn, Break(c)  PROVE Kept
  BY <1>0, <1>3, SpendBudget DEF Break
<1>4. ASSUME NEW e \in End, Session(e) \/ Suspect(e)  PROVE Kept
  <2>1. UNCHANGED <<link, status>> /\ (UNCHANGED used \/ Spend("faults"))
    BY <1>4 DEF Session, Straight, HelloEnds, Reject, RecvHandshake, RecvAck, SendInitial, Cleanup,
                SendDelta, RecvSync, EndOfStream, ObserveShutdown, Suspect, limits
  <2> QED BY <1>0, <2>1, SpendBudget
<1> QED BY <1>1, <1>2, <1>3, <1>4 DEF Next

LEMMA CalmBefore ==
  ASSUME IInv, Next, Calm'
  PROVE  Calm
<1>1. /\ used.faults = 0 /\ used.leaves = 0
      /\ \A k \in Node : status[k] \in {"off", "running"}
  BY NothingForgotten DEF Calm
<1>2. ASSUME NEW x \in End, link[x[1]] # <<>>
      PROVE  link'[x[1]] = link[x[1]] /\ Local(x)' = Local(x) /\ Remote(x)' = Remote(x)
  <2>1. link'[x[1]] = link[x[1]] /\ Other(x)[1] = x[1]  BY <1>2, NothingForgotten, Ends
  <2> QED BY <2>1 DEF Local, Remote
<1>3. ASSUME NEW d \in End, NEW e \in End, link[d[1]] # <<>>, link[e[1]] # <<>>,
             Local(d) = Local(e), Remote(d) = Remote(e)
      PROVE  d[2] = e[2]
  <2>1. /\ link'[d[1]] # <<>> /\ link'[e[1]] # <<>>
        /\ Local(d)' = Local(e)' /\ Remote(d)' = Remote(e)'
    BY <1>2, <1>3
  <2> QED BY <2>1 DEF Calm
<1> QED BY <1>1, <1>3 DEF Calm

LEMMA CalmStep == IInv /\ CalmInv /\ [Next]_vars => CalmInv'
<1> SUFFICES ASSUME IInv, CalmInv, [Next]_vars, Calm'  PROVE Settled'
  BY DEF CalmInv
<1>0. IInv' /\ TypeOK  BY StepInv DEF IInv
<1>1. ASSUME UNCHANGED vars  PROVE Settled'
  <2>1. UNCHANGED <<doc, status, peers, link, cut, pc, inbox, used>>  BY <1>1 DEF vars, limits
  <2>2. Calm  BY <2>1 DEF Calm, Local, Remote
  <2>3. Settled  BY <2>2 DEF CalmInv
  <2> QED BY <2>1, <2>3
      DEF Settled, Sound, Fitting, Fits, Held, NoneDead, Connected, Buffered, Local, Remote
<1> SUFFICES ASSUME Next  PROVE Settled'
  BY <1>1
<1>2. Calm /\ Settled  BY CalmBefore DEF CalmInv
<1>3. ~ Spend("faults") /\ ~ Spend("leaves")  BY <1>0, SpendBudget DEF Calm
<1>4. ASSUME NEW i \in Node, DaemonStep(i)  PROVE Settled'
  <2>1. status[i] \in {"off", "running"} /\ status'[i] \in {"off", "running"}  BY <1>2 DEF Calm
  <2>2. ~ BeginShutdown(i) /\ ~ Cancel(i) /\ ~ Exit(i)
    BY <1>0, <2>1 DEF BeginShutdown, Cancel, Exit, TypeOK
  <2>3. ~ Crash(i) /\ \A j \in Node : ~ Leave(i, j)  BY <1>3 DEF Crash, Leave
  <2> QED BY <1>2, <1>4, <2>2, <2>3, CalmDaemon DEF DaemonStep
<1>5. ASSUME NEW e \in End, Session(e) \/ Suspect(e)  PROVE Settled'
  <2>1. ~ Suspect(e)  BY <1>3 DEF Suspect
  <2>2. ~ Cleanup(e)  BY <1>2 DEF Cleanup, Settled, Sound
  <2>3. ~ EndOfStream(e)  BY <1>2, SoundEnd DEF EndOfStream, Active
  <2>4. ~ ObserveShutdown(e)
    <3> SUFFICES ASSUME ObserveShutdown(e)  PROVE FALSE
      OBVIOUS
    <3>1. link[e[1]] # <<>>  BY DEF ObserveShutdown, IInv, Wired
    <3>2. Local(e) \in Node  BY <1>0, <3>1, Linked2
    <3> QED BY <1>2, <3>2 DEF ObserveShutdown, Calm
  <2> QED BY <1>0, <1>2, <1>5, <2>1, <2>2, <2>3, <2>4, CalmHelloEnds, CalmRecvHandshake, CalmRecvAck,
             CalmSendInitial, CalmSendDelta, CalmRecvSync
          DEF Session, Straight
<1>6. \A c \in Conn : ~ Break(c)  BY <1>3 DEF Break
<1> QED BY <1>2, <1>4, <1>5, <1>6, CalmDial DEF Next

LEMMA CalmInit == Init => CalmInv
<1> SUFFICES ASSUME Init  PROVE Settled
  BY DEF CalmInv
<1>1. \A e \in End : pc[e] = "free" /\ Buffered(e) = {}  BY ContentEmpty DEF Init, Buffered
<1>2. Sound  BY <1>1, Ends DEF Sound, Init, Active
<1>3. Fitting  BY <1>1 DEF Fitting
<1>4. Held  BY DEF Held, Init, Connected
<1>5. NoneDead  BY DEF NoneDead, Init, NewDoc
<1> QED BY <1>2, <1>3, <1>4, <1>5 DEF Settled

\* While a cluster is calm, its connections end in refused handshakes only.
THEOREM CalmInvariance == Spec => []CalmInv
<1>1. IInv /\ CalmInv /\ [Next]_vars => CalmInv'  BY CalmStep
<1> QED BY CalmInit, <1>1, Invariance, PTL DEF Spec

\* Until the first fault, pmd leave or shutdown, and while no two daemons dial each
\* other, no daemon of however large a cluster holds a tombstone for another: the
\* duplicate checks of run_inbound and connect_to_peer refuse connections without
\* a cleanup, whatever dials are under way at once.
THEOREM OnlyGoneRemovedTheorem == Spec => [](Calm => OnlyGoneRemoved)
<1>1. CalmInv => (Calm => OnlyGoneRemoved)
  BY DEF CalmInv, Settled, NoneDead, OnlyGoneRemoved
<1> QED BY <1>1, CalmInvariance, PTL

\* Under the same conditions every entry of DaemonState::peers belongs to a session
\* that is there, so whoever run_inbound rejects as already connected is.
THEOREM HandleIsSessionTheorem == Spec => [](Calm => HandleIsSession)
<1>1. CalmInv => (Calm => HandleIsSession)
  <2> SUFFICES ASSUME Settled, NEW i \in Node, NEW j \in Node, Connected(i, j)
               PROVE  pc[peers[i][j].end] \notin {"free", "closed"}
    BY DEF CalmInv, HandleIsSession, Open
  <2>1. pc[peers[i][j].end] \in Active  BY DEF Settled, Held
  <2> QED BY <2>1 DEF Active
<1> QED BY <1>1, CalmInvariance, PTL

-------------------------------------------------------------------------------
(***************************************************************************)
(* Handles and the sessions they belong to                                 *)
(***************************************************************************)

\* A handle is the one of a session, over or not, of its daemon with the peer it
\* stands for.
Placed ==
  \A i, j \in Node : Connected(i, j) =>
    LET e == peers[i][j].end
    IN  e \in End /\ link[e[1]] # <<>> /\ Local(e) = i /\ Remote(e) = j

\* Handles that come are in their place, the others stay or go.
LEMMA PlacedKept ==
  ASSUME TypeOK, Placed,
         \A c \in Conn : link[c] # <<>> => link'[c] = link[c],
         \A k, l \in Node :
           \/ peers'[k][l] = NoPeer
           \/ Connected(k, l) /\ peers'[k][l].end = peers[k][l].end
           \/ \E x \in End : /\ peers'[k][l].end = x /\ link[x[1]] # <<>>
                             /\ Local(x) = k /\ Remote(x) = l
  PROVE  Placed'
<1>1. ASSUME NEW x \in End, link[x[1]] # <<>>
      PROVE  link'[x[1]] # <<>> /\ Local(x)' = Local(x) /\ Remote(x)' = Remote(x)
  <2>1. link'[x[1]] = link[x[1]] /\ Other(x)[1] = x[1]  BY <1>1, Ends
  <2> QED BY <1>1, <2>1 DEF Local, Remote
<1> SUFFICES ASSUME NEW k \in Node, NEW l \in Node, Connected(k, l)'
             PROVE  LET x == peers'[k][l].end
                    IN  x \in End /\ link[x[1]] # <<>> /\ Local(x) = k /\ Remote(x) = l
  BY <1>1 DEF Placed
<1>2. peers'[k][l] # NoPeer  BY DEF Connected
<1>3. ASSUME Connected(k, l), peers'[k][l].end = peers[k][l].end
      PROVE  LET x == peers'[k][l].end
             IN  x \in End /\ link[x[1]] # <<>> /\ Local(x) = k /\ Remote(x) = l
  BY <1>3 DEF Placed
<1> QED BY <1>2, <1>3

LEMMA PlacedStep == IInv /\ Placed /\ [Next]_vars => Placed'
<1> SUFFICES ASSUME IInv, Placed, [Next]_vars  PROVE Placed'
  OBVIOUS
<1>0. TypeOK  BY DEF IInv
<1>1. ASSUME UNCHANGED vars  PROVE Placed'
  BY <1>1 DEF vars, Placed, Connected, Local, Remote
<1> SUFFICES ASSUME Next  PROVE Placed'
  BY <1>1
<1>2. \A c \in Conn : link[c] # <<>> => link'[c] = link[c]  BY NothingForgotten
<1>3. ASSUME \A k, l \in Node : peers'[k][l] \in {NoPeer, peers[k][l]}  PROVE Placed'
  BY <1>0, <1>2, <1>3, PlacedKept DEF Connected
<1>4. ASSUME NEW e \in End, pc[e] = "hello", inbox[e] # <<>>, Head(inbox[e]).type # "sync",
             NEW vv, Insert(e, Head(inbox[e]).from, vv)
      PROVE  Placed'
  <2> DEFINE i == Local(e)
             j == Remote(e)
             new == [end |-> e, lastVV |-> vv]
  <2>1. i \in Node /\ j \in Node /\ link[e[1]] # <<>> /\ Head(inbox[e]).from = j  BY <1>4, FirstFrame
  <2>2. peers' = [peers EXCEPT ![i][j] = new] /\ new.end = e  BY <1>4, <2>1 DEF Insert
  <2>3. i = Local(e) /\ j = Remote(e)  OBVIOUS
  <2> HIDE DEF i, j, new
  <2>4. peers'[i][j].end = e /\ \A k, l \in Node : k # i \/ l # j => peers'[k][l] = peers[k][l]
    BY <1>0, <2>1, <2>2 DEF TypeOK
  <2> QED BY <1>0, <1>2, <2>1, <2>3, <2>4, PlacedKept DEF Connected
<1>5. ASSUME NEW i \in Node, DaemonStep(i)  PROVE Placed'
  <2>1. \/ UNCHANGED peers
        \/ peers' = [peers EXCEPT ![i] = [j \in Node |-> NoPeer]]
        \/ \E j \in Node : peers' = [peers EXCEPT ![i][j] = NoPeer]
    BY <1>5 DEF DaemonStep, Start, BeginShutdown, Cancel, Exit, Crash, ProcessEnds, ServiceOp, Leave,
                GossipTick
  <2>2. peers \in [Node -> [Node -> PeerHandle \cup {NoPeer}]]  BY <1>0 DEF TypeOK
  <2>3. ASSUME peers' = [peers EXCEPT ![i] = [j \in Node |-> NoPeer]]
        PROVE  \A k, l \in Node : peers'[k][l] \in {NoPeer, peers[k][l]}
    <3>1. \A l \in Node : peers'[i][l] = NoPeer  BY <2>2, <2>3
    <3>2. \A k \in Node \ {i} : peers'[k] = peers[k]  BY <2>2, <2>3
    <3> QED BY <3>1, <3>2
  <2>4. ASSUME NEW j \in Node, peers' = [peers EXCEPT ![i][j] = NoPeer]
        PROVE  \A k, l \in Node : peers'[k][l] \in {NoPeer, peers[k][l]}
    BY <2>2, <2>4
  <2> QED BY <1>3, <2>1, <2>3, <2>4
<1>6. ASSUME NEW e \in End, Session(e) \/ Suspect(e)  PROVE Placed'
  <2>1. ASSUME RecvHandshake(e)  PROVE Placed'  BY <1>4, <2>1 DEF RecvHandshake, HasFrame
  <2>2. ASSUME RecvAck(e)  PROVE Placed'  BY <1>4, <2>2 DEF RecvAck, HasFrame
  <2>3. ASSUME RecvSync(e)  PROVE Placed'
    <3>1. inbox[e] # <<>> /\ peers' = SetLastVV(Local(e), Remote(e), Head(inbox[e]).delta.vv)
      BY <2>3 DEF RecvSync, HasFrame
    <3>2. Local(e) \in Node /\ Remote(e) \in Node  BY <3>1, FirstFrame
    <3>3. \A k, l \in Node : /\ peers'[k][l].end = peers[k][l].end
                             /\ ~ Connected(k, l) => peers'[k][l] = peers[k][l]
      BY <1>0, <3>1, <3>2, LastVVEnds
    <3> QED BY <1>0, <1>2, <3>3, PlacedKept DEF Connected
  <2>4. ASSUME Cleanup(e)  PROVE Placed'
    <3>1. link[e[1]] # <<>>  BY <2>4 DEF IInv, Wired, Cleanup
    <3>2. Local(e) \in Node /\ Remote(e) \in Node  BY <1>0, <3>1, Linked2
    <3>3. peers' = [peers EXCEPT ![Local(e)][Remote(e)] = NoPeer]  BY <2>4 DEF Cleanup
    <3>4. \A k, l \in Node : peers'[k][l] \in {NoPeer, peers[k][l]}
      BY <1>0, <3>2, <3>3 DEF TypeOK
    <3> QED BY <1>3, <3>4
  <2>5. ASSUME UNCHANGED peers  PROVE Placed'  BY <1>3, <2>5
  <2> QED BY <1>6, <2>1, <2>2, <2>3, <2>4, <2>5
      DEF Session, Straight, HelloEnds, Reject, SendInitial, SendDelta, EndOfStream, ObserveShutdown,
          Suspect
<1>7. ASSUME NEW c \in Conn, Break(c)  PROVE Placed'  BY <1>3, <1>7 DEF Break
<1>8. ASSUME NEW i \in Node, NEW j \in Node, NEW c \in Conn, Dial(i, j, c)  PROVE Placed'
  BY <1>3, <1>8 DEF Dial
<1> QED BY <1>5, <1>6, <1>7, <1>8 DEF Next

\* A task that got to its loop ends in its cleanup or with its process.
LEMMA LoopEnd ==
  ASSUME IInv, Next, NEW e \in End, pc[e] \in {"loop", "cleanup"}, pc'[e] = "closed"
  PROVE  \/ Cleanup(e)
         \/ \E i \in Node : ProcessEnds(i) /\ Local(e) = i
<1>0. TypeOK /\ pc \in [End -> {"free", "hello", "opening", "loop", "cleanup", "closed"}]
  BY DEF IInv, TypeOK
<1>1. pc' # pc  OBVIOUS
<1>2. ASSUME NEW i \in Node, DaemonStep(i)  PROVE ProcessEnds(i) /\ Local(e) = i
  <2>1. ProcessEnds(i)
    BY <1>1, <1>2 DEF DaemonStep, Start, BeginShutdown, Cancel, Exit, Crash, ServiceOp, Leave,
                      GossipTick, taskVars
  <2>2. Local(e) = i  BY <2>1 DEF ProcessEnds, Close
  <2> QED BY <2>1, <2>2
<1>3. ASSUME NEW x \in End, Session(x) \/ Suspect(x)  PROVE Cleanup(e)
  <2>1. \/ Cleanup(x)
        \/ pc[x] \in {"hello", "opening"} /\ Close({x})
        \/ \E next \in {"opening", "loop", "cleanup"} : pc' = [pc EXCEPT ![x] = next]
    BY <1>1, <1>3
       DEF Session, Straight, HelloEnds, Reject, RecvHandshake, RecvAck, SendInitial, SendDelta, RecvSync,
           EndOfStream, ObserveShutdown, Suspect, Goto
  <2>2. ASSUME Close({x})  PROVE x = e  BY <2>2 DEF Close
  <2>3. ASSUME NEW next \in {"opening", "loop", "cleanup"}, pc' = [pc EXCEPT ![x] = next]  PROVE FALSE
    BY <1>0, <2>3
  <2> QED BY <2>1, <2>2, <2>3 DEF Cleanup
<1>4. ASSUME NEW c \in Conn, Break(c)  PROVE FALSE  BY <1>1, <1>4 DEF Break, taskVars
<1>5. ASSUME NEW i \in Node, NEW j \in Node, NEW c \in Conn, Dial(i, j, c)  PROVE FALSE
  <2>1. pc' = [pc EXCEPT ![<<c, "init">>] = "hello", ![<<c, "resp">>] = "hello"]  BY <1>5 DEF Dial
  <2>2. pc'[e] = pc[e] \/ pc'[e] = "hello"  BY <1>0, <2>1
  <2> QED BY <2>2
<1> QED BY <1>2, <1>3, <1>4, <1>5 DEF Next

\* Whatever breaks, and whoever leaves or stops, a session that reached its message
\* loop leaves no handle behind: every stale handle that makes run_inbound reject
\* its peer for good comes from one of the early returns before the loop.
THEOREM LoopTakesHandleTheorem == Spec => LoopTakesHandle
<1>1. Init => Placed  BY DEF Init, Placed, Connected
<1>2. ASSUME IInv, Placed', [Next]_vars
      PROVE  \A e \in End : pc[e] \in {"loop", "cleanup"} /\ pc'[e] = "closed" =>
               \A i, j \in Node : peers'[i][j].end # e
  <2> SUFFICES ASSUME NEW e \in End, pc[e] \in {"loop", "cleanup"}, pc'[e] = "closed",
                      NEW k \in Node, NEW l \in Node, peers'[k][l].end = e
               PROVE  FALSE
    OBVIOUS
  <2>0. TypeOK /\ Wired /\ NoPeer.end = <<>> /\ e # <<>>  BY <1>2, Ends DEF IInv, NoPeer
  <2>1. Next  BY <1>2 DEF vars
  <2>2. link[e[1]] # <<>>  BY <2>0 DEF Wired
  <2>3. Local(e) \in Node /\ Remote(e) \in Node  BY <2>0, <2>2, Linked2
  <2>4. Local(e) = k /\ Remote(e) = l
    <3>1. Connected(k, l)'  BY <2>0 DEF Connected
    <3>2. Local(e)' = k /\ Remote(e)' = l  BY <1>2, <3>1 DEF Placed, Local, Remote
    <3>3. link'[e[1]] = link[e[1]] /\ Other(e)[1] = e[1]  BY <1>2, <2>1, <2>2, NothingForgotten, Ends
    <3>4. Local(e)' = Local(e) /\ Remote(e)' = Remote(e)  BY <3>3 DEF Local, Remote
    <3> QED BY <3>2, <3>4
  <2>5. peers'[k][l] = NoPeer
    <3>1. ASSUME Cleanup(e)  PROVE peers'[k][l] = NoPeer
      <4>1. peers' = [peers EXCEPT ![Local(e)][Remote(e)] = NoPeer]  BY <3>1 DEF Cleanup
      <4> QED BY <2>0, <2>4, <4>1 DEF TypeOK
    <3>2. ASSUME ProcessEnds(k)  PROVE peers'[k][l] = NoPeer
      BY <2>0, <3>2 DEF ProcessEnds, TypeOK
    <3> QED BY <1>2, <2>1, <2>4, <3>1, <3>2, LoopEnd
  <2> QED BY <2>0, <2>5
<1> QED BY <1>1, <1>2, PlacedStep, Invariance, PTL DEF Spec, LoopTakesHandle

-------------------------------------------------------------------------------
(***************************************************************************)
(* PeerSession implements Replication                                      *)
(***************************************************************************)

\* What a frame m on its way to e says is true of the daemon that sent it.
Truthful(e, m) ==
  /\ m.type = "ack" => Leq(m.vv, doc[Remote(e)].vv)
  /\ m.type = "sync" => /\ Leq(m.delta.vv, doc[Remote(e)].vv)
                        /\ m.delta.writes \subseteq doc[Remote(e)].writes

FramesTruthful == \A e \in End : \A m \in Buffered(e) : Truthful(e, m)

\* A daemon never takes its peer to know more than it does.
LastReached == \A i, j \in Node : Leq(peers[i][j].lastVV, doc[j].vv)

\* Nobody has more of a daemon's writes than the daemon itself.
OwnFirst == \A i, n \in Node : doc[i].vv[n] <= doc[n].vv[n]

\* Daemons that are started have an entry of their own, and only they connect.
Begun ==
  /\ \A i \in Node : status[i] # "off" => doc[i].vv[i] > 0
  /\ \A e \in End : link[e[1]] # <<>> => status[Local(e)] # "off"

\* A connection buffers at most MaxInbox syncs in one direction.
InRoom ==
  \A e \in End : \A k \in 1 .. Len(inbox[e]) : inbox[e][k].type = "sync" => k <= MaxInbox

Closed == {e \in End : pc[e] = "closed"}

\* The calls that a daemon still makes whatever the operators and peers do: its
\* start and its shutdown.
Left(n) == IF status[n] = "off" THEN 2 ELSE IF status[n] = "running" THEN 1 ELSE 0

\* A daemon writes once for its start, its shutdown, a service operation and the
\* cleanup of an end.
WritesCounted ==
  \A n \in Node : doc[n].vv[n] + Left(n) <= 2 + used.ops + Cardinality(Closed)

RInv ==
  /\ FramesTruthful /\ LastReached /\ OwnFirst /\ Begun
  /\ InRoom /\ WritesCounted

-------------------------------------------------------------------------------
(***************************************************************************)
(* Replication's operators are those of PeerSession                        *)
(***************************************************************************)

LEMMA RMaterialize ==
  ASSUME NEW d, NEW p
  PROVE  R!Materialize(d, p) = Materialize(d, p)
<1> DEFINE V(W) == IF W = {} THEN "absent" ELSE (CHOOSE w \in W : TRUE).val
<1>1. R!Live(d, p) = Live(d, p)  BY DEF R!Live, Live, R!Supersedes, Supersedes
<1>2. R!Winners(d, p) = Winners(d, p)  BY <1>1 DEF R!Winners, Winners
<1>3. R!Materialize(d, p) = V(R!Winners(d, p))  BY DEF R!Materialize
<1>4. Materialize(d, p) = V(Winners(d, p))  BY DEF Materialize
<1> HIDE DEF V
<1> QED BY <1>2, <1>3, <1>4

LEMMA ROperators ==
  /\ R!NewDoc = NewDoc
  /\ \A d, n : R!AddNode(d, n) = AddNode(d, n)
  /\ \A d, r, n : R!RemoveNode(d, r, n) = RemoveNode(d, r, n)
  /\ \A d, r, s : R!RegisterService(d, r, s) = RegisterService(d, r, s)
  /\ \A d, r, s : R!UnregisterService(d, r, s) = UnregisterService(d, r, s)
  /\ \A d, x : R!MergeRemote(d, x) = MergeRemote(d, x)
  /\ \A d, v : R!DeltaForPeer(d, v) = DeltaForPeer(d, v)
<1>1. \A d, r, puts, ctx : R!Commit(d, r, puts, ctx) = Commit(d, r, puts, ctx)
  BY DEF R!Commit, Commit
<1>2. \A d, r, puts : R!SetPaths(d, r, puts) = SetPaths(d, r, puts)
  BY <1>1 DEF R!SetPaths, SetPaths
<1>3. \A n : R!NodePath(n) = NodePath(n)  BY DEF R!NodePath, NodePath
<1>4. \A n, s : R!SvcPath(n, s) = SvcPath(n, s)  BY DEF R!SvcPath, SvcPath
<1>5. \A d, n : R!NodeServices(d, n) = NodeServices(d, n)
  BY <1>4, RMaterialize DEF R!NodeServices, NodeServices
<1>6. R!NewDoc = NewDoc  BY DEF R!NewDoc, NewDoc, R!ZeroVV, ZeroVV
<1>7. \A d, n : R!AddNode(d, n) = AddNode(d, n)  BY <1>2, <1>3 DEF R!AddNode, AddNode
<1>8. \A d, r, n : R!RemoveNode(d, r, n) = RemoveNode(d, r, n)
  BY <1>2, <1>3, <1>4, <1>5 DEF R!RemoveNode, RemoveNode
<1>9. \A d, r, s : R!RegisterService(d, r, s) = RegisterService(d, r, s)
  BY <1>2, <1>4 DEF R!RegisterService, RegisterService
<1>10. \A d, r, s : R!UnregisterService(d, r, s) = UnregisterService(d, r, s)
  BY <1>1, <1>4 DEF R!UnregisterService, UnregisterService, R!RemovePath, RemovePath
<1>11. \A d, x : R!MergeRemote(d, x) = MergeRemote(d, x)
  BY DEF R!MergeRemote, MergeRemote, R!MergeDelta, MergeDelta, R!JoinVV, JoinVV
<1>12. \A d, v : R!DeltaForPeer(d, v) = DeltaForPeer(d, v)
  BY DEF R!DeltaForPeer, DeltaForPeer, R!DeltaSince, DeltaSince
<1> QED BY <1>6, <1>7, <1>8, <1>9, <1>10, <1>11, <1>12

-------------------------------------------------------------------------------
(***************************************************************************)
(* How documents grow                                                      *)
(***************************************************************************)

LEMMA LeqTransitive ==
  ASSUME NEW u \in VV, NEW v \in VV, NEW w \in VV, Leq(u, v), Leq(v, w)
  PROVE  Leq(u, w)
<1>1. ASSUME NEW n \in Node  PROVE u[n] <= w[n]
  <2>1. u[n] \in Nat /\ v[n] \in Nat /\ w[n] \in Nat /\ u[n] <= v[n] /\ v[n] <= w[n]
    BY DEF VV, Leq
  <2> QED BY <2>1
<1> QED BY <1>1 DEF Leq

\* c is d after a locked call of replica r.
Written(d, r, c) ==
  /\ c \in Doc /\ Leq(d.vv, c.vv) /\ d.writes \subseteq c.writes
  /\ c.vv[r] = d.vv[r] + 1
  /\ \A n \in Node \ {r} : c.vv[n] = d.vv[n]

LEMMA CommitGrows ==
  ASSUME NEW d \in Doc, NEW r \in Node, NEW puts, NEW ctx, Commit(d, r, puts, ctx) \in Doc
  PROVE  Written(d, r, Commit(d, r, puts, ctx))
<1> DEFINE c == Commit(d, r, puts, ctx)
<1>1. d.vv \in [Node -> Nat]  BY DEF Doc, VV
<1>2. c.vv = [d.vv EXCEPT ![r] = d.vv[r] + 1] /\ d.writes \subseteq c.writes  BY DEF Commit
<1> HIDE DEF c
<1>3. /\ c.vv[r] = d.vv[r] + 1 /\ d.vv[r] \in Nat
      /\ \A n \in Node \ {r} : c.vv[n] = d.vv[n] /\ d.vv[n] \in Nat
  BY <1>1, <1>2
<1>4. ASSUME NEW n \in Node  PROVE d.vv[n] <= c.vv[n]
  <2>1. CASE n = r  BY <1>3, <2>1
  <2>2. CASE n # r
    <3>1. c.vv[n] = d.vv[n] /\ d.vv[n] \in Nat  BY <1>3, <2>2
    <3> QED BY <3>1
  <2> QED BY <2>1, <2>2
<1>5. Leq(d.vv, c.vv)  BY <1>4 DEF Leq
<1> QED BY <1>2, <1>3, <1>5 DEF Written, c

LEMMA MutatorsGrow ==
  ASSUME NEW d \in Doc, NEW r \in Node, NEW n \in Node
  PROVE  /\ Written(d, r, AddNode(d, r)) /\ Written(d, r, RemoveNode(d, r, n))
         /\ \A s \in Service : /\ Written(d, r, RegisterService(d, r, s))
                               /\ Written(d, r, UnregisterService(d, r, s))
  BY MutatorTypes, CommitGrows
     DEF AddNode, RemoveNode, RegisterService, UnregisterService, SetPaths, RemovePath

LEMMA MergeGrows ==
  ASSUME NEW d \in Doc, NEW delta \in Doc
  PROVE  LET c == MergeRemote(d, delta)
         IN  /\ c \in Doc /\ Leq(d.vv, c.vv) /\ d.writes \subseteq c.writes
             /\ \A n \in Node : c.vv[n] = d.vv[n] \/ c.vv[n] = delta.vv[n]
             /\ \A n \in Node : delta.vv[n] <= d.vv[n] => c.vv[n] = d.vv[n]
             /\ Leq(delta.vv, d.vv) /\ delta.writes \subseteq d.writes => c = d
<1> DEFINE c == MergeRemote(d, delta)
           u == d.vv
           v == delta.vv
<1>1. /\ u \in [Node -> Nat] /\ v \in [Node -> Nat] /\ c \in Doc
      /\ d = [vv |-> u, writes |-> d.writes]
  BY DeltaTypes DEF Doc, VV
<1>2. c = [vv |-> JoinVV(u, v), writes |-> d.writes \cup delta.writes]
  BY DEF MergeRemote, MergeDelta
<1>3. c.vv = JoinVV(u, v) /\ c.writes = d.writes \cup delta.writes  BY <1>2
<1> HIDE DEF c, u, v
<1>4. ASSUME NEW n \in Node
      PROVE  /\ u[n] <= c.vv[n] /\ (c.vv[n] = u[n] \/ c.vv[n] = v[n])
             /\ v[n] <= u[n] => c.vv[n] = u[n]
  <2>1. u[n] \in Nat /\ v[n] \in Nat /\ c.vv[n] = IF u[n] <= v[n] THEN v[n] ELSE u[n]
    BY <1>1, <1>3 DEF JoinVV
  <2>2. CASE u[n] <= v[n]  BY <2>1, <2>2
  <2>3. CASE ~ (u[n] <= v[n])  BY <2>1, <2>3
  <2> QED BY <2>2, <2>3
<1>5. ASSUME Leq(v, u), delta.writes \subseteq d.writes  PROVE c = d
  <2>1. \A n \in Node : JoinVV(u, v)[n] = u[n]  BY <1>3, <1>4, <1>5 DEF Leq
  <2>2. JoinVV(u, v) \in [Node -> Nat]  BY <1>1 DEF JoinVV
  <2>3. JoinVV(u, v) = u  BY <1>1, <2>1, <2>2
  <2>4. d.writes \cup delta.writes = d.writes  BY <1>5
  <2> QED BY <1>1, <1>2, <2>3, <2>4
<1> QED BY <1>1, <1>3, <1>4, <1>5 DEF Leq, c, u, v

-------------------------------------------------------------------------------
(***************************************************************************)
(* What keeps the invariant                                                *)
(***************************************************************************)

\* Documents grow, and what daemons say, hold and are told stays true of them.
LEMMA GrowKeeps ==
  ASSUME IInv, RInv, TypeOK',
         \A k \in Node : Leq(doc[k].vv, doc'[k].vv) /\ doc[k].writes \subseteq doc'[k].writes,
         \A k, n \in Node : doc'[k].vv[n] = doc[k].vv[n] \/ doc'[k].vv[n] <= doc'[n].vv[n],
         \A i, j \in Node : \/ peers'[i][j].lastVV = peers[i][j].lastVV
                            \/ Leq(peers'[i][j].lastVV, doc'[j].vv),
         \A x \in End : \A f \in Buffered(x)' :
           (f \in Buffered(x) /\ link'[x[1]] = link[x[1]]) \/ Truthful(x, f)',
         \A i \in Node : status'[i] # "off" => status[i] # "off" \/ doc'[i].vv[i] > 0,
         \A x \in End : link'[x[1]] # <<>> =>
           \/ link'[x[1]] = link[x[1]] /\ status'[Local(x)] # "off"
           \/ status'[Local(x)'] # "off"
  PROVE  FramesTruthful' /\ LastReached' /\ OwnFirst' /\ Begun'
<1>0. TypeOK /\ FramesTruthful /\ LastReached /\ OwnFirst /\ Begun /\ Frames  BY DEF IInv, RInv
<1>1. \A k \in Node : doc[k] \in Doc /\ doc'[k] \in Doc /\ doc[k].vv \in VV /\ doc'[k].vv \in VV
  BY <1>0 DEF TypeOK, Doc
<1>2. \A k, n \in Node : /\ doc[k].vv[n] \in Nat /\ doc'[k].vv[n] \in Nat
                         /\ doc[k].vv[n] <= doc'[k].vv[n]
  BY <1>1 DEF VV, Leq
<1>3. FramesTruthful'
  <2> SUFFICES ASSUME NEW x \in End, NEW f \in Buffered(x)', f \in Buffered(x), link'[x[1]] = link[x[1]]
               PROVE  Truthful(x, f)'
    BY DEF FramesTruthful
  <2>1. Truthful(x, f) /\ Good(x, f)  BY <1>0 DEF FramesTruthful, Frames
  <2> DEFINE j == Remote(x)
  <2>2. j \in Node /\ Remote(x)' = j  BY <1>0, <2>1, Linked2, Ends DEF Good, Remote, Local
  <2>3. f \in Frame
    <3>1. inbox[x] \in Seq(Frame)  BY <1>0 DEF TypeOK, Frame
    <3> QED BY <3>1 DEF Buffered, Content
  <2>4. (f.type = "ack" => f.vv \in VV) /\ (f.type = "sync" => f.delta \in Doc /\ f.delta.vv \in VV)
    BY <2>3 DEF Frame, Handshake, Ack, Sync, Doc
  <2>5. /\ f.type = "ack" => Leq(f.vv, doc[j].vv)
        /\ f.type = "sync" => Leq(f.delta.vv, doc[j].vv) /\ f.delta.writes \subseteq doc[j].writes
    BY <2>1 DEF Truthful
  <2> HIDE DEF j
  <2>6. Leq(doc[j].vv, doc'[j].vv) /\ doc[j].writes \subseteq doc'[j].writes
        /\ doc[j].vv \in VV /\ doc'[j].vv \in VV
    BY <1>1, <2>2
  <2>7. f.type = "ack" => Leq(f.vv, doc'[j].vv)  BY <2>4, <2>5, <2>6, LeqTransitive
  <2>8. f.type = "sync" => Leq(f.delta.vv, doc'[j].vv)  BY <2>4, <2>5, <2>6, LeqTransitive
  <2> QED BY <2>2, <2>5, <2>6, <2>7, <2>8 DEF Truthful
<1>4. LastReached'
  <2> SUFFICES ASSUME NEW i \in Node, NEW j \in Node, peers'[i][j].lastVV = peers[i][j].lastVV
               PROVE  Leq(peers'[i][j].lastVV, doc'[j].vv)
    BY DEF LastReached
  <2>1. peers[i][j].lastVV \in VV  BY <1>0, DeltaTypes DEF TypeOK, PeerHandle, NoPeer
  <2>2. Leq(peers[i][j].lastVV, doc[j].vv)  BY <1>0 DEF LastReached
  <2> QED BY <1>1, <2>1, <2>2, LeqTransitive
<1>5. OwnFirst'
  <2> SUFFICES ASSUME NEW k \in Node, NEW n \in Node, doc'[k].vv[n] = doc[k].vv[n]
               PROVE  doc'[k].vv[n] <= doc'[n].vv[n]
    BY DEF OwnFirst
  <2>1. doc[k].vv[n] <= doc[n].vv[n]  BY <1>0 DEF OwnFirst
  <2> QED BY <1>2, <2>1
<1>6. Begun'
  <2>1. ASSUME NEW i \in Node, status'[i] # "off"  PROVE doc'[i].vv[i] > 0
    <3>1. CASE status[i] # "off"
      <4>1. doc[i].vv[i] > 0  BY <1>0, <3>1 DEF Begun
      <4> QED BY <1>2, <4>1
    <3> QED BY <2>1, <3>1
  <2>2. \A x \in End : link'[x[1]] = link[x[1]] => Local(x)' = Local(x)  BY DEF Local
  <2> QED BY <2>1, <2>2 DEF Begun
<1> QED BY <1>3, <1>4, <1>5, <1>6

\* Only a write adds to the messages in flight.
LEMMA NoNewSync ==
  ASSUME inbox \in [End -> Seq(Frame)], inbox' \in [End -> Seq(Frame)], NEW sent,
         \A x \in End : \A f \in Buffered(x)' :
           Open(x)' /\ f.type = "sync" /\ Local(x)' # Remote(x)' =>
             \/ [from |-> Remote(x)', to |-> Local(x)', delta |-> f.delta] \in sent
             \/ Open(x) /\ f \in Buffered(x) /\ link'[x[1]] = link[x[1]]
  PROVE  InFlight' \subseteq InFlight \cup sent
<1> SUFFICES ASSUME NEW m \in InFlight', m \notin sent  PROVE m \in InFlight
  OBVIOUS
<1>1. PICK x \in End : /\ Open(x)' /\ Local(x)' # Remote(x)'
                       /\ \E k \in DOMAIN inbox'[x] :
                            /\ inbox'[x][k].type = "sync"
                            /\ m = [from |-> Remote(x)', to |-> Local(x)', delta |-> inbox'[x][k].delta]
  BY DEF InFlight
<1>2. PICK k \in DOMAIN inbox'[x] :
        /\ inbox'[x][k].type = "sync"
        /\ m = [from |-> Remote(x)', to |-> Local(x)', delta |-> inbox'[x][k].delta]
  BY <1>1
<1> DEFINE f == inbox'[x][k]
<1>3. f \in Buffered(x)'  BY DEF Buffered, Content
<1>4. Open(x) /\ f \in Buffered(x) /\ link'[x[1]] = link[x[1]]  BY <1>1, <1>2, <1>3
<1>5. Local(x)' = Local(x) /\ Remote(x)' = Remote(x)  BY <1>4, Ends DEF Local, Remote
<1>6. PICK n \in 1 .. Len(inbox[x]) : inbox[x][n] = f  BY <1>4 DEF Buffered, Content
<1>7. n \in DOMAIN inbox[x] /\ inbox[x][n].type = "sync"  BY <1>2, <1>6
<1>8. m = [from |-> Remote(x), to |-> Local(x), delta |-> inbox[x][n].delta]  BY <1>2, <1>5, <1>6
<1> QED BY <1>1, <1>4, <1>5, <1>7, <1>8 DEF InFlight

\* The syncs of box are within MaxInbox, as InRoom says of inbox.
Roomy(box) ==
  \A x \in End : \A k \in 1 .. Len(box[x]) : box[x][k].type = "sync" => k <= MaxInbox

LEMMA TakeRoom ==
  ASSUME TypeOK, InRoom, NEW e \in End, inbox[e] # <<>>
  PROVE  Roomy(Take(e))
<1>1. inbox \in [End -> Seq(Frame)]  BY DEF TypeOK, Frame
<1>2. inbox[e] \in Seq(Frame) /\ Len(inbox[e]) \in Nat  BY <1>1
<1>3. /\ Tail(inbox[e]) \in Seq(Frame) /\ Len(Tail(inbox[e])) = Len(inbox[e]) - 1
      /\ \A k \in 1 .. Len(Tail(inbox[e])) : Tail(inbox[e])[k] = inbox[e][k + 1]
  BY <1>2, HeadTailProperties
<1>4. Take(e)[e] = Tail(inbox[e]) /\ \A x \in End \ {e} : Take(e)[x] = inbox[x]
  BY <1>1 DEF Take
<1>5. ASSUME NEW k \in 1 .. Len(Tail(inbox[e])), Tail(inbox[e])[k].type = "sync"
      PROVE  k <= MaxInbox
  <2>1. k + 1 \in 1 .. Len(inbox[e]) /\ inbox[e][k + 1].type = "sync"  BY <1>2, <1>3, <1>5
  <2>2. k + 1 <= MaxInbox /\ MaxInbox \in Nat /\ k \in Nat  BY <2>1, SessionAssumption DEF InRoom
  <2> QED BY <2>2
<1> QED BY <1>4, <1>5 DEF Roomy, InRoom

LEMMA WriteRoom ==
  ASSUME NEW e \in End, NEW m \in Frame, NEW box \in [End -> Seq(Frame)], Roomy(box),
         WriteOK(e, m, box)
  PROVE  InRoom'
<1>1. CASE Gone(e)  BY <1>1 DEF WriteOK, Roomy, InRoom
<1>2. CASE ~ Gone(e)
  <2> DEFINE o == Other(e)
  <2>1. inbox' = [box EXCEPT ![o] = Append(box[o], m)] /\ o \in End /\ Len(box[o]) < MaxInbox
    BY <1>2, Ends DEF WriteOK
  <2> HIDE DEF o
  <2>2. box[o] \in Seq(Frame) /\ Len(box[o]) \in Nat /\ MaxInbox \in Nat  BY <2>1, SessionAssumption
  <2>3. Len(Append(box[o], m)) = Len(box[o]) + 1  BY <2>2, AppendProperties
  <2>4. inbox'[o] = Append(box[o], m) /\ \A x \in End \ {o} : inbox'[x] = box[x]  BY <2>1
  <2>5. \A k \in 1 .. Len(inbox'[o]) : k <= MaxInbox  BY <2>1, <2>2, <2>3, <2>4
  <2> QED BY <2>4, <2>5 DEF Roomy, InRoom
<1> QED BY <1>1, <1>2

LEMMA CloseRoom ==
  ASSUME TypeOK, InRoom, NEW S \in SUBSET End, Close(S)
  PROVE  InRoom'
<1>1. \A x \in End : inbox'[x] = <<>> \/ inbox'[x] = inbox[x]  BY DEF Close
<1>2. \A x \in End : inbox'[x] = <<>> => Len(inbox'[x]) = 0  OBVIOUS
<1> QED BY <1>1, <1>2 DEF InRoom

LEMMA EndIsFinite == IsFiniteSet(End) /\ Cardinality(End) \in Nat
<1>1. IsFiniteSet({"init"} \cup {"resp"})  BY FS_Singleton, FS_AddElement
<1>2. {"init"} \cup {"resp"} = {"init", "resp"}  OBVIOUS
<1>3. IsFiniteSet(Conn \X {"init", "resp"})  BY <1>1, <1>2, SessionAssumption, FS_Product
<1> QED BY <1>3, FS_CardinalityType DEF End

LEMMA ClosedCount ==
  /\ Cardinality(Closed) \in Nat /\ Cardinality(Closed) <= Cardinality(End)
  /\ \A e \in End : pc[e] # "closed" => Cardinality(Closed) + 1 <= Cardinality(End)
<1>1. Closed \in SUBSET End  BY DEF Closed
<1>2. IsFiniteSet(Closed) /\ Cardinality(Closed) <= Cardinality(End)
  BY <1>1, EndIsFinite, FS_Subset
<1>3. Cardinality(Closed) \in Nat  BY <1>2, FS_CardinalityType
<1>4. ASSUME NEW e \in End, pc[e] # "closed"  PROVE Cardinality(Closed) + 1 <= Cardinality(End)
  <2>1. e \notin Closed  BY <1>4 DEF Closed
  <2>2. Cardinality(Closed \cup {e}) = Cardinality(Closed) + 1  BY <1>2, <2>1, FS_AddElement
  <2>3. Closed \cup {e} \in SUBSET End  BY <1>1
  <2> QED BY <2>2, <2>3, EndIsFinite, FS_Subset
<1> QED BY <1>2, <1>3, <1>4

\* Closing one more end, or some.
LEMMA ClosedGrows ==
  /\ (\A x \in End : pc[x] = "closed" => pc'[x] = "closed") =>
       Cardinality(Closed) <= Cardinality(Closed')
  /\ \A e \in End :
       pc[e] # "closed" /\ (\A x \in End : pc'[x] = IF x \in {e} THEN "closed" ELSE pc[x]) =>
         Cardinality(Closed') = Cardinality(Closed) + 1
<1>1. Closed' \in SUBSET End /\ Closed \in SUBSET End  BY DEF Closed
<1>2. IsFiniteSet(Closed') /\ IsFiniteSet(Closed)  BY <1>1, EndIsFinite, FS_Subset
<1>3. ASSUME \A x \in End : pc[x] = "closed" => pc'[x] = "closed"
      PROVE  Cardinality(Closed) <= Cardinality(Closed')
  <2>1. Closed \in SUBSET Closed'  BY <1>3 DEF Closed
  <2> QED BY <1>2, <2>1, FS_Subset
<1>4. ASSUME NEW e \in End, pc[e] # "closed",
             \A x \in End : pc'[x] = IF x \in {e} THEN "closed" ELSE pc[x]
      PROVE  Cardinality(Closed') = Cardinality(Closed) + 1
  <2>1. Closed' = Closed \cup {e} /\ e \notin Closed  BY <1>4 DEF Closed
  <2> QED BY <1>2, <2>1, FS_AddElement
<1> QED BY <1>3, <1>4

LEMMA MaxOpsIs == MaxOps \in Nat /\ \A b \in Budgets : b.ops <= MaxOps
<1> DEFINE S == {b.ops : b \in Budgets}
<1>1. \E m \in S : \A b \in Budgets : b.ops <= m  BY SessionAssumption
<1>2. MaxOps \in S /\ \A b \in Budgets : b.ops <= MaxOps  BY <1>1 DEF MaxOps
<1> QED BY <1>2, SessionAssumption

LEMMA OpsBound ==
  ASSUME TypeOK
  PROVE  /\ used.ops \in Nat /\ budget.ops \in Nat /\ MaxOps \in Nat
         /\ used.ops <= budget.ops /\ budget.ops <= MaxOps
<1>1. budget \in Budgets /\ used.ops \in 0 .. budget.ops  BY DEF TypeOK
<1>2. budget.ops \in Nat /\ budget.ops <= MaxOps /\ MaxOps \in Nat
  BY <1>1, SessionAssumption, MaxOpsIs
<1> QED BY <1>1, <1>2

LEMMA RCardinality ==
  ASSUME NEW S
  PROVE  R!Cardinality(S) = Cardinality(S)
  BY DEF R!Cardinality, Cardinality

\* There is always room for one more message in Replication.
LEMMA InFlightBounded ==
  ASSUME TypeOK, InRoom
  PROVE  Cardinality(InFlight) < 1 + MaxInbox * Cardinality(End)
<1> DEFINE D == {p \in End \X (1 .. MaxInbox) :
                   /\ Open(p[1]) /\ Local(p[1]) # Remote(p[1])
                   /\ p[2] \in DOMAIN inbox[p[1]] /\ inbox[p[1]][p[2]].type = "sync"}
           g == [p \in D |-> [from |-> Remote(p[1]), to |-> Local(p[1]),
                              delta |-> inbox[p[1]][p[2]].delta]]
<1>0. MaxInbox \in Nat /\ \A e \in End : inbox[e] \in Seq(Frame)
  BY SessionAssumption DEF TypeOK, Frame
<1>1. /\ IsFiniteSet(1 .. MaxInbox) /\ Cardinality(1 .. MaxInbox) = MaxInbox
  BY <1>0, FS_Interval
<1>2. /\ IsFiniteSet(End \X (1 .. MaxInbox))
      /\ Cardinality(End \X (1 .. MaxInbox)) = Cardinality(End) * MaxInbox
  BY <1>1, EndIsFinite, FS_Product
<1>3. D \in SUBSET (End \X (1 .. MaxInbox))  OBVIOUS
<1>4. IsFiniteSet(D) /\ Cardinality(D) <= Cardinality(End) * MaxInbox
  BY <1>2, <1>3, FS_Subset
<1>5. \A m \in InFlight : \E p \in D : g[p] = m
  <2> SUFFICES ASSUME NEW m \in InFlight  PROVE \E p \in D : g[p] = m
    OBVIOUS
  <2>1. PICK e \in End : /\ Open(e) /\ Local(e) # Remote(e)
                         /\ \E k \in DOMAIN inbox[e] :
                              /\ inbox[e][k].type = "sync"
                              /\ m = [from |-> Remote(e), to |-> Local(e), delta |-> inbox[e][k].delta]
    BY DEF InFlight
  <2>2. PICK k \in DOMAIN inbox[e] :
          /\ inbox[e][k].type = "sync"
          /\ m = [from |-> Remote(e), to |-> Local(e), delta |-> inbox[e][k].delta]
    BY <2>1
  <2>3. k \in 1 .. MaxInbox
    <3>1. k \in 1 .. Len(inbox[e]) /\ Len(inbox[e]) \in Nat  BY <1>0
    <3>2. k <= MaxInbox  BY <2>2, <3>1 DEF InRoom
    <3> QED BY <1>0, <3>1, <3>2
  <2>4. <<e, k>> \in D  BY <2>1, <2>2, <2>3
  <2>5. g[<<e, k>>] = m  BY <2>2, <2>4
  <2> QED BY <2>4, <2>5
<1>6. \A p \in D : g[p] \in InFlight
  <2> SUFFICES ASSUME NEW p \in D  PROVE g[p] \in InFlight
    OBVIOUS
  <2>1. /\ p[1] \in End /\ Open(p[1]) /\ Local(p[1]) # Remote(p[1])
        /\ p[2] \in DOMAIN inbox[p[1]] /\ inbox[p[1]][p[2]].type = "sync"
    OBVIOUS
  <2>2. g[p] = [from |-> Remote(p[1]), to |-> Local(p[1]), delta |-> inbox[p[1]][p[2]].delta]
    OBVIOUS
  <2> QED BY <2>1, <2>2 DEF InFlight
<1>7. g \in Surjection(D, InFlight)
  <2>1. g \in [D -> InFlight]  BY <1>6
  <2> HIDE DEF g, D
  <2> QED BY <1>5, <2>1 DEF Surjection
<1> HIDE DEF g, D
<1>8. /\ IsFiniteSet(InFlight) /\ Cardinality(InFlight) <= Cardinality(D)
  BY <1>4, <1>7, FS_Surjection
<1>9. Cardinality(InFlight) \in Nat /\ Cardinality(D) \in Nat  BY <1>4, <1>8, FS_CardinalityType
<1>10. /\ Cardinality(End) * MaxInbox = MaxInbox * Cardinality(End)
       /\ MaxInbox * Cardinality(End) \in Nat
  BY <1>0, EndIsFinite
<1> QED BY <1>4, <1>8, <1>9, <1>10

LEMMA ZeroReached ==
  ASSUME NEW v \in VV
  PROVE  Leq(ZeroVV, v)
  BY DEF Leq, ZeroVV, VV

\* A step that writes nothing keeps the invariant.
LEMMA QuietStep ==
  ASSUME IInv, RInv, TypeOK', UNCHANGED <<doc, link>>,
         \A n \in Node : \/ status'[n] = status[n]
                         \/ status[n] # "off" /\ status'[n] \notin {"off", "running"},
         \A i, j \in Node : \/ peers'[i][j].lastVV = peers[i][j].lastVV
                            \/ Leq(peers'[i][j].lastVV, doc[j].vv),
         \A x \in End : \A f \in Buffered(x)' : f \in Buffered(x) \/ Truthful(x, f),
         \A x \in End : pc[x] = "closed" => pc'[x] = "closed",
         used'.ops = used.ops, InRoom'
  PROVE  RInv'
<1>0. TypeOK /\ Begun /\ WritesCounted  BY DEF IInv, RInv
<1>1. FramesTruthful' /\ LastReached' /\ OwnFirst' /\ Begun'
  <2>1. \A k \in Node : Leq(doc[k].vv, doc'[k].vv) /\ doc[k].writes \subseteq doc'[k].writes
    <3>1. \A k \in Node : doc[k].vv \in [Node -> Nat]  BY <1>0 DEF TypeOK, Doc, VV
    <3>2. \A k, n \in Node : doc[k].vv[n] <= doc[k].vv[n]
      <4>1. \A k, n \in Node : doc[k].vv[n] \in Nat  BY <3>1
      <4> QED BY <4>1
    <3> QED BY <3>2 DEF Leq
  <2>2. \A x \in End : \A f \in Buffered(x)' :
          (f \in Buffered(x) /\ link'[x[1]] = link[x[1]]) \/ Truthful(x, f)'
    BY DEF Truthful, Remote, Local
  <2>3. \A x \in End : link'[x[1]] # <<>> => link'[x[1]] = link[x[1]] /\ status'[Local(x)] # "off"
    <3>1. \A x \in End : link[x[1]] # <<>> => Local(x) \in Node  BY <1>0, Linked2
    <3> QED BY <1>0, <3>1 DEF Begun
  <2> QED BY <2>1, <2>2, <2>3, GrowKeeps
<1>2. WritesCounted'
  <2> SUFFICES ASSUME NEW n \in Node
               PROVE  doc'[n].vv[n] + Left(n)' <= 2 + used'.ops + Cardinality(Closed')
    BY DEF WritesCounted
  <2>1. doc[n].vv[n] \in Nat /\ used.ops \in Nat
    <3>1. doc[n].vv \in [Node -> Nat]  BY <1>0 DEF TypeOK, Doc, VV
    <3>2. budget.ops \in Nat /\ used.ops \in 0 .. budget.ops  BY <1>0, SessionAssumption DEF TypeOK
    <3> QED BY <3>1, <3>2
  <2>2. Left(n) \in Nat /\ Left(n)' \in Nat /\ Left(n)' <= Left(n)  BY DEF Left
  <2>3. Cardinality(Closed) <= Cardinality(Closed') /\ Cardinality(Closed) \in Nat
    BY ClosedGrows, ClosedCount
  <2>4. Cardinality(Closed') \in Nat
    <3>1. Closed' \in SUBSET End  BY DEF Closed
    <3> QED BY <3>1, EndIsFinite, FS_Subset, FS_CardinalityType
  <2>5. doc[n].vv[n] + Left(n) <= 2 + used.ops + Cardinality(Closed)  BY <1>0 DEF WritesCounted
  <2> QED BY <2>1, <2>2, <2>3, <2>4, <2>5
<1> QED BY <1>1, <1>2 DEF RInv

\* A step that neither writes nor sends a sync is a step of Replication that at most
\* loses messages.
LEMMA QuietSim ==
  ASSUME TypeOK, TypeOK', UNCHANGED <<doc, link>>,
         \A x \in End : Open(x)' => Open(x),
         \A x \in End : \A f \in Buffered(x)' :
           f \in Buffered(x) \/ f.type # "sync" \/ Local(x) = Remote(x)
  PROVE  R!Next
<1>1. inbox \in [End -> Seq(Frame)] /\ inbox' \in [End -> Seq(Frame)]  BY DEF TypeOK, Frame
<1>2. \A x \in End : Local(x)' = Local(x) /\ Remote(x)' = Remote(x)  BY DEF Local, Remote
<1>3. InFlight' \subseteq InFlight \cup {}  BY <1>1, <1>2, NoNewSync
<1> QED BY <1>3 DEF R!Next, R!Lose, R!Lossy

\* Daemon i writes: c is its document now.
LEMMA WriteStep ==
  ASSUME IInv, RInv, TypeOK', NEW i \in Node, NEW c, doc' = [doc EXCEPT ![i] = c],
         Written(doc[i], i, c), link' = link,
         \A n \in Node \ {i} : status'[n] = status[n], status'[i] # "off",
         \A k, j \in Node : \/ peers'[k][j].lastVV = peers[k][j].lastVV
                            \/ peers'[k][j].lastVV = ZeroVV,
         \A x \in End : \A f \in Buffered(x)' : f \in Buffered(x),
         \A x \in End : pc[x] = "closed" => pc'[x] = "closed",
         InRoom', used.ops <= used'.ops,
         Left(i)' + 1 + used.ops + Cardinality(Closed) <= Left(i) + used'.ops + Cardinality(Closed')
  PROVE  RInv'
<1>0. TypeOK /\ Begun /\ WritesCounted  BY DEF IInv, RInv
<1>1. doc'[i] = c /\ \A k \in Node \ {i} : doc'[k] = doc[k]  BY <1>0 DEF TypeOK
<1>2. \A k, n \in Node : doc[k].vv[n] \in Nat /\ doc'[k].vv[n] \in Nat /\ doc'[k].vv \in VV
  <2>1. \A k \in Node : doc[k] \in Doc /\ doc'[k] \in Doc  BY <1>0 DEF TypeOK
  <2>2. \A k \in Node : doc[k].vv \in VV /\ doc'[k].vv \in VV  BY <2>1 DEF Doc
  <2> QED BY <2>2 DEF VV
<1>3. \A k \in Node : Leq(doc[k].vv, doc'[k].vv) /\ doc[k].writes \subseteq doc'[k].writes
  <2>1. ASSUME NEW k \in Node, k # i
        PROVE  Leq(doc[k].vv, doc'[k].vv) /\ doc[k].writes \subseteq doc'[k].writes
    <3>1. doc'[k] = doc[k] /\ \A n \in Node : doc[k].vv[n] <= doc[k].vv[n]  BY <1>1, <1>2, <2>1
    <3> QED BY <3>1 DEF Leq
  <2> QED BY <1>1, <2>1 DEF Written
<1>4. FramesTruthful' /\ LastReached' /\ OwnFirst' /\ Begun'
  <2>1. ASSUME NEW k \in Node, NEW n \in Node
        PROVE  doc'[k].vv[n] = doc[k].vv[n] \/ doc'[k].vv[n] <= doc'[n].vv[n]
    <3>1. CASE k = n  BY <1>2, <3>1
    <3>2. CASE k # n  BY <1>1, <3>2 DEF Written
    <3> QED BY <3>1, <3>2
  <2>2. \A k, j \in Node : \/ peers'[k][j].lastVV = peers[k][j].lastVV
                           \/ Leq(peers'[k][j].lastVV, doc'[j].vv)
    BY <1>2, ZeroReached
  <2>3. doc'[i].vv[i] > 0
    <3>1. doc'[i].vv[i] = doc[i].vv[i] + 1 /\ doc[i].vv[i] \in Nat  BY <1>1, <1>2 DEF Written
    <3> QED BY <3>1
  <2>4. \A n \in Node : status'[n] # "off" => status[n] # "off" \/ doc'[n].vv[n] > 0  BY <2>3
  <2>5. \A x \in End : link'[x[1]] # <<>> => link'[x[1]] = link[x[1]] /\ status'[Local(x)] # "off"
    <3>1. \A x \in End : link[x[1]] # <<>> => Local(x) \in Node  BY <1>0, Linked2
    <3> QED BY <1>0, <3>1 DEF Begun
  <2>6. \A x \in End : \A f \in Buffered(x)' :
          (f \in Buffered(x) /\ link'[x[1]] = link[x[1]]) \/ Truthful(x, f)'
    OBVIOUS
  <2> QED BY <1>3, <2>1, <2>2, <2>4, <2>5, <2>6, GrowKeeps
<1>5. WritesCounted'
  <2> SUFFICES ASSUME NEW n \in Node
               PROVE  doc'[n].vv[n] + Left(n)' <= 2 + used'.ops + Cardinality(Closed')
    BY DEF WritesCounted
  <2>1. budget.ops \in Nat /\ budget'.ops \in Nat /\ used.ops \in Nat /\ used'.ops \in Nat
    <3>1. budget.ops \in Nat /\ budget'.ops \in Nat  BY <1>0, SessionAssumption DEF TypeOK
    <3>2. used.ops \in 0 .. budget.ops /\ used'.ops \in 0 .. budget'.ops  BY <1>0 DEF TypeOK
    <3> QED BY <3>1, <3>2
  <2>2. Left(n) \in Nat /\ Left(n)' \in Nat  BY DEF Left
  <2>3. Cardinality(Closed) <= Cardinality(Closed') /\ Cardinality(Closed) \in Nat
    BY ClosedGrows, ClosedCount
  <2>4. Cardinality(Closed') \in Nat
    <3>1. Closed' \in SUBSET End  BY DEF Closed
    <3> QED BY <3>1, EndIsFinite, FS_Subset, FS_CardinalityType
  <2>5. doc[n].vv[n] + Left(n) <= 2 + used.ops + Cardinality(Closed)  BY <1>0 DEF WritesCounted
  <2>6. CASE n = i
    <3>1. doc'[n].vv[n] = doc[n].vv[n] + 1  BY <1>1, <2>6 DEF Written
    <3>2. Left(n)' + 1 + used.ops + Cardinality(Closed) <= Left(n) + used'.ops + Cardinality(Closed')
      BY <2>6
    <3> QED BY <1>2, <2>1, <2>2, <2>3, <2>4, <2>5, <3>1, <3>2
  <2>7. CASE n # i
    <3>1. doc'[n].vv[n] = doc[n].vv[n] /\ Left(n)' = Left(n)  BY <1>1, <2>7 DEF Left
    <3> QED BY <1>2, <2>1, <2>2, <2>3, <2>4, <2>5, <3>1
  <2> QED BY <2>6, <2>7
<1> QED BY <1>4, <1>5 DEF RInv

-------------------------------------------------------------------------------
(***************************************************************************)
(* The steps of a task                                                     *)
(***************************************************************************)

LEMMA HelloEndsSim ==
  ASSUME IInv, RInv, TypeOK', NEW e \in End, HelloEnds(e) \/ Reject(e)
  PROVE  RInv' /\ R!Next
<1>0. TypeOK /\ InRoom  BY DEF IInv, RInv
<1>1. /\ pc[e] = "hello" /\ Close({e})
      /\ UNCHANGED <<doc, status, view, peers, link, cut, sig, used, budget>>
  BY DEF HelloEnds, Reject, limits
<1>2. /\ \A x \in End : pc'[x] = IF x \in {e} THEN "closed" ELSE pc[x]
      /\ \A x \in End : \A f \in Buffered(x)' : f \in Buffered(x)
      /\ InRoom'
  BY <1>0, <1>1, CloseFrames, CloseRoom
<1>3. \A x \in End : Open(x)' => Open(x)  BY <1>2 DEF Open
<1>4. \A x \in End : pc[x] = "closed" => pc'[x] = "closed"  BY <1>2
<1> QED BY <1>0, <1>1, <1>2, <1>3, <1>4, QuietStep, QuietSim

LEMMA LoopEndsSim ==
  ASSUME IInv, RInv, TypeOK', NEW e \in End, EndOfStream(e) \/ Suspect(e) \/ ObserveShutdown(e)
  PROVE  RInv' /\ R!Next
<1>0. TypeOK /\ InRoom  BY DEF IInv, RInv
<1>1. /\ pc[e] = "loop" /\ pc' = [pc EXCEPT ![e] = "cleanup"]
      /\ UNCHANGED <<doc, status, view, peers, link, cut, inbox, sig>>
      /\ UNCHANGED <<used, budget>> \/ Spend("faults")
  BY DEF EndOfStream, Suspect, ObserveShutdown, Goto, limits
<1>2. used'.ops = used.ops  BY <1>0, <1>1 DEF Spend, TypeOK
<1>3. /\ \A x \in End : Open(x)' => Open(x)
      /\ \A x \in End : pc[x] = "closed" => pc'[x] = "closed"
  BY <1>0, <1>1 DEF Open, TypeOK
<1>4. InRoom' /\ \A x \in End : \A f \in Buffered(x)' : f \in Buffered(x)
  BY <1>0, <1>1 DEF InRoom, Buffered
<1> QED BY <1>0, <1>1, <1>2, <1>3, <1>4, QuietStep, QuietSim

\* An end in a connection that is used: both daemons have started.
LEMMA BothBegun ==
  ASSUME IInv, RInv, NEW e \in End, pc[e] # "free"
  PROVE  /\ link[e[1]] # <<>>
         /\ Local(e) \in Node /\ Remote(e) \in Node
         /\ Local(Other(e)) = Remote(e) /\ Remote(Other(e)) = Local(e)
         /\ R!Started(Local(e)) /\ R!Started(Remote(e))
<1>0. TypeOK /\ Wired /\ Begun  BY DEF IInv, RInv
<1>1. link[e[1]] # <<>> /\ Other(e) \in End /\ link[Other(e)[1]] # <<>>  BY <1>0, Ends DEF Wired
<1>2. /\ Local(e) \in Node /\ Remote(e) \in Node
      /\ Local(Other(e)) = Remote(e) /\ Remote(Other(e)) = Local(e)
  BY <1>0, <1>1, Linked2
<1>3. status[Local(e)] # "off" /\ status[Remote(e)] # "off"  BY <1>0, <1>1, <1>2 DEF Begun
<1>4. doc[Local(e)].vv[Local(e)] > 0 /\ doc[Remote(e)].vv[Remote(e)] > 0
  BY <1>0, <1>2, <1>3 DEF Begun
<1> QED BY <1>1, <1>2, <1>4 DEF R!Started

\* e sends what it has beyond a vector the other daemon has reached.
LEMMA SendSim ==
  ASSUME IInv, RInv, TypeOK', NEW e \in End, pc[e] \in {"opening", "loop"}, NEW v \in VV,
         Leq(v, doc[Remote(e)].vv),
         WriteOK(e, [type |-> "sync", delta |-> DeltaForPeer(doc[Local(e)], v)], inbox),
         pc'[e] = "loop", \A x \in End \ {e} : pc'[x] = pc[x],
         UNCHANGED <<doc, status, peers, link, used>>
  PROVE  RInv' /\ R!Next
<1> DEFINE d == DeltaForPeer(doc[Local(e)], v)
           m == [type |-> "sync", delta |-> d]
           i == Local(e)
           j == Remote(e)
<1>0. TypeOK /\ InRoom /\ inbox \in [End -> Seq(Frame)] /\ inbox' \in [End -> Seq(Frame)]
  BY DEF IInv, RInv, TypeOK, Frame
<1>1. /\ i \in Node /\ j \in Node /\ Local(Other(e)) = j /\ Remote(Other(e)) = i
      /\ R!Started(i) /\ R!Started(j)
  BY BothBegun
<1>2. m \in Frame /\ Good(Other(e), m) /\ Other(e) \in End  BY DeltaIsGood, Ends DEF Active
<1>3. d.vv = doc[i].vv /\ d.writes \subseteq doc[i].writes  BY DEF DeltaForPeer, DeltaSince
<1>4. Truthful(Other(e), m)
  <2>1. doc[i].vv \in VV  BY <1>0, <1>1 DEF TypeOK, Doc
  <2>2. Leq(doc[i].vv, doc[i].vv)
    <3>1. \A n \in Node : doc[i].vv[n] \in Nat  BY <2>1 DEF VV
    <3> QED BY <3>1 DEF Leq
  <2>3. m.type = "sync" /\ m.delta = d  OBVIOUS
  <2> HIDE DEF d, m
  <2> QED BY <1>1, <1>3, <2>2, <2>3 DEF Truthful
<1>5. \A x \in End : \A f \in Buffered(x)' : f \in Buffered(x) \/ (x = Other(e) /\ f = m)
  <2>1. \A x \in End : Content(inbox[x]) \subseteq Buffered(x)  BY DEF Buffered
  <2>2. WriteOK(e, m, inbox)  OBVIOUS
  <2> HIDE DEF m
  <2> QED BY <1>0, <1>2, <2>1, <2>2, WriteFrames
<1>6. InRoom'
  <2>1. Roomy(inbox)  BY <1>0 DEF InRoom, Roomy
  <2> QED BY <1>0, <1>2, <2>1, WriteRoom
<1>7. /\ \A x \in End : Open(x)' => Open(x)
      /\ \A x \in End : pc[x] = "closed" => pc'[x] = "closed"
  BY DEF Open
<1>8. RInv'
  <2>1. \A x \in End : \A f \in Buffered(x)' : f \in Buffered(x) \/ Truthful(x, f)  BY <1>4, <1>5
  <2> QED BY <1>6, <1>7, <2>1, QuietStep
<1>9. CASE i = j
  <2>1. \A x \in End : \A f \in Buffered(x)' :
          f \in Buffered(x) \/ f.type # "sync" \/ Local(x) = Remote(x)
    BY <1>1, <1>5, <1>9
  <2> QED BY <1>0, <1>7, <1>8, <2>1, QuietSim
<1>10. CASE i # j
  <2> DEFINE msg == [from |-> i, to |-> j, delta |-> d]
  <2>1. \A x \in End : Local(x)' = Local(x) /\ Remote(x)' = Remote(x)  BY DEF Local, Remote
  <2>2. \A x \in End : \A f \in Buffered(x)' :
          Open(x)' /\ f.type = "sync" /\ Local(x)' # Remote(x)' =>
            \/ [from |-> Remote(x)', to |-> Local(x)', delta |-> f.delta] \in {msg}
            \/ Open(x) /\ f \in Buffered(x) /\ link'[x[1]] = link[x[1]]
    BY <1>1, <1>5, <1>7, <2>1
  <2> HIDE DEF msg
  <2>3. InFlight' \subseteq InFlight \cup {msg}  BY <1>0, <2>2, NoNewSync
  <2>4. R!Lossy({msg})  BY <2>3 DEF R!Lossy
  <2>5. Cardinality(InFlight) < 1 + MaxInbox * Cardinality(End)  BY <1>0, InFlightBounded
  <2>6. v \in R!ReachedVVs(j)
    <3>1. doc[j].vv \in [Node -> Nat] /\ v \in [Node -> Nat]  BY <1>0, <1>1 DEF TypeOK, Doc, VV
    <3>2. \A n \in Node : v[n] \in 0 .. doc[j].vv[n]  BY <3>1 DEF Leq
    <3>3. v \in [Node -> UNION {0 .. doc[j].vv[n] : n \in Node}]  BY <3>1, <3>2
    <3> QED BY <3>3 DEF R!ReachedVVs, R!Leq, Leq
  <2>7. R!DeltaForPeer(doc[i], v) = d  BY ROperators
  <2>8. d \in {R!DeltaForPeer(doc[i], w) : w \in R!ReachedVVs(j)}  BY <2>6, <2>7
  <2>9. R!Lossy({[from |-> i, to |-> j, delta |-> d]})  BY <2>4 DEF msg
  <2> HIDE DEF d, i, j
  <2>10. R!Send(i, j)  BY <1>1, <1>10, <2>5, <2>8, <2>9, RCardinality DEF R!Send
  <2> QED BY <1>1, <1>8, <2>10 DEF R!Next
<1> QED BY <1>9, <1>10

LEMMA SendInitialSim ==
  ASSUME IInv, RInv, TypeOK', NEW e \in End, SendInitial(e)
  PROVE  RInv' /\ R!Next
<1>0. TypeOK /\ InRoom  BY DEF IInv, RInv
<1>1. pc[e] = "opening" /\ UNCHANGED <<doc, status, view, peers, link, cut, used, budget>>
  BY DEF SendInitial, limits
<1>2. CASE /\ pc' = [pc EXCEPT ![e] = "loop"]
           /\ WriteOK(e, [type |-> "sync", delta |-> FullDelta(doc[Local(e)])], inbox)
  <2>1. pc'[e] = "loop" /\ \A x \in End \ {e} : pc'[x] = pc[x]  BY <1>0, <1>2 DEF TypeOK
  <2>2. ZeroVV \in VV  BY DeltaTypes
  <2>3. Remote(e) \in Node  BY <1>1, BothBegun
  <2>4. doc[Remote(e)].vv \in VV  BY <1>0, <2>3 DEF TypeOK, Doc
  <2>5. Leq(ZeroVV, doc[Remote(e)].vv)  BY <2>4, ZeroReached
  <2>6. WriteOK(e, [type |-> "sync", delta |-> DeltaForPeer(doc[Local(e)], ZeroVV)], inbox)
    BY <1>2 DEF FullDelta
  <2> QED BY <1>1, <2>1, <2>2, <2>5, <2>6, SendSim
<1>3. CASE Close({e})
  <2>1. /\ \A x \in End : pc'[x] = IF x \in {e} THEN "closed" ELSE pc[x]
        /\ \A x \in End : \A f \in Buffered(x)' : f \in Buffered(x)
        /\ InRoom'
    BY <1>0, <1>3, CloseFrames, CloseRoom
  <2>2. \A x \in End : Open(x)' => Open(x)  BY <1>1, <2>1 DEF Open
  <2>3. \A x \in End : pc[x] = "closed" => pc'[x] = "closed"  BY <2>1
  <2> QED BY <1>0, <1>1, <2>1, <2>2, <2>3, QuietStep, QuietSim
<1> QED BY <1>2, <1>3 DEF SendInitial, Goto

LEMMA SendDeltaSim ==
  ASSUME IInv, RInv, TypeOK', NEW e \in End, SendDelta(e)
  PROVE  RInv' /\ R!Next
<1> DEFINE i == Local(e)
           j == Remote(e)
<1>0. TypeOK /\ InRoom /\ LastReached  BY DEF IInv, RInv
<1>1. pc[e] = "loop" /\ UNCHANGED <<doc, status, view, peers, link, cut, used, budget>>
  BY DEF SendDelta, limits
<1>2. i \in Node /\ j \in Node  BY <1>1, BothBegun
<1>3. CASE UNCHANGED inbox /\ (UNCHANGED pc \/ pc' = [pc EXCEPT ![e] = "cleanup"])
  <2>1. /\ \A x \in End : Open(x)' => Open(x)
        /\ \A x \in End : pc[x] = "closed" => pc'[x] = "closed"
    BY <1>0, <1>1, <1>3 DEF Open, TypeOK
  <2>2. InRoom' /\ \A x \in End : \A f \in Buffered(x)' : f \in Buffered(x)
    BY <1>0, <1>3 DEF InRoom, Buffered
  <2> QED BY <1>0, <1>1, <2>1, <2>2, QuietStep, QuietSim
<1>4. CASE /\ Connected(i, j) /\ UNCHANGED pc
           /\ WriteOK(e, [type |-> "sync", delta |-> DeltaForPeer(doc[i], peers[i][j].lastVV)], inbox)
  <2>1. peers[i][j].lastVV \in VV
    <3>1. peers[i][j] \in PeerHandle  BY <1>0, <1>2, <1>4 DEF TypeOK, Connected
    <3> QED BY <3>1 DEF PeerHandle
  <2>2. Leq(peers[i][j].lastVV, doc[j].vv)  BY <1>0, <1>2 DEF LastReached
  <2> QED BY <1>1, <1>4, <2>1, <2>2, SendSim
<1> QED BY <1>3, <1>4 DEF SendDelta, Goto

\* A handle is inserted with a vector that the peer has reached.
LEMMA InsertSim ==
  ASSUME IInv, RInv, TypeOK', NEW e \in End, pc[e] = "hello",
         NEW vv \in VV, Leq(vv, doc[Remote(e)].vv), Insert(e, Remote(e), vv),
         UNCHANGED <<doc, status, link, used>>,
         pc'[e] # "free", \A x \in End \ {e} : pc'[x] = pc[x],
         InRoom',
         \A x \in End : \A f \in Buffered(x)' :
           f \in Buffered(x) \/ (f.type = "ack" /\ Truthful(x, f))
  PROVE  RInv' /\ R!Next
<1> DEFINE i == Local(e)
           j == Remote(e)
           new == [end |-> e, lastVV |-> vv]
<1>0. TypeOK  BY DEF IInv
<1>1. i \in Node /\ j \in Node  BY BothBegun
<1>2. peers' = [peers EXCEPT ![i][j] = new] /\ new.lastVV = vv  BY DEF Insert
<1>3. peers \in [Node -> [Node -> PeerHandle \cup {NoPeer}]]  BY <1>0 DEF TypeOK
<1> HIDE DEF i, new
<1>4. /\ peers'[i][j] = new
      /\ \A k, l \in Node : k # i \/ l # j => peers'[k][l] = peers[k][l]
  BY <1>1, <1>2, <1>3
<1>5. \A k, l \in Node : \/ peers'[k][l].lastVV = peers[k][l].lastVV
                         \/ Leq(peers'[k][l].lastVV, doc[l].vv)
  BY <1>2, <1>4
<1>6. /\ \A x \in End : Open(x)' => Open(x)
      /\ \A x \in End : pc[x] = "closed" => pc'[x] = "closed"
  BY DEF Open
<1> QED BY <1>0, <1>5, <1>6, QuietStep, QuietSim

LEMMA RecvHandshakeSim ==
  ASSUME IInv, RInv, TypeOK', NEW e \in End, RecvHandshake(e)
  PROVE  RInv' /\ R!Next
<1>0. TypeOK /\ InRoom  BY DEF IInv, RInv
<1>1. /\ pc[e] = "hello" /\ inbox[e] # <<>> /\ Head(inbox[e]).type = "handshake"
      /\ Insert(e, Head(inbox[e]).from, ZeroVV)
      /\ UNCHANGED <<doc, status, view, link, cut, sig, used, budget>>
  BY DEF RecvHandshake, HasFrame, limits
<1>2. /\ Local(e) \in Node /\ Remote(e) \in Node /\ link[e[1]] # <<>>
      /\ Insert(e, Remote(e), ZeroVV)
  BY <1>1, FirstFrame
<1>3. doc[Remote(e)].vv \in VV /\ doc[Local(e)].vv \in VV  BY <1>0, <1>2 DEF TypeOK, Doc
<1>4. ZeroVV \in VV /\ Leq(ZeroVV, doc[Remote(e)].vv)  BY <1>3, DeltaTypes, ZeroReached
<1>5. CASE /\ pc' = [pc EXCEPT ![e] = "opening"]
           /\ WriteOK(e, [type |-> "ack", from |-> Local(e), vv |-> doc[Local(e)].vv], Take(e))
  <2> DEFINE m == [type |-> "ack", from |-> Local(e), vv |-> doc[Local(e)].vv]
  <2>1. m \in Frame /\ m.type = "ack" /\ m.vv = doc[Local(e)].vv  BY <1>2, <1>3 DEF Frame, Ack
  <2>2. Take(e) \in [End -> Seq(Frame)] /\ \A x \in End : Content(Take(e)[x]) \subseteq Buffered(x)
    BY <1>0, <1>1, TakeFrames
  <2>3. WriteOK(e, m, Take(e))  BY <1>5
  <2> HIDE DEF m
  <2>4. Truthful(Other(e), m)
    <3>1. Remote(Other(e)) = Local(e)  BY <1>0, <1>2, Linked2
    <3>2. \A n \in Node : doc[Local(e)].vv[n] \in Nat  BY <1>3 DEF VV
    <3>3. Leq(doc[Local(e)].vv, doc[Local(e)].vv)  BY <3>2 DEF Leq
    <3> QED BY <2>1, <3>1, <3>3 DEF Truthful
  <2>5. \A x \in End : \A f \in Buffered(x)' : f \in Buffered(x) \/ (x = Other(e) /\ f = m)
    BY <1>0, <2>1, <2>2, <2>3, WriteFrames
  <2>6. InRoom'
    <3>1. Roomy(Take(e))  BY <1>0, <1>1, TakeRoom
    <3> QED BY <2>1, <2>2, <2>3, <3>1, WriteRoom
  <2>7. pc'[e] = "opening" /\ \A x \in End \ {e} : pc'[x] = pc[x]  BY <1>0, <1>5 DEF TypeOK
  <2>8. \A x \in End : \A f \in Buffered(x)' :
          f \in Buffered(x) \/ (f.type = "ack" /\ Truthful(x, f))
    BY <2>1, <2>4, <2>5
  <2> QED BY <1>1, <1>2, <1>4, <2>6, <2>7, <2>8, InsertSim
<1>6. CASE Close({e})
  <2>1. /\ \A x \in End : pc'[x] = IF x \in {e} THEN "closed" ELSE pc[x]
        /\ \A x \in End : \A f \in Buffered(x)' : f \in Buffered(x)
        /\ InRoom'
    BY <1>0, <1>6, CloseFrames, CloseRoom
  <2>2. pc'[e] = "closed" /\ \A x \in End \ {e} : pc'[x] = pc[x]  BY <2>1
  <2> QED BY <1>1, <1>2, <1>4, <2>1, <2>2, InsertSim
<1> QED BY <1>5, <1>6 DEF RecvHandshake, Goto

LEMMA RecvAckSim ==
  ASSUME IInv, RInv, TypeOK', NEW e \in End, RecvAck(e)
  PROVE  RInv' /\ R!Next
<1> DEFINE h == Head(inbox[e])
<1>0. TypeOK /\ InRoom /\ FramesTruthful  BY DEF IInv, RInv
<1>1. /\ pc[e] = "hello" /\ inbox[e] # <<>> /\ h.type = "ack"
      /\ Insert(e, h.from, h.vv)
      /\ pc' = [pc EXCEPT ![e] = "opening"] /\ inbox' = Take(e)
      /\ UNCHANGED <<doc, status, view, link, cut, sig, used, budget>>
  BY DEF RecvAck, HasFrame, Goto, limits
<1>2. h \in Frame /\ h.from = Remote(e)  BY <1>1, FirstFrame
<1>3. h.vv \in VV
  <2>1. h \in Ack  BY <1>1, <1>2 DEF Frame, Handshake, Ack, Sync
  <2> QED BY <2>1 DEF Ack
<1>4. Leq(h.vv, doc[Remote(e)].vv)
  <2>1. h \in Buffered(e)  BY <1>0, <1>1, TakeFrames
  <2>2. Truthful(e, h)  BY <1>0, <2>1 DEF FramesTruthful
  <2> QED BY <1>1, <2>2 DEF Truthful
<1>5. \A x \in End : Content(Take(e)[x]) \subseteq Buffered(x)  BY <1>0, <1>1, TakeFrames
<1>6. \A x \in End : \A f \in Buffered(x)' : f \in Buffered(x)  BY <1>1, <1>5 DEF Buffered
<1>7. InRoom'
  <2>1. Roomy(Take(e))  BY <1>0, <1>1, TakeRoom
  <2> QED BY <1>1, <2>1 DEF Roomy, InRoom
<1>8. pc'[e] = "opening" /\ \A x \in End \ {e} : pc'[x] = pc[x]  BY <1>0, <1>1 DEF TypeOK
<1> HIDE DEF h
<1> QED BY <1>1, <1>2, <1>3, <1>4, <1>6, <1>7, <1>8, InsertSim

LEMMA RecvSyncSim ==
  ASSUME IInv, RInv, TypeOK', NEW e \in End, RecvSync(e)
  PROVE  RInv' /\ R!Next
<1> DEFINE i == Local(e)
           j == Remote(e)
           h == Head(inbox[e])
           delta == h.delta
           merged == MergeRemote(doc[i], delta)
<1>0. TypeOK /\ InRoom /\ FramesTruthful /\ LastReached /\ OwnFirst /\ Begun /\ WritesCounted
  BY DEF IInv, RInv
<1>1. /\ pc[e] = "loop" /\ inbox[e] # <<>> /\ h.type = "sync"
      /\ inbox' = Take(e) /\ doc' = [doc EXCEPT ![i] = merged]
      /\ peers' = SetLastVV(i, j, delta.vv)
      /\ UNCHANGED <<status, link, cut, pc, sig, used, budget>>
  BY DEF RecvSync, HasFrame, limits
<1>2. i \in Node /\ j \in Node /\ h \in Frame /\ h \in Buffered(e)
  BY <1>0, <1>1, BothBegun, FirstFrame, TakeFrames
<1>3. delta \in Doc
  <2>1. h \in Sync  BY <1>1, <1>2 DEF Frame, Handshake, Ack, Sync
  <2> QED BY <2>1 DEF Sync
<1>4. Leq(delta.vv, doc[j].vv) /\ delta.writes \subseteq doc[j].writes
  BY <1>0, <1>1, <1>2 DEF FramesTruthful, Truthful
<1>5. doc[i] \in Doc  BY <1>0, <1>2 DEF TypeOK
<1>6. /\ Leq(doc[i].vv, merged.vv) /\ doc[i].writes \subseteq merged.writes
      /\ \A n \in Node : merged.vv[n] = doc[i].vv[n] \/ merged.vv[n] = delta.vv[n]
      /\ \A n \in Node : delta.vv[n] <= doc[i].vv[n] => merged.vv[n] = doc[i].vv[n]
      /\ Leq(delta.vv, doc[i].vv) /\ delta.writes \subseteq doc[i].writes => merged = doc[i]
  BY <1>3, <1>5, MergeGrows
<1>7. \A k, n \in Node : doc[k].vv[n] \in Nat /\ doc'[k].vv[n] \in Nat /\ delta.vv[n] \in Nat
  <2>1. \A k \in Node : doc[k] \in Doc /\ doc'[k] \in Doc  BY <1>0 DEF TypeOK
  <2>2. \A k \in Node : doc[k].vv \in VV /\ doc'[k].vv \in VV /\ delta.vv \in VV
    BY <1>3, <2>1 DEF Doc
  <2> QED BY <2>2 DEF VV
<1>8. delta.vv \in VV  BY <1>3 DEF Doc
<1>9. peers \in [Node -> [Node -> PeerHandle \cup {NoPeer}]]  BY <1>0 DEF TypeOK
<1>10. /\ \A x \in End : Content(Take(e)[x]) \subseteq Buffered(x)
       /\ Roomy(Take(e))
  BY <1>0, <1>1, TakeFrames, TakeRoom
<1>11. /\ \A x \in End : \A f \in Buffered(x)' : f \in Buffered(x)
       /\ InRoom'
  BY <1>1, <1>10 DEF Buffered, Roomy, InRoom
<1> HIDE DEF h, delta, merged
<1>12. doc'[i] = merged /\ \A k \in Node \ {i} : doc'[k] = doc[k]  BY <1>0, <1>1, <1>2 DEF TypeOK
<1>13. \A n \in Node : delta.vv[n] <= doc[n].vv[n]
  <2> SUFFICES ASSUME NEW n \in Node  PROVE delta.vv[n] <= doc[n].vv[n]
    OBVIOUS
  <2>1. delta.vv[n] <= doc[j].vv[n]  BY <1>4 DEF Leq
  <2>2. doc[j].vv[n] <= doc[n].vv[n]  BY <1>0, <1>2 DEF OwnFirst
  <2> QED BY <1>2, <1>7, <2>1, <2>2
<1>14. \A n \in Node : doc'[n].vv[n] = doc[n].vv[n]
  BY <1>2, <1>6, <1>12, <1>13
<1>15. FramesTruthful' /\ LastReached' /\ OwnFirst' /\ Begun'
  <2>1. \A k \in Node : Leq(doc[k].vv, doc'[k].vv) /\ doc[k].writes \subseteq doc'[k].writes
    <3>1. ASSUME NEW k \in Node, k # i
          PROVE  Leq(doc[k].vv, doc'[k].vv) /\ doc[k].writes \subseteq doc'[k].writes
      <4>1. doc'[k] = doc[k] /\ \A n \in Node : doc[k].vv[n] <= doc[k].vv[n]  BY <1>7, <1>12, <3>1
      <4> QED BY <4>1 DEF Leq
    <3> QED BY <1>6, <1>12, <3>1
  <2>2. \A k, n \in Node : doc'[k].vv[n] = doc[k].vv[n] \/ doc'[k].vv[n] <= doc'[n].vv[n]
    BY <1>6, <1>12, <1>13, <1>14
  <2>3. \A k, l \in Node : \/ peers'[k][l].lastVV = peers[k][l].lastVV
                           \/ Leq(peers'[k][l].lastVV, doc'[l].vv)
    <3>1. CASE Connected(i, j)
      <4> DEFINE handle == [peers[i][j] EXCEPT !.lastVV = delta.vv]
      <4>1. peers[i][j] \in PeerHandle  BY <1>2, <1>9, <3>1 DEF Connected
      <4>2. handle.lastVV = delta.vv  BY <4>1 DEF PeerHandle
      <4>3. peers' = [peers EXCEPT ![i] = [peers[i] EXCEPT ![j] = handle]]
        BY <1>1, <3>1 DEF SetLastVV
      <4> HIDE DEF handle, i, j
      <4>4. /\ peers'[i][j] = handle
            /\ \A k, l \in Node : k # i \/ l # j => peers'[k][l] = peers[k][l]
        BY <1>2, <1>9, <4>3
      <4>5. Leq(delta.vv, doc'[j].vv)
        <5>1. doc[j] \in Doc /\ doc'[j] \in Doc  BY <1>0, <1>2 DEF TypeOK
        <5>2. doc[j].vv \in VV /\ doc'[j].vv \in VV  BY <5>1 DEF Doc
        <5> QED BY <1>2, <1>4, <1>8, <2>1, <5>2, LeqTransitive
      <4> QED BY <4>2, <4>4, <4>5
    <3>2. CASE ~ Connected(i, j)  BY <1>1, <3>2 DEF SetLastVV
    <3> QED BY <3>1, <3>2
  <2>4. \A x \in End : \A f \in Buffered(x)' :
          (f \in Buffered(x) /\ link'[x[1]] = link[x[1]]) \/ Truthful(x, f)'
    BY <1>1, <1>11
  <2>5. \A x \in End : link'[x[1]] # <<>> => link'[x[1]] = link[x[1]] /\ status'[Local(x)] # "off"
    BY <1>0, <1>1 DEF Begun
  <2>6. \A n \in Node : status'[n] # "off" => status[n] # "off" \/ doc'[n].vv[n] > 0  BY <1>1
  <2> QED BY <2>1, <2>2, <2>3, <2>4, <2>5, <2>6, GrowKeeps
<1>16. WritesCounted'
  <2>1. \A n \in Node : Left(n)' = Left(n)  BY <1>1 DEF Left
  <2>2. Closed' = Closed  BY <1>1 DEF Closed
  <2>3. \A n \in Node : doc'[n].vv[n] + Left(n)' <= 2 + used'.ops + Cardinality(Closed')
    BY <1>0, <1>1, <1>14, <2>1, <2>2 DEF WritesCounted
  <2> QED BY <2>3 DEF WritesCounted
<1>17. RInv'  BY <1>11, <1>15, <1>16 DEF RInv
<1>18. \A x \in End : Local(x)' = Local(x) /\ Remote(x)' = Remote(x) /\ Open(x)' = Open(x)
  BY <1>1 DEF Local, Remote, Open
<1>19. InFlight' \subseteq InFlight
  <2>1. inbox \in [End -> Seq(Frame)] /\ inbox' \in [End -> Seq(Frame)]  BY <1>0 DEF TypeOK, Frame
  <2>2. InFlight' \subseteq InFlight \cup {}  BY <1>1, <1>11, <1>18, <2>1, NoNewSync
  <2> QED BY <2>2
<1>20. R!Lossy({})  BY <1>19 DEF R!Lossy
<1>21. CASE i = j
  <2>1. merged = doc[i]  BY <1>4, <1>6, <1>21
  <2>2. doc' = doc  BY <1>0, <1>1, <1>2, <2>1 DEF TypeOK
  <2> QED BY <1>17, <1>20, <2>2 DEF R!Next, R!Lose
<1>22. CASE i # j
  <2> DEFINE m == [from |-> j, to |-> i, delta |-> delta]
  <2>1. m \in InFlight
    <3>1. inbox[e] \in Seq(Frame) /\ Open(e)  BY <1>0, <1>1 DEF TypeOK, Frame, Open
    <3>2. PICK n \in 1 .. Len(inbox[e]) : inbox[e][n] = h  BY <1>2 DEF Buffered, Content
    <3>3. n \in DOMAIN inbox[e] /\ inbox[e][n].type = "sync" /\ inbox[e][n].delta = delta
      BY <1>1, <3>1, <3>2 DEF delta
    <3> QED BY <1>22, <3>1, <3>3 DEF InFlight
  <2>2. m.to = i /\ m.delta = delta  OBVIOUS
  <2>3. R!MergeRemote(doc[i], delta) = merged  BY ROperators DEF merged
  <2> HIDE DEF m, i, j
  <2>4. doc' = [doc EXCEPT ![m.to] = R!MergeRemote(doc[m.to], m.delta)]  BY <1>1, <2>2, <2>3
  <2>5. R!Deliver(m)  BY <1>20, <2>1, <2>4 DEF R!Deliver
  <2> QED BY <1>17, <2>1, <2>5 DEF R!Next
<1> QED BY <1>21, <1>22

\* The cleanup of an end is one more closed end, and one removal.
LEMMA CleanupSim ==
  ASSUME IInv, RInv, TypeOK', NEW e \in End, Cleanup(e)
  PROVE  RInv' /\ R!Next
<1> DEFINE i == Local(e)
           j == Remote(e)
           less == RemoveNode(doc[i], i, j)
<1>0. TypeOK /\ InRoom /\ WritesCounted /\ Begun  BY DEF IInv, RInv
<1>1. /\ pc[e] = "cleanup" /\ peers' = [peers EXCEPT ![i][j] = NoPeer]
      /\ doc' = [doc EXCEPT ![i] = less]
      /\ Close({e})
      /\ UNCHANGED <<status, link, cut, used, budget>>
  BY DEF Cleanup, limits
<1>2. i \in Node /\ j \in Node /\ link[e[1]] # <<>> /\ R!Started(i) /\ R!Started(j)  BY <1>1, BothBegun
<1>3. doc[i] \in Doc /\ status[i] # "off"  BY <1>0, <1>2 DEF TypeOK, Begun
<1>4. Written(doc[i], i, less)  BY <1>2, <1>3, MutatorsGrow
<1>5. /\ \A x \in End : pc'[x] = IF x \in {e} THEN "closed" ELSE pc[x]
      /\ \A x \in End : \A f \in Buffered(x)' : f \in Buffered(x)
      /\ InRoom'
  BY <1>0, <1>1, CloseFrames, CloseRoom
<1>6. Cardinality(Closed') = Cardinality(Closed) + 1  BY <1>1, <1>5, ClosedGrows
<1>7. R!RemoveNode(doc[i], i, j) = less  BY ROperators
<1>8. \A x \in End : pc[x] = "closed" => pc'[x] = "closed"  BY <1>5
<1>9. \A k, l \in Node : peers'[k][l].lastVV = peers[k][l].lastVV \/ peers'[k][l].lastVV = ZeroVV
  <2>1. peers \in [Node -> [Node -> PeerHandle \cup {NoPeer}]] /\ NoPeer.lastVV = ZeroVV
    BY <1>0 DEF TypeOK, NoPeer
  <2> HIDE DEF i, j
  <2>2. /\ peers'[i][j] = NoPeer
        /\ \A k, l \in Node : k # i \/ l # j => peers'[k][l] = peers[k][l]
    BY <1>1, <1>2, <2>1
  <2> QED BY <2>1, <2>2
<1> HIDE DEF less
<1>10. used.ops \in Nat /\ used.ops <= MaxOps /\ MaxOps \in Nat
  <2>1. /\ used.ops \in Nat /\ budget.ops \in Nat /\ MaxOps \in Nat
        /\ used.ops <= budget.ops /\ budget.ops <= MaxOps
    BY <1>0, OpsBound
  <2> QED BY <2>1
<1>11. RInv'
  <2> PICK k \in Node : k = i  BY <1>2
  <2>1. Left(k)' = Left(k) /\ Left(k) \in Nat  BY <1>1 DEF Left
  <2>2. used'.ops = used.ops /\ used.ops <= used'.ops  BY <1>1, <1>10
  <2>3. Left(k)' + 1 + used.ops + Cardinality(Closed) <= Left(k) + used'.ops + Cardinality(Closed')
    <3>1. Cardinality(Closed) \in Nat  BY ClosedCount
    <3> QED BY <1>6, <1>10, <2>1, <2>2, <3>1
  <2>4. status'[k] # "off" /\ \A n \in Node \ {k} : status'[n] = status[n]  BY <1>1, <1>3
  <2>5. doc' = [doc EXCEPT ![k] = less] /\ Written(doc[k], k, less)  BY <1>1, <1>4
  <2> QED BY <1>1, <1>5, <1>8, <1>9, <2>2, <2>3, <2>4, <2>5, WriteStep
<1>12. R!CanWrite(i)
  <2>1. doc[i].vv[i] \in Nat
    <3>1. doc[i].vv \in VV  BY <1>3 DEF Doc
    <3> QED BY <1>2, <3>1 DEF VV
  <2>2. doc[i].vv[i] + Left(i) <= 2 + used.ops + Cardinality(Closed)  BY <1>0, <1>2 DEF WritesCounted
  <2>3. /\ Cardinality(Closed) + 1 <= Cardinality(End)
        /\ Cardinality(Closed) \in Nat /\ Cardinality(End) \in Nat
    BY <1>1, ClosedCount, EndIsFinite
  <2>4. Left(i) \in Nat  BY DEF Left
  <2>5. doc[i].vv[i] < 2 + MaxOps + Cardinality(End)  BY <1>10, <2>1, <2>2, <2>3, <2>4
  <2> QED BY <1>2, <2>5 DEF R!CanWrite
<1>13. R!Lossy({})
  <2>1. inbox \in [End -> Seq(Frame)] /\ inbox' \in [End -> Seq(Frame)]  BY <1>0 DEF TypeOK, Frame
  <2>2. \A x \in End : Open(x)' => Open(x)  BY <1>1, <1>5 DEF Open
  <2>3. InFlight' \subseteq InFlight \cup {}  BY <1>1, <1>5, <2>1, <2>2, NoNewSync
  <2> QED BY <2>3 DEF R!Lossy
<1> HIDE DEF i, j
<1>14. R!Remove(i, j)  BY <1>1, <1>2, <1>7, <1>12, <1>13 DEF R!Remove
<1> QED BY <1>2, <1>11, <1>14 DEF R!Next

-------------------------------------------------------------------------------
(***************************************************************************)
(* The steps of a daemon, of operators and of the network                  *)
(***************************************************************************)

\* A daemon that will write once more, or that has an operation to spend, may write.
LEMMA MayWrite ==
  ASSUME TypeOK, WritesCounted, NEW i \in Node, Left(i) > 0 \/ used.ops < budget.ops
  PROVE  R!CanWrite(i)
<1>1. doc[i].vv[i] \in Nat
  <2>1. doc[i] \in Doc  BY DEF TypeOK
  <2>2. doc[i].vv \in VV  BY <2>1 DEF Doc
  <2> QED BY <2>2 DEF VV
<1>2. doc[i].vv[i] + Left(i) <= 2 + used.ops + Cardinality(Closed) /\ Left(i) \in Nat
  BY DEF WritesCounted, Left
<1>3. /\ Cardinality(Closed) <= Cardinality(End)
      /\ Cardinality(Closed) \in Nat /\ Cardinality(End) \in Nat
  BY ClosedCount, EndIsFinite
<1>4. doc[i].vv[i] < 2 + MaxOps + Cardinality(End)  BY <1>1, <1>2, <1>3, OpsBound
<1> QED BY <1>4 DEF R!CanWrite

\* A daemon writes while its connections do nothing.
LEMMA DaemonWriteStep ==
  ASSUME IInv, RInv, TypeOK', NEW i \in Node, NEW c, doc' = [doc EXCEPT ![i] = c],
         Written(doc[i], i, c), UNCHANGED <<peers, link, pc, inbox>>,
         \A n \in Node \ {i} : status'[n] = status[n], status'[i] # "off",
         used.ops <= used'.ops, Left(i)' + 1 + used.ops <= Left(i) + used'.ops
  PROVE  RInv' /\ InFlight' = InFlight
<1>0. TypeOK /\ InRoom  BY DEF IInv, RInv
<1>1. InRoom' /\ \A x \in End : \A f \in Buffered(x)' : f \in Buffered(x)
  BY <1>0 DEF InRoom, Buffered
<1>2. Closed' = Closed /\ Cardinality(Closed) \in Nat  BY ClosedCount DEF Closed
<1>3. Left(i)' + 1 + used.ops + Cardinality(Closed) <= Left(i) + used'.ops + Cardinality(Closed')
  <2>1. used.ops \in Nat  BY <1>0, OpsBound
  <2>2. used'.ops \in Nat
    <3>1. budget'.ops \in Nat  BY SessionAssumption DEF TypeOK
    <3>2. used'.ops \in 0 .. budget'.ops  BY DEF TypeOK
    <3> QED BY <3>1, <3>2
  <2>3. Left(i) \in Nat /\ Left(i)' \in Nat  BY DEF Left
  <2>4. Cardinality(Closed') = Cardinality(Closed)  BY <1>2
  <2> QED BY <1>2, <2>1, <2>2, <2>3, <2>4
<1>4. RInv'  BY <1>1, <1>3, WriteStep
<1>5. InFlight' = InFlight  BY DEF InFlight, Open, Local, Remote
<1> QED BY <1>4, <1>5

LEMMA StartSim ==
  ASSUME IInv, RInv, TypeOK', NEW i \in Node, Start(i)
  PROVE  RInv' /\ R!Next
<1>0. TypeOK /\ WritesCounted /\ doc[i] = NewDoc  BY DEF IInv, RInv, Alive, Start
<1>1. /\ status[i] = "off" /\ status' = [status EXCEPT ![i] = "running"]
      /\ doc' = [doc EXCEPT ![i] = AddNode(doc[i], i)]
      /\ UNCHANGED <<peers, link, cut, pc, inbox, sig, used, budget>>
  BY DEF Start, taskVars, limits
<1>2. Written(doc[i], i, AddNode(doc[i], i))  BY <1>0, DeltaTypes, MutatorsGrow
<1>3. status'[i] = "running" /\ \A n \in Node \ {i} : status'[n] = status[n]
  BY <1>0, <1>1 DEF TypeOK
<1>4. Left(i) = 2 /\ Left(i)' = 1  BY <1>1, <1>3 DEF Left
<1>5. RInv' /\ InFlight' = InFlight
  <2>1. used'.ops = used.ops /\ used.ops \in Nat  BY <1>0, <1>1, OpsBound
  <2>2. used.ops <= used'.ops /\ Left(i)' + 1 + used.ops <= Left(i) + used'.ops  BY <1>4, <2>1
  <2> QED BY <1>1, <1>2, <1>3, <2>2, DaemonWriteStep
<1>6. ~ R!Started(i)
  <2>1. doc[i].vv[i] = 0  BY <1>0 DEF NewDoc, ZeroVV
  <2> QED BY <2>1 DEF R!Started
<1>7. R!CanWrite(i)  BY <1>0, <1>4, MayWrite
<1>8. R!Start(i)  BY <1>1, <1>5, <1>6, <1>7, ROperators DEF R!Start
<1> QED BY <1>5, <1>8 DEF R!Next

LEMMA ServiceOpSim ==
  ASSUME IInv, RInv, TypeOK', NEW i \in Node, NEW s \in Service, ServiceOp(i, s)
  PROVE  RInv' /\ R!Next
<1>0. TypeOK /\ WritesCounted /\ Begun /\ doc[i] \in Doc  BY DEF IInv, RInv, TypeOK
<1>1. PICK d \in {RegisterService(doc[i], i, s), UnregisterService(doc[i], i, s)} :
            doc' = [doc EXCEPT ![i] = d]
  BY DEF ServiceOp
<1>2. /\ Up(i) /\ UNCHANGED <<status, view, peers, link, cut, pc, inbox, sig>>
      /\ Spend("ops")
  BY DEF ServiceOp, taskVars
<1>3. Written(doc[i], i, d)  BY <1>0, <1>1, MutatorsGrow
<1>4. used.ops < budget.ops /\ used'.ops = used.ops + 1  BY <1>0, <1>2 DEF Spend, TypeOK
<1>5. status[i] # "off" /\ status'[i] # "off"  BY <1>2 DEF Up
<1>6. RInv' /\ InFlight' = InFlight
  <2>1. Left(i) \in Nat /\ Left(i)' = Left(i)  BY <1>2 DEF Left
  <2>2. used.ops <= used'.ops /\ Left(i)' + 1 + used.ops <= Left(i) + used'.ops
    BY <1>0, <1>4, <2>1, OpsBound
  <2> QED BY <1>1, <1>2, <1>3, <1>5, <2>2, DaemonWriteStep
<1>7. R!Started(i)  BY <1>0, <1>5 DEF Begun, R!Started
<1>8. R!CanWrite(i)  BY <1>0, <1>4, MayWrite
<1>9. CASE d = RegisterService(doc[i], i, s)
  <2>1. R!Register(i, s)  BY <1>1, <1>6, <1>7, <1>8, <1>9, ROperators DEF R!Register
  <2> QED BY <1>6, <2>1 DEF R!Next
<1>10. CASE d = UnregisterService(doc[i], i, s)
  <2>1. R!Unregister(i, s)  BY <1>1, <1>6, <1>7, <1>8, <1>10, ROperators DEF R!Unregister
  <2> QED BY <1>6, <2>1 DEF R!Next
<1> QED BY <1>1, <1>9, <1>10

LEMMA ShutdownSim ==
  ASSUME IInv, RInv, TypeOK', NEW i \in Node, BeginShutdown(i) \/ Cancel(i)
  PROVE  RInv' /\ R!Next
<1>0. TypeOK /\ InRoom /\ WritesCounted /\ Begun /\ doc[i] \in Doc  BY DEF IInv, RInv, TypeOK
<1>1. CASE BeginShutdown(i)
  <2>1. /\ status[i] = "running" /\ status' = [status EXCEPT ![i] = "draining"]
        /\ doc' = [doc EXCEPT ![i] = RemoveNode(doc[i], i, i)]
        /\ UNCHANGED <<view, peers, link, cut, pc, inbox, used, budget>>
    BY <1>1 DEF BeginShutdown, limits
  <2>2. Written(doc[i], i, RemoveNode(doc[i], i, i))  BY <1>0, MutatorsGrow
  <2>3. status'[i] = "draining" /\ \A n \in Node \ {i} : status'[n] = status[n]
    BY <1>0, <2>1 DEF TypeOK
  <2>4. Left(i) = 1 /\ Left(i)' = 0  BY <2>1, <2>3 DEF Left
  <2>5. RInv' /\ InFlight' = InFlight
    <3>1. used'.ops = used.ops /\ used.ops \in Nat  BY <1>0, <2>1, OpsBound
    <3>2. used.ops <= used'.ops /\ Left(i)' + 1 + used.ops <= Left(i) + used'.ops  BY <2>4, <3>1
    <3> QED BY <2>1, <2>2, <2>3, <3>2, DaemonWriteStep
  <2>6. R!Started(i)  BY <1>0, <2>1 DEF Begun, R!Started
  <2>7. R!CanWrite(i)  BY <1>0, <2>4, MayWrite
  <2>8. R!Remove(i, i)  BY <2>1, <2>5, <2>6, <2>7, ROperators DEF R!Remove, R!Lossy
  <2> QED BY <2>5, <2>8 DEF R!Next
<1>2. CASE Cancel(i)
  <2>1. /\ status[i] = "draining" /\ status' = [status EXCEPT ![i] = "cancelled"]
        /\ UNCHANGED <<doc, view, peers, link, cut, pc, inbox, sig, used, budget>>
    BY <1>2 DEF Cancel, taskVars, limits
  <2>2. status'[i] = "cancelled" /\ \A n \in Node \ {i} : status'[n] = status[n]
    BY <1>0, <2>1 DEF TypeOK
  <2>3. InRoom' /\ \A x \in End : \A f \in Buffered(x)' : f \in Buffered(x)
    BY <1>0, <2>1 DEF InRoom, Buffered
  <2>4. /\ \A x \in End : Open(x)' => Open(x)
        /\ \A x \in End : pc[x] = "closed" => pc'[x] = "closed"
    BY <2>1 DEF Open
  <2> QED BY <1>0, <2>1, <2>2, <2>3, <2>4, QuietStep, QuietSim
<1> QED BY <1>1, <1>2

LEMMA ProcessEndsSim ==
  ASSUME IInv, RInv, TypeOK', NEW i \in Node, Exit(i) \/ Crash(i)
  PROVE  RInv' /\ R!Next
<1> DEFINE mine == {e \in End : link[e[1]] # <<>> /\ Local(e) = i}
<1>0. TypeOK /\ InRoom /\ Wired  BY DEF IInv, RInv
<1>1. /\ status[i] # "off" /\ status' = [status EXCEPT ![i] = "exited"]
      /\ peers' = [peers EXCEPT ![i] = [j \in Node |-> NoPeer]]
      /\ Close(mine) /\ UNCHANGED <<doc, view, link, cut>>
      /\ UNCHANGED <<used, budget>> \/ Spend("faults")
  BY DEF Exit, Crash, ProcessEnds, Up, limits
<1>2. used'.ops = used.ops  BY <1>0, <1>1 DEF Spend, TypeOK
<1>3. mine \in SUBSET End /\ \A x \in mine : link[x[1]] # <<>>  OBVIOUS
<1> HIDE DEF mine
<1>4. /\ \A x \in End : pc'[x] = IF x \in mine THEN "closed" ELSE pc[x]
      /\ \A x \in End : \A f \in Buffered(x)' : f \in Buffered(x)
      /\ InRoom'
  BY <1>0, <1>1, <1>3, CloseFrames, CloseRoom
<1>5. /\ \A x \in End : Open(x)' => Open(x)
      /\ \A x \in End : pc[x] = "closed" => pc'[x] = "closed"
  BY <1>4 DEF Open
<1>6. \A n \in Node : \/ status'[n] = status[n]
                      \/ status[n] # "off" /\ status'[n] \notin {"off", "running"}
  BY <1>0, <1>1 DEF TypeOK
<1>7. \A k, l \in Node : \/ peers'[k][l].lastVV = peers[k][l].lastVV
                         \/ Leq(peers'[k][l].lastVV, doc[l].vv)
  <2>1. \A k, l \in Node : peers'[k][l] = peers[k][l] \/ peers'[k][l] = NoPeer
    BY <1>0, <1>1 DEF TypeOK
  <2>2. \A l \in Node : doc[l].vv \in VV  BY <1>0 DEF TypeOK, Doc
  <2>3. \A l \in Node : Leq(NoPeer.lastVV, doc[l].vv)  BY <2>2, ZeroReached DEF NoPeer
  <2> QED BY <2>1, <2>3
<1> QED BY <1>0, <1>1, <1>2, <1>4, <1>5, <1>6, <1>7, QuietStep, QuietSim

\* Handles, signals, cut connections and spent faults and leaves are all that changes.
LEMMA NothingElseSim ==
  ASSUME IInv, RInv, TypeOK', UNCHANGED <<doc, status, link, pc, inbox>>,
         used'.ops = used.ops,
         \A k, l \in Node : peers'[k][l] = peers[k][l] \/ peers'[k][l] = NoPeer
  PROVE  RInv' /\ R!Next
<1>0. TypeOK /\ InRoom  BY DEF IInv, RInv
<1>1. InRoom' /\ \A x \in End : \A f \in Buffered(x)' : f \in Buffered(x)
  BY <1>0 DEF InRoom, Buffered
<1>2. /\ \A x \in End : Open(x)' => Open(x)
      /\ \A x \in End : pc[x] = "closed" => pc'[x] = "closed"
  BY DEF Open
<1>3. \A k, l \in Node : \/ peers'[k][l].lastVV = peers[k][l].lastVV
                         \/ Leq(peers'[k][l].lastVV, doc[l].vv)
  <2>1. \A l \in Node : doc[l].vv \in VV  BY <1>0 DEF TypeOK, Doc
  <2>2. \A l \in Node : Leq(NoPeer.lastVV, doc[l].vv)  BY <2>1, ZeroReached DEF NoPeer
  <2> QED BY <2>2
<1> QED BY <1>0, <1>1, <1>2, <1>3, QuietStep, QuietSim

LEMMA OperatorSim ==
  ASSUME IInv, RInv, TypeOK',
         \/ \E i, j \in Node : Leave(i, j) \/ GossipTick(i, j)
         \/ \E c \in Conn : Break(c)
  PROVE  RInv' /\ R!Next
<1>0. TypeOK  BY DEF IInv
<1>1. ASSUME NEW i \in Node, NEW j \in Node, Leave(i, j)  PROVE RInv' /\ R!Next
  <2>1. /\ Spend("leaves") /\ peers' = [peers EXCEPT ![i][j] = NoPeer]
        /\ UNCHANGED <<doc, status, view, link, cut, pc, inbox, sig>>
    BY <1>1 DEF Leave, taskVars
  <2>2. used'.ops = used.ops  BY <1>0, <2>1 DEF Spend, TypeOK
  <2>3. \A k, l \in Node : peers'[k][l] = peers[k][l] \/ peers'[k][l] = NoPeer
    BY <1>0, <2>1 DEF TypeOK
  <2> QED BY <2>1, <2>2, <2>3, NothingElseSim
<1>2. ASSUME NEW i \in Node, NEW j \in Node, GossipTick(i, j)  PROVE RInv' /\ R!Next
  <2>1. UNCHANGED <<doc, status, view, peers, link, cut, pc, inbox, used, budget>>
    BY <1>2 DEF GossipTick, limits
  <2> QED BY <2>1, NothingElseSim
<1>3. ASSUME NEW c \in Conn, Break(c)  PROVE RInv' /\ R!Next
  <2>1. Spend("faults") /\ UNCHANGED <<doc, status, view, peers, link, pc, inbox, sig>>
    BY <1>3 DEF Break, taskVars
  <2>2. used'.ops = used.ops  BY <1>0, <2>1 DEF Spend, TypeOK
  <2> QED BY <2>1, <2>2, NothingElseSim
<1> QED BY <1>1, <1>2, <1>3

\* A Handshake is no sync, and nothing was buffered on the unused connection.
LEMMA DialSim ==
  ASSUME IInv, RInv, TypeOK', NEW i \in Node, NEW j \in Node, NEW c \in Conn, Dial(i, j, c)
  PROVE  RInv' /\ R!Next
<1> DEFINE a == <<c, "init">>
           b == <<c, "resp">>
           hs == [type |-> "handshake", from |-> i]
<1>0. TypeOK /\ Wired /\ Frames /\ InRoom /\ Begun /\ WritesCounted  BY DEF IInv, RInv
<1>1. /\ status[i] = "running" /\ status[j] # "off" /\ link[c] = <<>>
      /\ link' = [link EXCEPT ![c] = <<i, j>>]
      /\ pc' = [pc EXCEPT ![a] = "hello", ![b] = "hello"]
      /\ inbox' = [inbox EXCEPT ![b] = <<hs>>]
      /\ UNCHANGED <<doc, status, view, peers, cut, sig, used, budget>>
  BY DEF Dial, Listening, limits
<1>2. a \in End /\ b \in End /\ a[1] = c /\ b[1] = c /\ \A x \in End : x[1] = c => x = a \/ x = b
  BY DEF End
<1>3. hs.type = "handshake" /\ Len(<<hs>>) = 1 /\ <<hs>>[1] = hs  OBVIOUS
<1>4. Content(<<hs>>) = {hs}
  <2>1. \A k \in 1 .. 1 : k = 1  OBVIOUS
  <2> QED BY <1>3, <2>1 DEF Content
<1> HIDE DEF hs
<1>5. link'[c] = <<i, j>> /\ \A d \in Conn \ {c} : link'[d] = link[d]  BY <1>0, <1>1 DEF TypeOK
<1>6. \A x \in End : x[1] = c => Local(x)' \in {i, j}
  <2>1. link'[c][1] = i /\ link'[c][2] = j  BY <1>5
  <2> QED BY <2>1 DEF Local
<1> HIDE DEF a, b
<1>7. inbox'[b] = <<hs>> /\ \A x \in End \ {b} : inbox'[x] = inbox[x]
  BY <1>0, <1>1, <1>2 DEF TypeOK
<1>8. /\ pc'[a] = "hello" /\ pc'[b] = "hello"
      /\ \A x \in End : x # a /\ x # b => pc'[x] = pc[x]
  BY <1>0, <1>1, <1>2 DEF TypeOK
<1>9. pc[a] = "free" /\ pc[b] = "free"  BY <1>0, <1>1, <1>2 DEF Wired
<1>10. \A x \in End : \A f \in Buffered(x)' :
         \/ f.type = "handshake"
         \/ f \in Buffered(x) /\ x[1] # c
  <2> SUFFICES ASSUME NEW x \in End, NEW f \in Buffered(x)', x # b
               PROVE  f \in Buffered(x) /\ x[1] # c
    BY <1>3, <1>4, <1>7 DEF Buffered
  <2>1. f \in Buffered(x)  BY <1>7 DEF Buffered
  <2>2. link[x[1]] # <<>>  BY <1>0, <2>1 DEF Frames, Good
  <2> QED BY <1>1, <2>1, <2>2
<1>11. \A x \in End : x[1] # c => link'[x[1]] = link[x[1]]  BY <1>5, Ends
<1>12. FramesTruthful' /\ LastReached' /\ OwnFirst' /\ Begun'
  <2>1. \A k \in Node : Leq(doc[k].vv, doc'[k].vv) /\ doc[k].writes \subseteq doc'[k].writes
    <3>1. \A k \in Node : doc[k] \in Doc  BY <1>0 DEF TypeOK
    <3>2. \A k \in Node : doc[k].vv \in [Node -> Nat]  BY <3>1 DEF Doc, VV
    <3>3. \A k, n \in Node : doc[k].vv[n] \in Nat  BY <3>2
    <3>4. \A k, n \in Node : doc[k].vv[n] <= doc[k].vv[n]  BY <3>3
    <3> QED BY <1>1, <3>4 DEF Leq
  <2>2. \A x \in End : \A f \in Buffered(x)' :
          (f \in Buffered(x) /\ link'[x[1]] = link[x[1]]) \/ Truthful(x, f)'
    <3>1. \A x \in End : \A f : f.type = "handshake" => Truthful(x, f)'  BY DEF Truthful
    <3> QED BY <1>10, <1>11, <3>1
  <2>3. \A x \in End : link'[x[1]] # <<>> =>
          \/ link'[x[1]] = link[x[1]] /\ status'[Local(x)] # "off"
          \/ status'[Local(x)'] # "off"
    <3> SUFFICES ASSUME NEW x \in End, link'[x[1]] # <<>>
                 PROVE  \/ link'[x[1]] = link[x[1]] /\ status'[Local(x)] # "off"
                        \/ status'[Local(x)'] # "off"
      OBVIOUS
    <3>1. CASE x[1] = c  BY <1>1, <1>6, <3>1
    <3>2. CASE x[1] # c  BY <1>0, <1>1, <1>11, <3>2 DEF Begun
    <3> QED BY <3>1, <3>2
  <2>4. \A n \in Node : status'[n] # "off" => status[n] # "off" \/ doc'[n].vv[n] > 0  BY <1>1
  <2>5. /\ \A k, n \in Node : doc'[k].vv[n] = doc[k].vv[n] \/ doc'[k].vv[n] <= doc'[n].vv[n]
        /\ \A k, l \in Node : \/ peers'[k][l].lastVV = peers[k][l].lastVV
                              \/ Leq(peers'[k][l].lastVV, doc'[l].vv)
    BY <1>1
  <2> QED BY <2>1, <2>2, <2>3, <2>4, <2>5, GrowKeeps
<1>13. InRoom'
  <2> SUFFICES ASSUME NEW x \in End, NEW k \in 1 .. Len(inbox'[x]), inbox'[x][k].type = "sync"
               PROVE  k <= MaxInbox
    BY DEF InRoom
  <2>1. CASE x = b
    <3>1. inbox'[x][k] \in Content(<<hs>>)  BY <1>7, <2>1 DEF Content
    <3> QED BY <1>3, <1>4, <3>1
  <2>2. CASE x # b  BY <1>0, <1>7, <2>2 DEF InRoom
  <2> QED BY <2>1, <2>2
<1>14. WritesCounted'
  <2>1. \A n \in Node : Left(n)' = Left(n)  BY <1>1 DEF Left
  <2>2. Closed' = Closed
    <3>1. \A x \in End : pc'[x] = "closed" <=> pc[x] = "closed"  BY <1>8, <1>9
    <3> QED BY <3>1 DEF Closed
  <2>3. \A n \in Node : doc'[n].vv[n] + Left(n)' <= 2 + used'.ops + Cardinality(Closed')
    BY <1>0, <1>1, <2>1, <2>2 DEF WritesCounted
  <2> QED BY <2>3 DEF WritesCounted
<1>15. RInv'  BY <1>12, <1>13, <1>14 DEF RInv
<1>16. R!Lose
  <2>1. inbox \in [End -> Seq(Frame)] /\ inbox' \in [End -> Seq(Frame)]  BY <1>0 DEF TypeOK, Frame
  <2>2. \A x \in End : Open(x)' /\ x[1] # c => Open(x)  BY <1>2, <1>8 DEF Open
  <2>3. InFlight' \subseteq InFlight \cup {}  BY <1>10, <1>11, <2>1, <2>2, NoNewSync
  <2> QED BY <1>1, <2>3 DEF R!Lose, R!Lossy
<1> QED BY <1>15, <1>16 DEF R!Next

-------------------------------------------------------------------------------
(***************************************************************************)
(* The refinement                                                          *)
(***************************************************************************)

LEMMA InitSim == Init => RInv /\ R!Init
<1> SUFFICES ASSUME Init  PROVE RInv /\ R!Init
  OBVIOUS
<1>1. \A e \in End : /\ inbox[e] = <<>> /\ Buffered(e) = {} /\ link[e[1]] = <<>>
                     /\ pc[e] = "free"
  BY Ends, ContentEmpty DEF Init, Buffered
<1>2. \A i, n \in Node : doc[i].vv = ZeroVV /\ doc[i].vv[n] = 0  BY DEF Init, NewDoc, ZeroVV
<1>3. ZeroVV \in VV  BY DeltaTypes
<1>4. FramesTruthful /\ OwnFirst  BY <1>1, <1>2 DEF FramesTruthful, OwnFirst
<1>5. LastReached
  <2>1. \A i, j \in Node : peers[i][j] = NoPeer  BY DEF Init
  <2> QED BY <1>2, <1>3, <2>1, ZeroReached DEF LastReached, NoPeer
<1>6. Begun  BY <1>1 DEF Begun, Init
<1>7. InRoom
  <2>1. \A e \in End : Len(inbox[e]) = 0  BY <1>1
  <2> QED BY <2>1 DEF InRoom
<1>8. WritesCounted
  <2> SUFFICES ASSUME NEW n \in Node
               PROVE  doc[n].vv[n] + Left(n) <= 2 + used.ops + Cardinality(Closed)
    BY DEF WritesCounted
  <2>1. Left(n) = 2 /\ doc[n].vv[n] = 0  BY <1>2 DEF Left, Init
  <2>2. used.ops = 0  BY DEF Init
  <2>3. 0 + 2 <= 2 + 0 + Cardinality(Closed)  BY ClosedCount
  <2> QED BY <2>1, <2>2, <2>3
<1>9. InFlight = {}
  <2>1. \A e \in End : ~ Open(e)  BY <1>1 DEF Open
  <2> QED BY <2>1 DEF InFlight
<1>10. R!Init  BY <1>9, ROperators DEF Init, R!Init
<1> QED BY <1>4, <1>5, <1>6, <1>7, <1>8, <1>10 DEF RInv

LEMMA StepSim == IInv /\ RInv /\ [Next]_vars => RInv' /\ [R!Next]_(R!vars)
<1> SUFFICES ASSUME IInv, RInv, [Next]_vars  PROVE RInv' /\ [R!Next]_(R!vars)
  OBVIOUS
<1>0. TypeOK'  BY StepInv DEF IInv
<1>1. CASE UNCHANGED vars
  <2>1. UNCHANGED <<doc, status, view, peers, link, cut, pc, inbox, sig, used, budget>>
    BY <1>1 DEF vars, limits
  <2> QED BY <1>0, <2>1, NothingElseSim
<1>2. ASSUME NEW i \in Node, DaemonStep(i)  PROVE RInv' /\ R!Next
  BY <1>0, <1>2, StartSim, ServiceOpSim, ShutdownSim, ProcessEndsSim, OperatorSim DEF DaemonStep
<1>3. ASSUME NEW e \in End, Session(e) \/ Suspect(e)  PROVE RInv' /\ R!Next
  BY <1>0, <1>3, HelloEndsSim, LoopEndsSim, SendInitialSim, SendDeltaSim, RecvHandshakeSim, RecvAckSim,
     RecvSyncSim, CleanupSim
     DEF Session, Straight
<1>4. ASSUME Next  PROVE RInv' /\ R!Next
  BY <1>0, <1>2, <1>3, <1>4, DialSim, OperatorSim DEF Next
<1> QED BY <1>1, <1>4

\* Whatever the daemons, the operators and the network do, every step of a session
\* is one that Replication allows: a delta is computed against a vector its receiver
\* has reached, even when the handle it is taken from belongs to a later session,
\* and a merge applies a delta that was sent.
THEOREM RefinementTheorem == Spec => Refinement
<1>1. Init => RInv /\ R!Init  BY InitSim
<1>2. IInv /\ RInv /\ [Next]_vars => RInv' /\ [R!Next]_(R!vars)  BY StepSim
<1> QED BY <1>1, <1>2, Invariance, PTL DEF Spec, Refinement, R!Spec

-------------------------------------------------------------------------------
(***************************************************************************)
(* What Replication promises, for the documents of sessions                *)
(***************************************************************************)

RP == INSTANCE ReplicationProofs
        WITH msgs      <- InFlight,
             MaxWrites <- [n \in Node |-> 2 + MaxOps + Cardinality(End)],
             MaxMsgs   <- 1 + MaxInbox * Cardinality(End)

LEMMA RPAssumptions == RP!BoundsAssumption /\ RP!RankAssumption /\ RP!ServiceAssumption
<1>1. MaxOps \in Nat /\ Cardinality(End) \in Nat /\ MaxInbox \in Nat
  BY MaxOpsIs, EndIsFinite, SessionAssumption
<1>2. 2 + MaxOps + Cardinality(End) \in Nat /\ 1 + MaxInbox * Cardinality(End) \in Nat  BY <1>1
<1>3. RP!BoundsAssumption  BY <1>2 DEF RP!BoundsAssumption
<1> QED BY <1>3, RankAssumption, ServiceAssumption DEF RP!RankAssumption, RP!ServiceAssumption

\* R and RP are two instances of one specification.
LEMMA SameInit == R!Init => RP!Init
  BY DEF R!Init, RP!Init, R!NewDoc, RP!NewDoc, R!ZeroVV, RP!ZeroVV

LEMMA SameNext == [R!Next]_(R!vars) => [RP!Next]_(RP!vars)
<1>1. R!Next => RP!Next
  BY DEF R!Next, R!Lose, R!Lossy, R!Send, R!Deliver, R!Start, R!Register, R!Unregister, R!Remove,
         R!ReachedVVs, R!Started, R!CanWrite, R!Leq, R!AddNode, R!RemoveNode, R!RegisterService,
         R!UnregisterService, R!MergeRemote, R!MergeDelta, R!JoinVV, R!DeltaForPeer, R!DeltaSince,
         R!SetPaths, R!RemovePath, R!Commit, R!NodePath, R!SvcPath, R!NodeServices, R!Materialize,
         R!Winners, R!Live, R!Supersedes, R!Cardinality,
         RP!Next, RP!Lose, RP!Lossy, RP!Send, RP!Deliver, RP!Start, RP!Register, RP!Unregister, RP!Remove,
         RP!ReachedVVs, RP!Started, RP!CanWrite, RP!Leq, RP!AddNode, RP!RemoveNode, RP!RegisterService,
         RP!UnregisterService, RP!MergeRemote, RP!MergeDelta, RP!JoinVV, RP!DeltaForPeer, RP!DeltaSince,
         RP!SetPaths, RP!RemovePath, RP!Commit, RP!NodePath, RP!SvcPath, RP!NodeServices, RP!Materialize,
         RP!Winners, RP!Live, RP!Supersedes, RP!Cardinality
<1>2. UNCHANGED R!vars => UNCHANGED RP!vars  BY DEF R!vars, RP!vars
<1> QED BY <1>1, <1>2

LEMMA SameSpec == Spec => RP!Spec
  BY SameInit, SameNext, RefinementTheorem, PTL DEF Refinement, R!Spec, RP!Spec

\* A daemon's version vector never claims a write its document lacks, whatever
\* happens to its connections: last_vv of a handle that another session inserted,
\* an Ack that a Cleanup overtook or a delta lost with its connection cost nothing.
THEOREM SessionNoGapTheorem == Spec => []R!NoGap
<1>1. RP!NoGap => R!NoGap  BY DEF R!NoGap, RP!NoGap
<1>2. RP!BoundsAssumption /\ RP!RankAssumption /\ RP!ServiceAssumption  BY RPAssumptions
<1>3. RP!Spec => []RP!NoGap  BY <1>2, RP!NoGapTheorem, PTL
<1> QED BY <1>1, <1>3, SameSpec, PTL

\* Daemons whose sessions have brought them the same version vector list the same
\* members and answer every lookup alike.
THEOREM SessionConvergenceTheorem == Spec => []R!Convergence
<1>1. RP!Convergence => R!Convergence
  BY DEF R!Convergence, R!Members, R!IsMember, R!LookupService, R!NodePath, R!SvcPath, R!Materialize,
         R!Winners, R!Live, R!Supersedes,
         RP!Convergence, RP!Members, RP!IsMember, RP!LookupService, RP!NodePath, RP!SvcPath,
         RP!Materialize, RP!Winners, RP!Live, RP!Supersedes
<1>2. RP!BoundsAssumption /\ RP!RankAssumption /\ RP!ServiceAssumption  BY RPAssumptions
<1>3. RP!Spec => []RP!Convergence  BY <1>2, RP!ConvergenceTheorem, PTL
<1> QED BY <1>1, <1>3, SameSpec, PTL

\* No session, however late its deltas, brings back a node whose removal a daemon
\* knows from a replica that had the node's entry.
THEOREM SessionRemovalTheorem == Spec => R!RemovalIsFinal
<1> DEFINE RStep == \A i, n \in Node : R!KnowsRemoval(doc[i], n) => ~ R!IsMember(doc[i], n)'
           RPStep == \A i, n \in Node : RP!KnowsRemoval(doc[i], n) => ~ RP!IsMember(doc[i], n)'
<1>1. [RPStep]_(RP!vars) => [RStep]_(R!vars)
  <2>1. RPStep => RStep
    BY DEF R!KnowsRemoval, R!IsMember, R!NodePath, R!Materialize, R!Winners, R!Live, R!Supersedes,
           RP!KnowsRemoval, RP!IsMember, RP!NodePath, RP!Materialize, RP!Winners, RP!Live, RP!Supersedes
  <2>2. UNCHANGED RP!vars => UNCHANGED R!vars  BY DEF R!vars, RP!vars
  <2> QED BY <2>1, <2>2
<1>2. RP!BoundsAssumption /\ RP!RankAssumption /\ RP!ServiceAssumption  BY RPAssumptions
<1>3. RP!Spec => RP!RemovalIsFinal  BY <1>2, RP!RemovalIsFinalTheorem, PTL
<1> QED BY <1>1, <1>3, SameSpec, PTL DEF R!RemovalIsFinal, RP!RemovalIsFinal

\* lookup_service of a daemon with sessions never meets a tombstoned service.
THEOREM SessionGhostTheorem == Spec => []R!NoGhostService
<1>1. RP!NoGhostService => R!NoGhostService
  BY DEF R!NoGhostService, R!Members, R!IsMember, R!LookupService, R!NodePath, R!SvcPath, R!Materialize,
         R!Winners, R!Live, R!Supersedes,
         RP!NoGhostService, RP!Members, RP!IsMember, RP!LookupService, RP!NodePath, RP!SvcPath,
         RP!Materialize, RP!Winners, RP!Live, RP!Supersedes
<1>2. RP!BoundsAssumption /\ RP!RankAssumption /\ RP!ServiceAssumption  BY RPAssumptions
<1>3. RP!Spec => []RP!NoGhostService  BY <1>2, RP!NoGhostServiceTheorem, PTL
<1> QED BY <1>1, <1>3, SameSpec, PTL
==============================================================================
