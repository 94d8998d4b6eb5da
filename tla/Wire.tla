--------------------------------- MODULE Wire ---------------------------------
(***************************************************************************)
(* One connection below the level of PeerSession: frames cut into pieces   *)
(* (write_frame and read_frame of protocol.rs), the reader task and its    *)
(* bounded channel, and a loop that does nothing else while it writes      *)
(* (peer_message_loop of daemon/peer.rs).  The connection is past its      *)
(* handshake: each end writes its initial delta, while nobody reads at its *)
(* side, and enters the loop (run_inbound and connect_to_peer).            *)
(*                                                                         *)
(* A frame is its length followed by the pieces of its payload; a read or  *)
(* a write may stop between any two pieces.                                *)
(***************************************************************************)
EXTENDS Naturals, Sequences

CONSTANTS
  Pieces,      \* Pieces[t]: the pieces of the payload of a frame of type t
  ChannelCap,  \* capacity of the channel from the reader task to the loop
  WireCap,     \* pieces the connection buffers in one direction
  First,       \* First[e]: the types of frames that e's initial delta may be
  Own,         \* Own[e]: the types of frames that e sends on its own account
  MaxOwn       \* MaxOwn[e]: how many of them it sends

End  == {"init", "resp"}

\* A sync of whatever size: small, of several pieces, or above the limit.
Delta == {"sync", "large", "huge"}
Type  == {"heartbeat", "ack"} \cup Delta

ASSUME WireAssumption ==
  /\ Pieces \in [Type -> Nat \ {0}]
  /\ {ChannelCap, WireCap} \subseteq Nat \ {0}
  /\ First \in [End -> SUBSET Delta]
  /\ Own \in [End -> SUBSET ({"heartbeat"} \cup Delta)]
  /\ MaxOwn \in [End -> Nat]

Other(e) == IF e = "init" THEN "resp" ELSE "init"

VARIABLES
  loop,     \* loop[e]: the session of e runs, has ended, or e has closed its connection
  out,      \* out[e]: pieces of the frame that e is writing
  wire,     \* wire[e]: pieces on their way to e
  reader,   \* reader[e]: e's reader task is not there yet, reads, waits to hand over,
            \* or is over
  part,     \* part[e]: pieces it has read of the current frame
  chan,     \* chan[e]: frames it has handed over
  sent,     \* sent[e]: frames e has begun to write, ever
  handled,  \* handled[e]: frames e's loop has handled, ever
  own       \* own[e]: how much of MaxOwn is spent

loopVars == <<loop, out, sent, own>>
readVars == <<reader, part>>
vars     == <<loopVars, readVars, wire, chan, handled>>

\* Frames above 16 MiB can be written (up to the 4 GiB of a u32) and not be read.
TooLarge(t) == t = "huge"

\* The first piece is the length.
Frame(t) == [k \in 1 .. Pieces[t] + 1 |-> [type |-> t, piece |-> k]]

Piece == UNION {{Frame(t)[k] : k \in DOMAIN Frame(t)} : t \in Type}

TypeOK ==
  /\ loop \in [End -> {"run", "ended", "closed"}]
  /\ out \in [End -> Seq(Piece)]
  /\ wire \in [End -> Seq(Piece)] /\ \A e \in End : Len(wire[e]) <= WireCap
  /\ reader \in [End -> {"none", "read", "send", "over"}]
  /\ part \in [End -> Seq(Piece)]
  /\ chan \in [End -> Seq(Type \cup {"garbage"})] /\ \A e \in End : Len(chan[e]) <= ChannelCap
  /\ sent \in [End -> Seq(Type)] /\ handled \in [End -> Seq(Type \cup {"garbage"})]
  /\ own \in [End -> Nat] /\ \A e \in End : own[e] <= MaxOwn[e]

Init ==
  /\ loop = [e \in End |-> "run"] /\ reader = [e \in End |-> "none"]
  /\ out = [e \in End |-> <<>>] /\ wire = [e \in End |-> <<>>]
  /\ part = [e \in End |-> <<>>] /\ chan = [e \in End |-> <<>>]
  /\ sent = [e \in End |-> <<>>] /\ handled = [e \in End |-> <<>>]
  /\ own = [e \in End |-> 0]

\* The loop of e waits in its select!.
Ready(e) == loop[e] = "run" /\ reader[e] # "none" /\ out[e] = <<>>

StartFrame(e, t) ==
  /\ out' = [out EXCEPT ![e] = Frame(t)]
  /\ sent' = [sent EXCEPT ![e] = Append(@, t)]

-------------------------------------------------------------------------------
(***************************************************************************)
(* Before the loop                                                         *)
(***************************************************************************)

\* The handle is registered, and the initial delta is written by the task that has
\* read the handshake: until it is written nobody reads.
SendInitial(e, t) ==
  /\ reader[e] = "none" /\ sent[e] = <<>>
  /\ StartFrame(e, t)
  /\ UNCHANGED <<loop, own, readVars, wire, chan, handled>>

\* It is written: the reader task is spawned, and the loop begins.
EnterLoop(e) ==
  /\ reader[e] = "none" /\ sent[e] # <<>> /\ out[e] = <<>>
  /\ reader' = [reader EXCEPT ![e] = "read"]
  /\ UNCHANGED <<loopVars, part, wire, chan, handled>>

-------------------------------------------------------------------------------
(***************************************************************************)
(* The loop                                                                *)
(***************************************************************************)

\* Mutant: the loop reads by itself, and another branch cancels the read.
SendOwnCancelsRead(e, t) ==
  /\ Ready(e)
  /\ own[e] < MaxOwn[e]
  /\ own' = [own EXCEPT ![e] = @ + 1]
  /\ StartFrame(e, t)
  /\ part' = [part EXCEPT ![e] = IF reader[e] = "read" THEN <<>> ELSE @]
  /\ UNCHANGED <<loop, reader, wire, chan, handled>>

\* A heartbeat is due, or a gossip signal asks for a sync of whatever size.
SendOwn(e, t) ==
  /\ Ready(e)
  /\ own[e] < MaxOwn[e]
  /\ own' = [own EXCEPT ![e] = @ + 1]
  /\ StartFrame(e, t)
  /\ UNCHANGED <<loop, readVars, wire, chan, handled>>

\* The loop takes a frame from its channel; a heartbeat is answered.
Handle(e) ==
  /\ Ready(e)
  /\ chan[e] # <<>>
  /\ chan' = [chan EXCEPT ![e] = Tail(@)]
  /\ handled' = [handled EXCEPT ![e] = Append(@, Head(chan[e]))]
  /\ IF Head(chan[e]) = "heartbeat" THEN StartFrame(e, "ack") ELSE UNCHANGED <<out, sent>>
  /\ UNCHANGED <<loop, own, readVars, wire>>

\* The loop of e is over, the frames it has not taken are dropped and its reader
\* task is aborted.
LoopEnds(e) ==
  /\ loop' = [loop EXCEPT ![e] = "ended"]
  /\ out' = [out EXCEPT ![e] = <<>>]
  /\ chan' = [chan EXCEPT ![e] = <<>>]
  /\ reader' = [reader EXCEPT ![e] = "over"]
  /\ part' = [part EXCEPT ![e] = <<>>]
  /\ UNCHANGED <<sent, own, handled>>

\* The shutdown token is cancelled, or phi exceeds its threshold.
LeaveLoop(e) ==
  /\ Ready(e)
  /\ LoopEnds(e)
  /\ UNCHANGED wire

\* The channel is empty and its sender gone: end of file, or an error read.
ReaderIsOver(e) ==
  /\ Ready(e)
  /\ reader[e] = "over" /\ chan[e] = <<>>
  /\ LoopEnds(e)
  /\ UNCHANGED wire

\* write_all goes on.  After the other end has closed, a piece may seem to be
\* written, or the write fails and ends the loop, or the session before its loop.
WritePiece(e) ==
  LET o == Other(e)
  IN  /\ out[e] # <<>>
      /\ \/ /\ loop[o] # "closed" /\ Len(wire[o]) < WireCap
            /\ wire' = [wire EXCEPT ![o] = Append(@, Head(out[e]))]
            /\ out' = [out EXCEPT ![e] = Tail(@)]
            /\ UNCHANGED <<loop, sent, own, readVars, chan, handled>>
         \/ /\ loop[o] = "closed"
            /\ out' = [out EXCEPT ![e] = Tail(@)]
            /\ UNCHANGED <<loop, sent, own, readVars, chan, handled, wire>>
         \/ loop[o] = "closed" /\ LoopEnds(e) /\ UNCHANGED wire

\* The cleanup is over and both halves of the connection are dropped.  What is on
\* its way to the other end arrives up to some point.
Close(e) ==
  /\ loop[e] = "ended"
  /\ loop' = [loop EXCEPT ![e] = "closed"]
  /\ \E k \in 0 .. Len(wire[Other(e)]) :
       wire' = [wire EXCEPT ![e] = <<>>, ![Other(e)] = SubSeq(@, 1, k)]
  /\ UNCHANGED <<out, sent, own, readVars, chan, handled>>

\* The process of e ends wherever it is, in the middle of a frame for instance.
Crash(e) ==
  /\ loop[e] # "closed"
  /\ loop' = [loop EXCEPT ![e] = "closed"]
  /\ out' = [out EXCEPT ![e] = <<>>]
  /\ chan' = [chan EXCEPT ![e] = <<>>]
  /\ reader' = [reader EXCEPT ![e] = "over"]
  /\ part' = [part EXCEPT ![e] = <<>>]
  /\ \E k \in 0 .. Len(wire[Other(e)]) :
       wire' = [wire EXCEPT ![e] = <<>>, ![Other(e)] = SubSeq(@, 1, k)]
  /\ UNCHANGED <<sent, own, handled>>

-------------------------------------------------------------------------------
(***************************************************************************)
(* The reader task                                                         *)
(***************************************************************************)

\* What read_frame makes of the pieces it has read.
Decode(pieces) ==
  IF pieces = Frame(pieces[1].type) THEN pieces[1].type ELSE "garbage"

\* Where the reader is after these pieces.  The first one is taken for a length;
\* when it exceeds the limit, reading fails.
Progress(pieces) ==
  IF TooLarge(pieces[1].type) THEN "over"
  ELSE IF Len(pieces) = Pieces[pieces[1].type] + 1 THEN "send" ELSE "read"

\* Mutant: the loop reads by itself, and so not while it writes.
ReadPieceInLoop(e) ==
  /\ Ready(e)
  /\ reader[e] = "read"
  /\ wire[e] # <<>>
  /\ wire' = [wire EXCEPT ![e] = Tail(@)]
  /\ part' = [part EXCEPT ![e] = Append(@, Head(wire[e]))]
  /\ reader' = [reader EXCEPT ![e] = Progress(part'[e])]
  /\ UNCHANGED <<loopVars, chan, handled>>

ReadPiece(e) ==
  /\ reader[e] = "read"
  /\ wire[e] # <<>>
  /\ wire' = [wire EXCEPT ![e] = Tail(@)]
  /\ part' = [part EXCEPT ![e] = Append(@, Head(wire[e]))]
  /\ reader' = [reader EXCEPT ![e] = Progress(part'[e])]
  /\ UNCHANGED <<loopVars, chan, handled>>

\* Mutant: the channel takes one frame more.
HandOverOneMore(e) ==
  /\ reader[e] = "send"
  /\ Len(chan[e]) <= ChannelCap
  /\ chan' = [chan EXCEPT ![e] = Append(@, Decode(part[e]))]
  /\ part' = [part EXCEPT ![e] = <<>>]
  /\ reader' = [reader EXCEPT ![e] = "read"]
  /\ UNCHANGED <<loopVars, wire, handled>>

\* msg_tx.send waits for room.
HandOver(e) ==
  /\ reader[e] = "send"
  /\ Len(chan[e]) < ChannelCap
  /\ chan' = [chan EXCEPT ![e] = Append(@, Decode(part[e]))]
  /\ part' = [part EXCEPT ![e] = <<>>]
  /\ reader' = [reader EXCEPT ![e] = "read"]
  /\ UNCHANGED <<loopVars, wire, handled>>

\* Mutant: only an end of file between two frames ends the task.
ReadEndClean(e) ==
  /\ reader[e] = "read" /\ part[e] = <<>>
  /\ wire[e] = <<>> /\ loop[Other(e)] = "closed"
  /\ reader' = [reader EXCEPT ![e] = "over"]
  /\ UNCHANGED <<loopVars, part, wire, chan, handled>>

\* End of file: a clean end before the length, an error inside a payload.  Both
\* end the task and, once the channel is drained, the loop.
ReadEnd(e) ==
  /\ reader[e] = "read"
  /\ wire[e] = <<>> /\ loop[Other(e)] = "closed"
  /\ reader' = [reader EXCEPT ![e] = "over"]
  /\ UNCHANGED <<loopVars, part, wire, chan, handled>>

Work(e) ==
  \/ EnterLoop(e) \/ \E t \in First[e] : SendInitial(e, t)
  \/ Handle(e) \/ ReaderIsOver(e) \/ WritePiece(e) \/ Close(e)

Read(e) == ReadPiece(e) \/ HandOver(e) \/ ReadEnd(e)

Next ==
  \E e \in End :
    \/ Work(e) \/ Read(e) \/ LeaveLoop(e) \/ Crash(e)
    \/ \E t \in Own[e] : SendOwn(e, t)

Spec == Init /\ [][Next]_vars

\* Both tasks of an end go on when they can.  Nobody has to send, stop or crash.
Fairness == \A e \in End : WF_vars(Work(e)) /\ WF_vars(Read(e))

FairSpec == Spec /\ Fairness

-------------------------------------------------------------------------------
(***************************************************************************)
(* Properties                                                              *)
(***************************************************************************)

\* A loop handles the frames its peer wrote, whole, in order and without a gap,
\* and nothing else, however reads and writes are cut up and whatever the loop
\* does in between (peer.rs:346 "This avoids the classic read_exact-inside-select!
\* cancellation bug"); nothing beyond a frame the reader refuses is handled.
FramesIntact ==
  \A e \in End :
    /\ handled[e] = SubSeq(sent[Other(e)], 1, Len(handled[e]))
    /\ \A k \in DOMAIN handled[e] : ~ TooLarge(handled[e][k])

\* e waits in a write for the other end's reader, which is not there yet, waits for
\* room in its channel or has given up on a frame.
Stuck(e) ==
  LET o == Other(e)
  IN  /\ out[e] # <<>> /\ loop[o] = "run" /\ Len(wire[o]) = WireCap
      /\ \/ reader[o] = "send" /\ Len(chan[o]) = ChannelCap
         \/ reader[o] \in {"none", "over"}

\* Every frame that is written is handled sooner or later, or the session it was
\* written to ends, unless both ends are stuck at once, in their loops or in their
\* initial deltas: an end that is blocked in a write does not hold up the frames of
\* the other direction by itself, since its reader task goes on (peer.rs:370), or
\* will once the initial delta is written (peer.rs:157, 302).
FrameArrives ==
  \A e \in End :
    []<>(\/ Len(handled[e]) = Len(sent[Other(e)])
         \/ loop[e] # "run"
         \/ \A o \in End : Stuck(o))

\* When one end is closed, at whatever point of a frame, the other end closes too,
\* even out of a mutual block.
EndsTogether ==
  \A e \in End : loop[e] = "closed" ~> loop[Other(e)] = "closed"
===============================================================================
