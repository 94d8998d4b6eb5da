-------------------------------- MODULE Events --------------------------------
(***************************************************************************)
(* Following the members of a cluster through the control socket of one    *)
(* daemon: the broadcast channel that merges and cleanups write to         *)
(* (daemon/mod.rs), the task of a subscriber and the answer to a listing   *)
(* (daemon/control.rs), and a client that subscribes, lists the nodes once *)
(* its subscription is confirmed and then replays what it is sent          *)
(* (main.rs).                                                              *)
(*                                                                         *)
(* The channel is a history and a position in it for every subscriber; it  *)
(* still holds the ChannelCap latest events.                               *)
(***************************************************************************)
EXTENDS Naturals, Sequences, FiniteSets, SequencesExt

CONSTANTS
  Node, Self,
  Client,        \* clients of the control socket
  Prompt,        \* the clients that keep reading
  ChannelCap,    \* capacity of the broadcast channel
  SocketCap,     \* lines the socket of a subscriber buffers
  MaxEvents      \* events in all

ASSUME EventsAssumption ==
  /\ Self \in Node /\ IsFiniteSet(Node)
  /\ Prompt \subseteq Client
  /\ {ChannelCap, SocketCap} \subseteq Nat \ {0}
  /\ MaxEvents \in Nat

VARIABLES
  status,    \* how far the main function has got
  registry,  \* registry[n]: what the membership has for n
  log,       \* every event sent to the channel
  task,      \* task[c]: where the task that serves c is
  pos,       \* pos[c]: events of the log that its receiver has behind it; the last of
             \* them is still to be written while task[c] is "write"
  socket,    \* socket[c]: lines written to c and not yet read
  client,    \* client[c]: where c is
  base,      \* base[c]: the length of the log when c was subscribed
  got,       \* got[c]: the events c has read
  view       \* view[c]: the members, as far as c knows

daemonVars == <<status, registry, log>>
clientVars == <<client, got, view>>
vars       == <<daemonVars, clientVars, task, pos, socket, base>>

Event == [event : {"NodeJoined", "NodeLeft"}, node : Node]
Ok    == [event |-> "Ok", node |-> Self]

TypeOK ==
  /\ status \in {"running", "draining", "exited"}
  /\ registry \in [Node -> {"unknown", "addr", "dead"}]
  /\ log \in Seq(Event) /\ Len(log) <= MaxEvents
  /\ task \in [Client -> {"none", "subscribed", "recv", "write", "done"}]
  /\ pos \in [Client -> 0 .. MaxEvents]
  /\ socket \in [Client -> Seq(Event \cup {Ok})]
  /\ \A c \in Client : Len(socket[c]) <= SocketCap
  /\ client \in [Client -> {"off", "waiting", "confirmed", "following", "ended", "gone"}]
  /\ base \in [Client -> 0 .. MaxEvents]
  /\ got \in [Client -> Seq(Event)]
  /\ view \in [Client -> SUBSET Node]

Init ==
  /\ status = "running"
  /\ registry = [n \in Node |-> IF n = Self THEN "addr" ELSE "unknown"]
  /\ log = <<>>
  /\ task = [c \in Client |-> "none"]
  /\ pos = [c \in Client |-> 0] /\ base = [c \in Client |-> 0]
  /\ socket = [c \in Client |-> <<>>]
  /\ client = [c \in Client |-> "off"]
  /\ got = [c \in Client |-> <<>>]
  /\ view = [c \in Client |-> {}]

Members == {n \in Node : registry[n] = "addr"}

Up == status # "exited"

-------------------------------------------------------------------------------
(***************************************************************************)
(* The daemon                                                              *)
(***************************************************************************)

\* broadcast_events: one send per change, whoever listens.
BroadcastEvents(changes) ==
  /\ Len(log) + Len(changes) <= MaxEvents
  /\ log' = log \o changes

Joined(n) == [event |-> "NodeJoined", node |-> n]
Left(n)   == [event |-> "NodeLeft", node |-> n]

\* Mutant: a merge that removes nodes reports only whom it adds.
MergeReportsJoins(joined, left) ==
  /\ Up
  /\ \A n \in joined : registry[n] = "unknown"
  /\ \A n \in left : registry[n] = "addr"
  /\ registry' = [n \in Node |-> IF n \in joined THEN "addr"
                                 ELSE IF n \in left THEN "dead" ELSE registry[n]]
  /\ \E j \in SetToSeqs({Joined(n) : n \in joined}) : BroadcastEvents(j)
  /\ UNCHANGED <<status, clientVars, task, pos, socket, base>>

\* A session merges a MembershipSync and broadcasts the difference, in one locked
\* section: those who joined, then those who left, each in the order of a hash map.
Merge(joined, left) ==
  /\ Up
  /\ \A n \in joined : registry[n] = "unknown"
  /\ \A n \in left : registry[n] = "addr"
  /\ registry' = [n \in Node |-> IF n \in joined THEN "addr"
                                 ELSE IF n \in left THEN "dead" ELSE registry[n]]
  /\ \E j \in SetToSeqs({Joined(n) : n \in joined}), l \in SetToSeqs({Left(n) : n \in left}) :
       BroadcastEvents(j \o l)
  /\ UNCHANGED <<status, clientVars, task, pos, socket, base>>

\* The cleanup of a session with another daemon n removes n and says so, whether
\* or not n was still, or already, a member.  The tombstone of a node whose entry is
\* not there yet is concurrent with it and need not win when it comes.
Cleanup(n) ==
  /\ Up
  /\ registry' = [registry EXCEPT ![n] = IF @ = "addr" THEN "dead" ELSE @]
  /\ BroadcastEvents(<<Left(n)>>)
  /\ UNCHANGED <<status, clientVars, task, pos, socket, base>>

\* The main loop ends: the daemon removes itself and broadcasts nothing.
BeginShutdown ==
  /\ status = "running"
  /\ status' = "draining"
  /\ registry' = [registry EXCEPT ![Self] = "dead"]
  /\ UNCHANGED <<log, clientVars, task, pos, socket, base>>

\* The process ends with its tasks.  What it wrote can still be read.
Exit ==
  /\ status = "draining"
  /\ status' = "exited"
  /\ task' = [c \in Client |-> IF task[c] = "none" THEN "none" ELSE "done"]
  /\ pos' = [c \in Client |-> 0]
  /\ UNCHANGED <<registry, log, clientVars, socket, base>>

-------------------------------------------------------------------------------
(***************************************************************************)
(* handle_control_client of a Subscribe request                            *)
(***************************************************************************)

\* c's task is over, and with it its receiver and its end of the connection.
TaskEnds(c) ==
  /\ task' = [task EXCEPT ![c] = "done"]
  /\ pos' = [pos EXCEPT ![c] = 0]

\* Mutant: the receiver skips the next event.
SubscribeOneTooFar(c) ==
  /\ Up
  /\ client[c] = "off"
  /\ client' = [client EXCEPT ![c] = "waiting"]
  /\ task' = [task EXCEPT ![c] = "subscribed"]
  /\ pos' = [pos EXCEPT ![c] = Len(log) + 1]
  /\ base' = [base EXCEPT ![c] = Len(log) + 1]
  /\ UNCHANGED <<daemonVars, got, view, socket>>

\* c connects and sends its request; its task makes a receiver under the lock,
\* which starts at the next event.
Subscribe(c) ==
  /\ Up
  /\ client[c] = "off"
  /\ client' = [client EXCEPT ![c] = "waiting"]
  /\ task' = [task EXCEPT ![c] = "subscribed"]
  /\ pos' = [pos EXCEPT ![c] = Len(log)]
  /\ base' = [base EXCEPT ![c] = Len(log)]
  /\ UNCHANGED <<daemonVars, got, view, socket>>

\* Mutant: a write that fails is passed over.
WriteLineIgnoresError(c, line, next) ==
  /\ \/ /\ client[c] # "gone"
        /\ Len(socket[c]) < SocketCap
        /\ socket' = [socket EXCEPT ![c] = Append(@, line)]
     \/ client[c] = "gone" /\ UNCHANGED socket
  /\ task' = [task EXCEPT ![c] = next]
  /\ UNCHANGED pos

\* A line is written: it waits for room, and fails once the client is gone.
WriteLine(c, line, next) ==
  \/ /\ client[c] # "gone"
     /\ Len(socket[c]) < SocketCap
     /\ socket' = [socket EXCEPT ![c] = Append(@, line)]
     /\ task' = [task EXCEPT ![c] = next]
     /\ UNCHANGED pos
  \/ /\ client[c] = "gone"
     /\ TaskEnds(c)
     /\ UNCHANGED socket

WriteOK(c) ==
  /\ task[c] = "subscribed"
  /\ WriteLine(c, Ok, "recv")
  /\ UNCHANGED <<daemonVars, clientVars, base>>

\* The channel still holds the event after pos[c].
Available(c) == Len(log) - pos[c] <= ChannelCap

\* Mutant: an event is handed out when the next one has come.
RecvLate(c) ==
  /\ task[c] = "recv"
  /\ pos[c] + 1 < Len(log) /\ Available(c)
  /\ pos' = [pos EXCEPT ![c] = @ + 1]
  /\ task' = [task EXCEPT ![c] = "write"]
  /\ UNCHANGED <<daemonVars, clientVars, socket, base>>

\* rx.recv() yields the next event.
Recv(c) ==
  /\ task[c] = "recv"
  /\ pos[c] < Len(log) /\ Available(c)
  /\ pos' = [pos EXCEPT ![c] = @ + 1]
  /\ task' = [task EXCEPT ![c] = "write"]
  /\ UNCHANGED <<daemonVars, clientVars, socket, base>>

\* Mutant: the loop goes on with the oldest event there is.
RecvLaggedGoesOn(c) ==
  /\ task[c] = "recv"
  /\ ~ Available(c)
  /\ pos' = [pos EXCEPT ![c] = Len(log) - ChannelCap]
  /\ UNCHANGED <<daemonVars, clientVars, task, socket, base>>

\* The next event has been overwritten: recv yields Lagged, which ends the loop.
RecvLagged(c) ==
  /\ task[c] = "recv"
  /\ ~ Available(c)
  /\ TaskEnds(c)
  /\ UNCHANGED <<daemonVars, clientVars, socket, base>>

WriteEvent(c) ==
  /\ task[c] = "write"
  /\ WriteLine(c, log[pos[c]], "recv")
  /\ UNCHANGED <<daemonVars, clientVars, base>>

-------------------------------------------------------------------------------
(***************************************************************************)
(* The client                                                              *)
(***************************************************************************)

ReadLine(c) == socket' = [socket EXCEPT ![c] = Tail(@)]

ReadOK(c) ==
  /\ client[c] = "waiting"
  /\ socket[c] # <<>>
  /\ ReadLine(c)
  /\ client' = [client EXCEPT ![c] = "confirmed"]
  /\ UNCHANGED <<daemonVars, got, view, task, pos, base>>

\* dispatch_request answers a Nodes request under the lock; of an entry only the
\* node matters here.
NodesResponse == Members

\* A Nodes request on a connection of its own (send_control_request).
ListNodes(c) ==
  /\ Up
  /\ client[c] = "confirmed"
  /\ client' = [client EXCEPT ![c] = "following"]
  /\ view' = [view EXCEPT ![c] = NodesResponse]
  /\ UNCHANGED <<daemonVars, got, task, pos, socket, base>>

ReadEvent(c) ==
  LET line == Head(socket[c])
  IN  /\ client[c] = "following"
      /\ socket[c] # <<>>
      /\ ReadLine(c)
      /\ got' = [got EXCEPT ![c] = Append(@, line)]
      /\ view' = [view EXCEPT ![c] = IF line.event = "NodeJoined" THEN @ \cup {line.node}
                                     ELSE @ \ {line.node}]
      /\ UNCHANGED <<daemonVars, client, task, pos, base>>

\* It has read everything and finds end of file, or cannot list the nodes.
ClientEnds(c) ==
  /\ \/ client[c] \in {"waiting", "following"} /\ socket[c] = <<>> /\ task[c] = "done"
     \/ client[c] = "confirmed" /\ ~ Up
  /\ client' = [client EXCEPT ![c] = "ended"]
  /\ UNCHANGED <<daemonVars, got, view, task, pos, socket, base>>

\* It is interrupted, at any time, and what it knew is lost.
Interrupt(c) ==
  /\ client[c] \in {"waiting", "confirmed", "following"}
  /\ client' = [client EXCEPT ![c] = "gone"]
  /\ socket' = [socket EXCEPT ![c] = <<>>]
  /\ got' = [got EXCEPT ![c] = <<>>]
  /\ view' = [view EXCEPT ![c] = {}]
  /\ base' = [base EXCEPT ![c] = 0]
  /\ UNCHANGED <<daemonVars, task, pos>>

Serve(c) == WriteOK(c) \/ Recv(c) \/ RecvLagged(c) \/ WriteEvent(c)

Follow(c) == ReadOK(c) \/ ListNodes(c) \/ ReadEvent(c) \/ ClientEnds(c)

Next ==
  \/ \E joined, left \in SUBSET Node : joined \cup left # {} /\ Merge(joined, left)
  \/ \E n \in Node \ {Self} : Cleanup(n)
  \/ BeginShutdown \/ Exit
  \/ \E c \in Client : Serve(c) \/ Follow(c) \/ Subscribe(c) \/ Interrupt(c)

Spec == Init /\ [][Next]_vars

\* Tasks that can go on do, and the prompt clients keep reading.  The others may
\* stall for ever with their connection open.
Fairness ==
  /\ \A c \in Client : WF_vars(Serve(c))
  /\ \A c \in Prompt : WF_vars(Follow(c))

FairSpec == Spec /\ Fairness

-------------------------------------------------------------------------------
(***************************************************************************)
(* Properties                                                              *)
(***************************************************************************)

\* What a subscriber reads is a gapless piece of what the daemon broadcast, from
\* its subscription on: a subscriber that falls behind by more than the channel
\* holds is cut off rather than served the rest (control.rs:58).
StreamIsGapless ==
  \A c \in Client : got[c] = SubSeq(log, base[c] + 1, base[c] + Len(got[c]))

\* c has read everything there is.
CaughtUp(c) ==
  /\ client[c] = "following"
  /\ task[c] = "recv" /\ pos[c] = Len(log) /\ socket[c] = <<>>

\* A client that lists the nodes after its subscription was confirmed, and replays
\* the events from then on, has the daemon's members whenever it has caught up,
\* although the events and the listing overlap: the receiver exists before the
\* confirmation is sent (control.rs:48), and members change and are announced
\* under one lock (peer.rs:440).  Shutdown is not announced.
SnapshotThenReplay ==
  \A c \in Client : CaughtUp(c) /\ status = "running" => view[c] = Members

\* Every event sent after a client was subscribed reaches it, or its stream ends
\* for it to see, as long as it reads; clients that stall, with full sockets and
\* overrun receivers, delay neither it nor the daemon.
EventArrives ==
  \A c \in Prompt : \A k \in 1 .. MaxEvents :
    k <= Len(log) /\ task[c] \in {"subscribed", "recv", "write"} /\ pos[c] < k
      ~> base[c] + Len(got[c]) >= k \/ client[c] \in {"ended", "gone"}

\* The task of a client that has disconnected ends with the next event at the latest
\* (control.rs:65), and its receiver and its file go with it.  While no event comes
\* they stay: nothing else looks at the client.
GoneIsNoticed ==
  \A c \in Client :
    client[c] = "gone" /\ pos[c] < Len(log) ~> task[c] = "done"
===============================================================================
