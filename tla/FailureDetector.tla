--------------------------- MODULE FailureDetector ---------------------------
(***************************************************************************)
(* crates/pmd/src/daemon/failure_detector.rs, and the heartbeat branches   *)
(* of peer_message_loop that drive it, for one session seen from one side. *)
(* Time passes in ticks.  Heartbeat and phi check share one period; the    *)
(* peer answers every heartbeat within MaxDelay ticks until it falls       *)
(* silent (it dies, or the network swallows everything without an error).  *)
(*                                                                         *)
(* phi > threshold is modelled without logarithms: with the logistic       *)
(* approximation of normal_cdf it means y > Y for                          *)
(*   Y = ln(10^threshold - 1) / 1.5976   (11.5 for the default 8.0),       *)
(* and y = (elapsed - mean) / max(std_dev, min_std_deviation).             *)
(***************************************************************************)
EXTENDS Integers, Sequences, Functions

CONSTANTS
  Period,        \* heartbeat_interval_secs, in ticks
  MaxDelay,      \* the slowest answer of a live peer
  WindowSize,    \* phi_window_size
  MinStd,        \* phi_min_std_deviation_ms, in ticks
  YSquared,      \* Y^2, the threshold
  DetectBound    \* the silence that is enough to exceed the threshold

ASSUME DetectorAssumption ==
  /\ {Period, MaxDelay, WindowSize, MinStd, YSquared, DetectBound} \subseteq Nat
  /\ MaxDelay < Period
  /\ MaxDelay * MaxDelay <= YSquared * MinStd * MinStd
  /\ LET slack == DetectBound - (Period + MaxDelay)
     IN  /\ slack > 0
         /\ \A s \in {MinStd, MaxDelay} : slack * slack >= YSquared * s * s

VARIABLES
  intervals,   \* the sliding window of inter-arrival times
  elapsed,     \* ticks since the last HeartbeatAck, or Never
  phase,       \* ticks since the last period began
  ready,       \* branches of select! that this tick makes ready
  pending,     \* ticks until the answer to the last heartbeat, or NoAck
  alive,       \* the peer still answers
  silence,     \* ticks since it fell silent (only the properties look at it)
  declared     \* the session has declared it dead

vars == <<intervals, elapsed, phase, ready, pending, alive, silence, declared>>

Never   == -1
NoAck   == -1
Horizon == DetectBound + Period + MaxDelay + 1   \* where counting silence stops

TypeOK ==
  /\ intervals \in Seq(0 .. Horizon)
  /\ Len(intervals) <= (IF WindowSize = 0 THEN 1 ELSE WindowSize)
  /\ elapsed \in Never .. Horizon
  /\ phase \in 0 .. Period - 1
  /\ ready \subseteq {"heartbeat", "check"}
  /\ pending \in NoAck .. MaxDelay
  /\ silence \in 0 .. Horizon
  /\ alive \in BOOLEAN /\ declared \in BOOLEAN

\* PhiAccrualDetector::new; the first tick of a tokio interval is immediate.
Init ==
  /\ intervals = <<>>
  /\ elapsed = Never
  /\ phase = 0
  /\ ready = {"heartbeat", "check"}
  /\ pending = NoAck
  /\ alive = TRUE
  /\ silence = 0
  /\ declared = FALSE

Sum(s)        == FoldFunction(LAMBDA x, y : x + y, 0, s)
SumSquares(s) == FoldFunction(LAMBDA x, y : x * x + y, 0, s)

\* Mutant: a full window grows by one before it slides.
WindowOneTooMany(w, x) ==
  Append(IF Len(w) > WindowSize THEN Tail(w) ELSE w, x)

\* The window after the interval x.
Slide(w, x) ==
  Append(IF Len(w) >= WindowSize /\ w # <<>> THEN Tail(w) ELSE w, x)

\* heartbeat_at, now
HeartbeatAt ==
  /\ intervals' = IF elapsed = Never THEN intervals ELSE Slide(intervals, elapsed)
  /\ elapsed' = 0

\* Mutant: no floor for the standard deviation.
SuspiciousNoFloor ==
  LET n == Len(intervals)
      S == Sum(intervals)
      late == n * elapsed - S
  IN  /\ elapsed # Never /\ n >= 2
      /\ late > 0
      /\ late * late > YSquared * (n * SumSquares(intervals) - S * S)

\* phi_at(now) > threshold, with both sides multiplied by the window's length:
\* n^2 times the variance is n * SumSquares - Sum^2.
Suspicious ==
  LET n == Len(intervals)
      S == Sum(intervals)
      late == n * elapsed - S
  IN  /\ elapsed # Never /\ n >= 2
      /\ late > 0
      /\ \A v \in {n * SumSquares(intervals) - S * S, n * n * MinStd * MinStd} :
           late * late > YSquared * v

\* Mutant: sending a heartbeat counts as hearing one.
SendCountsAsHeard ==
  /\ "heartbeat" \in ready
  /\ ready' = ready \ {"heartbeat"}
  /\ pending' \in (IF alive THEN 0 .. MaxDelay ELSE {NoAck})
  /\ HeartbeatAt
  /\ UNCHANGED <<phase, alive, silence, declared>>

SendHeartbeat ==
  /\ "heartbeat" \in ready
  /\ ready' = ready \ {"heartbeat"}
  /\ pending' \in (IF alive THEN 0 .. MaxDelay ELSE {NoAck})
  /\ UNCHANGED <<intervals, elapsed, phase, alive, silence, declared>>

RecvHeartbeatAck ==
  /\ pending = 0
  /\ pending' = NoAck
  /\ HeartbeatAt
  /\ UNCHANGED <<phase, ready, alive, silence, declared>>

PhiCheck ==
  /\ "check" \in ready
  /\ ready' = ready \ {"check"}
  /\ declared' = Suspicious
  /\ UNCHANGED <<intervals, elapsed, phase, pending, alive, silence>>

\* The peer falls silent; an answer on its way may still arrive.
FallSilent ==
  /\ alive
  /\ alive' = FALSE
  /\ pending' \in {pending, NoAck}
  /\ UNCHANGED <<intervals, elapsed, phase, ready, silence, declared>>

\* Everything that is due has been handled.
Tick ==
  /\ ready = {} /\ pending # 0
  /\ phase' = (phase + 1) % Period
  /\ ready' = IF phase' = 0 THEN {"heartbeat", "check"} ELSE {}
  /\ pending' = IF pending = NoAck THEN NoAck ELSE pending - 1
  /\ elapsed' = IF elapsed \in {Never, Horizon} THEN elapsed ELSE elapsed + 1
  /\ silence' = IF alive \/ silence = Horizon THEN silence ELSE silence + 1
  /\ UNCHANGED <<intervals, alive, declared>>

Next ==
  /\ ~ declared
  /\ SendHeartbeat \/ RecvHeartbeatAck \/ PhiCheck \/ FallSilent \/ Tick

Spec == Init /\ [][Next]_vars

-------------------------------------------------------------------------------
\* A peer that answers every heartbeat within MaxDelay is never declared dead,
\* however its answers are spread, because the floor min_std_deviation covers
\* that much jitter (peer.rs: "phi accrual threshold exceeded").
NoFalseSuspicion == declared => ~ alive

\* A peer that falls silent after three answers is declared dead within a known
\* time: its last answer may still be on the way, the threshold is reached
\* DetectBound ticks after that, and a check comes at most one period later.
DetectsInTime ==
  ~ declared /\ Len(intervals) >= 2 => silence <= MaxDelay + DetectBound + Period
===============================================================================
