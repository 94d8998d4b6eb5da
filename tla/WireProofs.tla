------------------------------ MODULE WireProofs -------------------------------
(***************************************************************************)
(* What Wire promises, for frames of any number of pieces and channels and *)
(* connections of any capacity.  The inductive invariant numbers the       *)
(* pieces between two ends: every piece that is on its way belongs to the  *)
(* frame its number says, and continues the frame that is being read.      *)
(***************************************************************************)
EXTENDS Wire, SequenceTheorems, TLAPS

\* Pieces on their way to e: in the connection, and still with the writer.
Way(e) == wire[e] \o out[Other(e)]

\* The frame that e's reader task is reading.
Current(e) == Len(handled[e]) + Len(chan[e]) + 1

\* After i pieces of q, g[i] pieces of frame f[i] of s have been read.
Numbered(q, s, f, g) ==
  \A i \in 1 .. Len(q) :
    /\ f[i - 1] \in 1 .. Len(s) /\ g[i - 1] <= Pieces[s[f[i - 1]]]
    /\ q[i] = [type |-> s[f[i - 1]], piece |-> g[i - 1] + 1]
    /\ f[i] = IF g[i - 1] = Pieces[s[f[i - 1]]] THEN f[i - 1] + 1 ELSE f[i - 1]
    /\ g[i] = IF g[i - 1] = Pieces[s[f[i - 1]]] THEN 0 ELSE g[i - 1] + 1

\* The pieces q go on with frame n of s, after k pieces of it, to the end of s when
\* the writer has not ended.
Pipe(q, s, n, k, writer) ==
  \E f, g \in [0 .. Len(q) -> Nat] :
    /\ Numbered(q, s, f, g)
    /\ f[0] = n /\ g[0] = k
    /\ writer = "run" => f[Len(q)] = Len(s) + 1 /\ g[Len(q)] = 0

\* What e has handled, and has in its channel, is what the other end wrote.
Arrived(e) ==
  /\ Len(handled[e]) + Len(chan[e]) <= Len(sent[Other(e)])
  /\ \A k \in 1 .. Len(handled[e]) :
       handled[e][k] = sent[Other(e)][k] /\ ~ TooLarge(handled[e][k])
  /\ \A k \in 1 .. Len(chan[e]) :
       chan[e][k] = sent[Other(e)][Len(handled[e]) + k] /\ ~ TooLarge(chan[e][k])

\* What e has read of a frame is the beginning of the current one.
Assembled(e) ==
  reader[e] # "over" =>
    /\ reader[e] = "none" => part[e] = <<>>
    /\ \A i \in 1 .. Len(part[e]) :
         part[e][i] = [type |-> sent[Other(e)][Current(e)], piece |-> i]
    /\ Len(part[e]) > 0 => /\ Current(e) <= Len(sent[Other(e)])
                           /\ ~ TooLarge(sent[Other(e)][Current(e)])
                           /\ reader[e] = "read" => Len(part[e]) <= Pieces[sent[Other(e)][Current(e)]]
    /\ reader[e] = "send" => /\ Len(part[e]) > 0
                             /\ Len(part[e]) = Pieces[sent[Other(e)][Current(e)]] + 1

\* What is on its way continues it.
Continued(e) ==
  /\ reader[e] \in {"none", "read"} =>
       Pipe(Way(e), sent[Other(e)], Current(e), Len(part[e]), loop[Other(e)])
  /\ reader[e] = "send" =>
       Pipe(Way(e), sent[Other(e)], Current(e) + 1, 0, loop[Other(e)])

\* A loop that has ended leaves nothing behind at its own end, and what is being
\* written counts as sent.
Over(e) ==
  /\ loop[e] # "run" => out[e] = <<>> /\ chan[e] = <<>> /\ reader[e] = "over"
  /\ sent[e] = <<>> => out[e] = <<>>

Receiver(e) == Arrived(e) /\ Assembled(e) /\ Continued(e)

IInv == TypeOK /\ \A e \in End : Receiver(e) /\ Over(e)

-------------------------------------------------------------------------------
(***************************************************************************)
(* Numbered pieces                                                         *)
(***************************************************************************)

LEMMA Ends == \A e \in End : Other(e) \in End /\ Other(e) # e /\ Other(Other(e)) = e
  BY DEF End, Other

LEMMA FrameProperties ==
  ASSUME NEW t \in Type
  PROVE  /\ Pieces[t] \in Nat \ {0}
         /\ Frame(t) \in Seq(Piece) /\ Len(Frame(t)) = Pieces[t] + 1
         /\ \A k \in 1 .. Pieces[t] + 1 : Frame(t)[k] = [type |-> t, piece |-> k]
<1>1. Pieces[t] \in Nat \ {0}  BY WireAssumption
<1>2. DOMAIN Frame(t) = 1 .. Pieces[t] + 1  BY DEF Frame
<1>3. \A k \in 1 .. Pieces[t] + 1 : Frame(t)[k] = [type |-> t, piece |-> k]  BY DEF Frame
<1>4. \A k \in 1 .. Pieces[t] + 1 : Frame(t)[k] \in Piece
  <2> DEFINE P == {Frame(t)[j] : j \in DOMAIN Frame(t)}
  <2>1. P \in {{Frame(v)[j] : j \in DOMAIN Frame(v)} : v \in Type}  OBVIOUS
  <2>2. \A k \in 1 .. Pieces[t] + 1 : Frame(t)[k] \in P  BY <1>2
  <2> QED BY <2>1, <2>2 DEF Piece
<1>5. Frame(t) \in [1 .. Pieces[t] + 1 -> Piece]  BY <1>4 DEF Frame
<1>6. Frame(t) \in Seq(Piece) /\ Len(Frame(t)) = Pieces[t] + 1  BY <1>1, <1>5
<1> QED BY <1>1, <1>3, <1>6

\* Pieces may be lost at the end, when the writer has ended.
LEMMA PipePrefix ==
  ASSUME NEW q \in Seq(Piece), NEW s \in Seq(Type), NEW n \in Nat, NEW k \in Nat, NEW w,
         Pipe(q, s, n, k, w),
         NEW r \in Seq(Piece), Len(r) <= Len(q), \A i \in 1 .. Len(r) : r[i] = q[i],
         NEW v, v # "run"
  PROVE  Pipe(r, s, n, k, v)
<1>1. PICK f, g \in [0 .. Len(q) -> Nat] : Numbered(q, s, f, g) /\ f[0] = n /\ g[0] = k
  BY DEF Pipe
<1>2. Len(q) \in Nat /\ Len(r) \in Nat  BY LenProperties
<1> DEFINE f1 == [i \in 0 .. Len(r) |-> f[i]]
           g1 == [i \in 0 .. Len(r) |-> g[i]]
<1>3. \A i \in 0 .. Len(r) : i \in 0 .. Len(q) /\ f1[i] = f[i] /\ g1[i] = g[i]  BY <1>2
<1>4. f1 \in [0 .. Len(r) -> Nat] /\ g1 \in [0 .. Len(r) -> Nat]  BY <1>1, <1>3
<1>5. f1[0] = n /\ g1[0] = k  BY <1>1, <1>2, <1>3
<1> HIDE DEF f1, g1
<1>6. ASSUME NEW i \in 1 .. Len(r)
      PROVE  /\ i \in 1 .. Len(q) /\ r[i] = q[i]
             /\ f1[i] = f[i] /\ g1[i] = g[i] /\ f1[i - 1] = f[i - 1] /\ g1[i - 1] = g[i - 1]
  <2>1. i \in 0 .. Len(r) /\ i - 1 \in 0 .. Len(r) /\ i \in 1 .. Len(q)  BY <1>2
  <2> QED BY <1>3, <2>1
<1>7. Numbered(r, s, f1, g1)  BY <1>1, <1>6 DEF Numbered
<1> QED BY <1>4, <1>5, <1>7 DEF Pipe

\* The first piece is read.
LEMMA PipeTail ==
  ASSUME NEW q \in Seq(Piece), NEW s \in Seq(Type), NEW n \in Nat, NEW k \in Nat, NEW w,
         Pipe(q, s, n, k, w),
         NEW r \in Seq(Piece), Len(q) = Len(r) + 1, \A i \in 1 .. Len(r) : r[i] = q[i + 1]
  PROVE  /\ n \in 1 .. Len(s) /\ k <= Pieces[s[n]] /\ q[1] = [type |-> s[n], piece |-> k + 1]
         /\ k = Pieces[s[n]] => Pipe(r, s, n + 1, 0, w)
         /\ k # Pieces[s[n]] => Pipe(r, s, n, k + 1, w)
<1>1. PICK f, g \in [0 .. Len(q) -> Nat] :
             /\ Numbered(q, s, f, g) /\ f[0] = n /\ g[0] = k
             /\ w = "run" => f[Len(q)] = Len(s) + 1 /\ g[Len(q)] = 0
  BY DEF Pipe
<1>2. Len(q) \in Nat /\ Len(r) \in Nat  BY LenProperties
<1>3. /\ n \in 1 .. Len(s) /\ k <= Pieces[s[n]] /\ q[1] = [type |-> s[n], piece |-> k + 1]
      /\ f[1] = IF k = Pieces[s[n]] THEN n + 1 ELSE n
      /\ g[1] = IF k = Pieces[s[n]] THEN 0 ELSE k + 1
  <2>1. 1 \in 1 .. Len(q) /\ 1 - 1 = 0  BY <1>2
  <2> QED BY <1>1, <2>1 DEF Numbered
<1> DEFINE f1 == [i \in 0 .. Len(r) |-> f[i + 1]]
           g1 == [i \in 0 .. Len(r) |-> g[i + 1]]
<1>4. \A i \in 0 .. Len(r) : i + 1 \in 0 .. Len(q) /\ f1[i] = f[i + 1] /\ g1[i] = g[i + 1]  BY <1>2
<1>5. f1 \in [0 .. Len(r) -> Nat] /\ g1 \in [0 .. Len(r) -> Nat]  BY <1>1, <1>4
<1>6. f1[0] = f[1] /\ g1[0] = g[1] /\ f1[Len(r)] = f[Len(q)] /\ g1[Len(r)] = g[Len(q)]
  <2>1. 0 \in 0 .. Len(r) /\ Len(r) \in 0 .. Len(r) /\ 0 + 1 = 1  BY <1>2
  <2> QED BY <1>4, <2>1
<1> HIDE DEF f1, g1
<1>7. ASSUME NEW i \in 1 .. Len(r)
      PROVE  /\ i + 1 \in 1 .. Len(q) /\ r[i] = q[i + 1]
             /\ f1[i] = f[i + 1] /\ g1[i] = g[i + 1]
             /\ f1[i - 1] = f[(i + 1) - 1] /\ g1[i - 1] = g[(i + 1) - 1]
  <2>1. /\ i \in 0 .. Len(r) /\ i - 1 \in 0 .. Len(r) /\ i + 1 \in 1 .. Len(q)
        /\ (i - 1) + 1 = (i + 1) - 1
    BY <1>2
  <2> QED BY <1>4, <2>1
<1>8. Numbered(r, s, f1, g1)
  <2> SUFFICES ASSUME NEW i \in 1 .. Len(r)
               PROVE  /\ f1[i - 1] \in 1 .. Len(s) /\ g1[i - 1] <= Pieces[s[f1[i - 1]]]
                      /\ r[i] = [type |-> s[f1[i - 1]], piece |-> g1[i - 1] + 1]
                      /\ f1[i] = IF g1[i - 1] = Pieces[s[f1[i - 1]]] THEN f1[i - 1] + 1 ELSE f1[i - 1]
                      /\ g1[i] = IF g1[i - 1] = Pieces[s[f1[i - 1]]] THEN 0 ELSE g1[i - 1] + 1
    BY DEF Numbered
  <2> DEFINE j == i + 1
  <2>1. j \in 1 .. Len(q) /\ r[i] = q[j] /\ f1[i] = f[j] /\ g1[i] = g[j]
        /\ f1[i - 1] = f[j - 1] /\ g1[i - 1] = g[j - 1]
    BY <1>7
  <2> HIDE DEF j
  <2> QED BY <1>1, <2>1 DEF Numbered
<1>9. Pipe(r, s, f[1], g[1], w)  BY <1>1, <1>5, <1>6, <1>8 DEF Pipe
<1> QED BY <1>3, <1>9

\* A frame is added at the end.
LEMMA PipeFrame ==
  ASSUME NEW q \in Seq(Piece), NEW s \in Seq(Type), NEW n \in Nat, NEW k \in Nat,
         Pipe(q, s, n, k, "run"), NEW t \in Type
  PROVE  Pipe(q \o Frame(t), Append(s, t), n, k, "run")
<1>1. PICK f, g \in [0 .. Len(q) -> Nat] :
             /\ Numbered(q, s, f, g) /\ f[0] = n /\ g[0] = k
             /\ f[Len(q)] = Len(s) + 1 /\ g[Len(q)] = 0
  BY DEF Pipe
<1> DEFINE r == q \o Frame(t)
           u == Append(s, t)
           full == Pieces[t] + 1
           L == Len(q)
           f1 == [i \in 0 .. Len(r) |-> IF i <= L THEN f[i]
                                         ELSE IF i = L + full THEN Len(s) + 2 ELSE Len(s) + 1]
           g1 == [i \in 0 .. Len(r) |-> IF i <= L THEN g[i]
                                         ELSE IF i = L + full THEN 0 ELSE i - L]
<1>2. /\ L \in Nat /\ Len(s) \in Nat /\ Pieces[t] \in Nat \ {0}
      /\ r \in Seq(Piece) /\ Len(r) = L + full
      /\ \A i \in 1 .. L : r[i] = q[i]
      /\ \A i \in L + 1 .. L + full : r[i] = [type |-> t, piece |-> i - L]
  <2>1. /\ Pieces[t] \in Nat \ {0} /\ Frame(t) \in Seq(Piece) /\ Len(Frame(t)) = Pieces[t] + 1
        /\ \A j \in 1 .. Pieces[t] + 1 : Frame(t)[j] = [type |-> t, piece |-> j]
    BY FrameProperties
  <2>2. L \in Nat /\ Len(s) \in Nat  BY LenProperties
  <2>3. /\ r \in Seq(Piece) /\ Len(r) = L + full
        /\ \A i \in 1 .. L + full : r[i] = IF i <= L THEN q[i] ELSE Frame(t)[i - L]
    BY <2>1, ConcatProperties
  <2>4. \A i \in 1 .. L : r[i] = q[i]  BY <2>1, <2>2, <2>3
  <2>5. ASSUME NEW i \in L + 1 .. L + full  PROVE r[i] = [type |-> t, piece |-> i - L]
    <3>1. i \in 1 .. L + full /\ ~ (i <= L) /\ i - L \in 1 .. full  BY <2>1, <2>2
    <3> QED BY <2>1, <2>3, <3>1
  <2> QED BY <2>1, <2>2, <2>3, <2>4, <2>5
<1>3. /\ u \in Seq(Type) /\ Len(u) = Len(s) + 1
      /\ \A i \in 1 .. Len(s) : u[i] = s[i]
      /\ u[Len(s) + 1] = t
  BY AppendProperties
<1>4. f1 \in [0 .. Len(r) -> Nat] /\ g1 \in [0 .. Len(r) -> Nat]
  <2>1. \A i \in 0 .. Len(r) : i <= L => i \in 0 .. L  BY <1>2
  <2>2. \A i \in 0 .. Len(r) : ~ (i <= L) => i - L \in Nat  BY <1>2
  <2> QED BY <1>1, <1>2, <2>1, <2>2
<1>5. /\ \A i \in 0 .. L : f1[i] = f[i] /\ g1[i] = g[i]
      /\ f1[L + full] = Len(s) + 2 /\ g1[L + full] = 0
      /\ \A i \in L .. L + Pieces[t] : f1[i] = Len(s) + 1 /\ g1[i] = i - L
  <2>1. \A i \in 0 .. L : i \in 0 .. Len(r) /\ i <= L  BY <1>2
  <2>2. L + full \in 0 .. Len(r) /\ ~ (L + full <= L)  BY <1>2
  <2>3. ASSUME NEW i \in L .. L + Pieces[t]  PROVE f1[i] = Len(s) + 1 /\ g1[i] = i - L
    <3>1. CASE i = L  BY <1>1, <1>2, <2>1, <3>1
    <3>2. CASE i # L
      <4>1. i \in 0 .. Len(r) /\ ~ (i <= L) /\ i # L + full  BY <1>2, <3>2
      <4> QED BY <4>1
    <3> QED BY <3>1, <3>2
  <2> QED BY <2>1, <2>2, <2>3
<1> HIDE DEF f1, g1, r, u, L
<1>6. Numbered(r, u, f1, g1)
  <2> SUFFICES ASSUME NEW i \in 1 .. Len(r)
               PROVE  /\ f1[i - 1] \in 1 .. Len(u) /\ g1[i - 1] <= Pieces[u[f1[i - 1]]]
                      /\ r[i] = [type |-> u[f1[i - 1]], piece |-> g1[i - 1] + 1]
                      /\ f1[i] = IF g1[i - 1] = Pieces[u[f1[i - 1]]] THEN f1[i - 1] + 1 ELSE f1[i - 1]
                      /\ g1[i] = IF g1[i - 1] = Pieces[u[f1[i - 1]]] THEN 0 ELSE g1[i - 1] + 1
    BY DEF Numbered
  <2>1. CASE i <= L
    <3>1. i \in 1 .. L /\ i \in 0 .. L /\ i - 1 \in 0 .. L  BY <1>2, <2>1
    <3>2. f1[i] = f[i] /\ g1[i] = g[i] /\ f1[i - 1] = f[i - 1] /\ g1[i - 1] = g[i - 1]
      BY <1>5, <3>1
    <3>3. /\ f[i - 1] \in 1 .. Len(s) /\ g[i - 1] <= Pieces[s[f[i - 1]]]
          /\ q[i] = [type |-> s[f[i - 1]], piece |-> g[i - 1] + 1]
          /\ f[i] = IF g[i - 1] = Pieces[s[f[i - 1]]] THEN f[i - 1] + 1 ELSE f[i - 1]
          /\ g[i] = IF g[i - 1] = Pieces[s[f[i - 1]]] THEN 0 ELSE g[i - 1] + 1
      BY <1>1, <3>1 DEF Numbered, L
    <3>4. f[i - 1] \in 1 .. Len(u) /\ u[f[i - 1]] = s[f[i - 1]]  BY <1>2, <1>3, <3>3
    <3>5. r[i] = q[i]  BY <1>2, <3>1
    <3> QED BY <3>2, <3>3, <3>4, <3>5
  <2>2. CASE ~ (i <= L)
    <3>1. /\ i - 1 \in L .. L + Pieces[t] /\ i \in L + 1 .. L + full
          /\ (i - 1) - L + 1 = i - L
      <4>1. i \in 1 .. L + (Pieces[t] + 1) /\ L \in Nat /\ Pieces[t] \in Nat  BY <1>2
      <4> QED BY <2>2, <4>1
    <3>2. f1[i - 1] = Len(s) + 1 /\ g1[i - 1] = (i - 1) - L  BY <1>5, <3>1
    <3>3. u[f1[i - 1]] = t /\ f1[i - 1] \in 1 .. Len(u)  BY <1>2, <1>3, <3>2
    <3>4. g1[i - 1] <= Pieces[t] /\ (g1[i - 1] = Pieces[t] <=> i = L + full)  BY <1>2, <3>1, <3>2
    <3>5. r[i] = [type |-> t, piece |-> g1[i - 1] + 1]  BY <1>2, <3>1, <3>2
    <3>6. CASE i = L + full
      BY <1>2, <1>5, <3>2, <3>3, <3>4, <3>5, <3>6
    <3>7. CASE i # L + full
      <4>1. i \in L .. L + Pieces[t]
        <5>1. L \in Nat /\ Pieces[t] \in Nat  BY <1>2
        <5> QED BY <3>1, <3>7, <5>1
      <4>2. f1[i] = Len(s) + 1 /\ g1[i] = i - L  BY <1>5, <4>1
      <4> QED BY <3>1, <3>2, <3>3, <3>4, <3>5, <3>7, <4>2
    <3> QED BY <3>6, <3>7
  <2> QED BY <2>1, <2>2
<1>7. f1[0] = n /\ g1[0] = k  BY <1>1, <1>2, <1>5
<1>8. f1[Len(r)] = Len(u) + 1 /\ g1[Len(r)] = 0  BY <1>2, <1>3, <1>5
<1>9. Pipe(r, u, n, k, "run")  BY <1>4, <1>6, <1>7, <1>8 DEF Pipe
<1> QED BY <1>9 DEF r, u

-------------------------------------------------------------------------------
(***************************************************************************)
(* What a step may do to one end as a receiver                             *)
(***************************************************************************)

\* What TypeOK says about one end.
LEMMA EndType ==
  ASSUME TypeOK, NEW e \in End
  PROVE  /\ wire[e] \in Seq(Piece) /\ out[e] \in Seq(Piece) /\ part[e] \in Seq(Piece)
         /\ chan[e] \in Seq(Type \cup {"garbage"}) /\ handled[e] \in Seq(Type \cup {"garbage"})
         /\ sent[e] \in Seq(Type)
         /\ Len(wire[e]) \in Nat /\ Len(out[e]) \in Nat /\ Len(part[e]) \in Nat
         /\ Len(chan[e]) \in Nat /\ Len(handled[e]) \in Nat /\ Len(sent[e]) \in Nat
         /\ Current(e) \in Nat \ {0}
         /\ Way(e) \in Seq(Piece) /\ Len(Way(e)) = Len(wire[e]) + Len(out[Other(e)])
         /\ \A i \in 1 .. Len(Way(e)) :
              Way(e)[i] = IF i <= Len(wire[e]) THEN wire[e][i] ELSE out[Other(e)][i - Len(wire[e])]
<1>1. /\ wire[e] \in Seq(Piece) /\ out[e] \in Seq(Piece) /\ part[e] \in Seq(Piece)
      /\ chan[e] \in Seq(Type \cup {"garbage"}) /\ handled[e] \in Seq(Type \cup {"garbage"})
      /\ sent[e] \in Seq(Type) /\ out[Other(e)] \in Seq(Piece)
  BY Ends DEF TypeOK
<1>2. /\ Len(wire[e]) \in Nat /\ Len(out[e]) \in Nat /\ Len(part[e]) \in Nat
      /\ Len(chan[e]) \in Nat /\ Len(handled[e]) \in Nat /\ Len(sent[e]) \in Nat
  BY <1>1, LenProperties
<1>3. Current(e) \in Nat \ {0}  BY <1>1, <1>2 DEF Current, TypeOK
<1>4. /\ Way(e) \in Seq(Piece) /\ Len(Way(e)) = Len(wire[e]) + Len(out[Other(e)])
      /\ \A i \in 1 .. Len(Way(e)) :
              Way(e)[i] = IF i <= Len(wire[e]) THEN wire[e][i] ELSE out[Other(e)][i - Len(wire[e])]
  BY <1>1, ConcatProperties DEF Way
<1> QED BY <1>1, <1>2, <1>3, <1>4

\* Nothing happens at x itself, and what is on its way stays, or loses its end
\* with the end of the writer.
LEMMA ReceiverKept ==
  ASSUME TypeOK, NEW x \in End, Receiver(x),
         handled'[x] = handled[x], chan'[x] = chan[x], part'[x] = part[x], reader'[x] = reader[x],
         sent'[Other(x)] = sent[Other(x)],
         \/ Way(x)' = Way(x) /\ loop'[Other(x)] = loop[Other(x)]
         \/ /\ loop'[Other(x)] # "run" /\ Way(x)' \in Seq(Piece) /\ Len(Way(x)') <= Len(Way(x))
            /\ \A i \in 1 .. Len(Way(x)') : Way(x)'[i] = Way(x)[i]
  PROVE  Receiver(x)'
<1>1. Current(x)' = Current(x)  BY DEF Current
<1>2. Arrived(x)'  BY DEF Receiver, Arrived
<1>3. Assembled(x)'  BY <1>1 DEF Receiver, Assembled
<1>4. Continued(x)'
  <2>1. CASE Way(x)' = Way(x) /\ loop'[Other(x)] = loop[Other(x)]
    BY <1>1, <2>1 DEF Receiver, Continued
  <2>2. CASE /\ loop'[Other(x)] # "run" /\ Way(x)' \in Seq(Piece) /\ Len(Way(x)') <= Len(Way(x))
             /\ \A i \in 1 .. Len(Way(x)') : Way(x)'[i] = Way(x)[i]
    <3>a. /\ Way(x) \in Seq(Piece) /\ sent[Other(x)] \in Seq(Type)
          /\ Current(x) \in Nat \ {0} /\ Len(part[x]) \in Nat
      BY EndType, Ends
    <3>b. Current(x) \in Nat /\ Current(x) + 1 \in Nat /\ 0 \in Nat  BY <3>a
    <3>1. /\ Way(x) \in Seq(Piece) /\ sent[Other(x)] \in Seq(Type)
          /\ Current(x) \in Nat /\ Current(x) + 1 \in Nat /\ Len(part[x]) \in Nat /\ 0 \in Nat
      BY <3>a, <3>b
    <3>2. CASE reader[x] \in {"none", "read"}
      <4>1. Pipe(Way(x), sent[Other(x)], Current(x), Len(part[x]), loop[Other(x)])
        BY <3>2 DEF Receiver, Continued
      <4>2. Pipe(Way(x)', sent[Other(x)], Current(x), Len(part[x]), loop'[Other(x)])
        BY <2>2, <3>1, <4>1, PipePrefix
      <4> QED BY <1>1, <3>2, <4>2 DEF Continued
    <3>3. CASE reader[x] = "send"
      <4>1. Pipe(Way(x), sent[Other(x)], Current(x) + 1, 0, loop[Other(x)])
        BY <3>3 DEF Receiver, Continued
      <4>2. Pipe(Way(x)', sent[Other(x)], Current(x) + 1, 0, loop'[Other(x)])
        BY <2>2, <3>1, <4>1, PipePrefix
      <4> QED BY <1>1, <3>3, <4>2 DEF Continued
    <3> QED BY <3>2, <3>3 DEF Continued
  <2> QED BY <2>1, <2>2
<1> QED BY <1>2, <1>3, <1>4 DEF Receiver

\* The reader task of x is over, or ends.
LEMMA ReceiverOver ==
  ASSUME TypeOK, TypeOK', NEW x \in End, Receiver(x), reader'[x] = "over",
         handled'[x] = handled[x], sent'[Other(x)] = sent[Other(x)],
         chan'[x] = chan[x] \/ chan'[x] = <<>>
  PROVE  Receiver(x)'
<1>0. Len(handled[x]) \in Nat /\ Len(chan[x]) \in Nat /\ Len(sent[Other(x)]) \in Nat
  BY EndType, Ends
<1>1. Arrived(x)'
  <2>1. CASE chan'[x] = chan[x]  BY <2>1 DEF Receiver, Arrived
  <2>2. CASE chan'[x] = <<>>
    <3>1. Len(chan'[x]) = 0  BY <2>2
    <3> QED BY <1>0, <3>1, Ends DEF Receiver, Arrived, TypeOK
  <2> QED BY <2>1, <2>2
<1>2. Assembled(x)' /\ Continued(x)'  BY DEF Assembled, Continued
<1> QED BY <1>1, <1>2 DEF Receiver

\* The other end begins to write a frame.
LEMMA FrameSent ==
  ASSUME TypeOK, TypeOK', NEW x \in End, Receiver(x), NEW t \in Type,
         handled'[x] = handled[x], chan'[x] = chan[x], part'[x] = part[x], reader'[x] = reader[x],
         wire'[x] = wire[x], loop[Other(x)] = "run", loop'[Other(x)] = "run",
         out[Other(x)] = <<>>, out'[Other(x)] = Frame(t),
         sent'[Other(x)] = Append(sent[Other(x)], t)
  PROVE  Receiver(x)'
<1> DEFINE s == sent[Other(x)]
<1>0. /\ s \in Seq(Type) /\ Len(s) \in Nat /\ Len(handled[x]) \in Nat /\ Len(chan[x]) \in Nat
      /\ Len(part[x]) \in Nat /\ Current(x) \in Nat \ {0} /\ Way(x) \in Seq(Piece)
      /\ wire[x] \in Seq(Piece)
  BY EndType, Ends
<1>1. /\ Len(sent'[Other(x)]) = Len(s) + 1
      /\ \A i \in 1 .. Len(s) : sent'[Other(x)][i] = s[i]
  BY <1>0, AppendProperties
<1>2. Current(x)' = Current(x)  BY DEF Current
<1>3. Way(x)' = Way(x) \o Frame(t)
  <2>1. Way(x) = wire[x]  BY <1>0, ConcatEmptySeq DEF Way
  <2> QED BY <2>1 DEF Way
<1>4. Arrived(x)'
  <2>1. /\ Len(handled[x]) + Len(chan[x]) <= Len(s)
        /\ \A k \in 1 .. Len(handled[x]) : handled[x][k] = s[k] /\ ~ TooLarge(handled[x][k])
        /\ \A k \in 1 .. Len(chan[x]) :
             chan[x][k] = s[Len(handled[x]) + k] /\ ~ TooLarge(chan[x][k])
    BY DEF Receiver, Arrived
  <2>2. /\ \A k \in 1 .. Len(handled[x]) : k \in 1 .. Len(s)
        /\ \A k \in 1 .. Len(chan[x]) : Len(handled[x]) + k \in 1 .. Len(s)
    <3> DEFINE h == Len(handled[x])
               c == Len(chan[x])
               m == Len(s)
    <3>1. h \in Nat /\ c \in Nat /\ m \in Nat /\ h + c <= m  BY <1>0, <2>1
    <3> HIDE DEF h, c, m
    <3>2. /\ \A k \in 1 .. h : k \in 1 .. m
          /\ \A k \in 1 .. c : h + k \in 1 .. m
      BY <3>1
    <3> QED BY <3>2 DEF h, c, m
  <2>3. Len(handled[x]) + Len(chan[x]) <= Len(sent'[Other(x)])  BY <1>0, <1>1, <2>1, Ends DEF TypeOK
  <2> QED BY <1>1, <2>1, <2>2, <2>3 DEF Arrived
<1>5. Assembled(x)'
  <2>1. CASE Len(part[x]) = 0  BY <1>0, <2>1 DEF Receiver, Assembled
  <2>2. CASE reader[x] # "over" /\ Len(part[x]) > 0
    <3>1. Current(x) <= Len(s)  BY <2>2 DEF Receiver, Assembled
    <3>2. sent'[Other(x)][Current(x)] = s[Current(x)] /\ Current(x) <= Len(sent'[Other(x)])
      BY <1>0, <1>1, <3>1
    <3> QED BY <1>2, <2>2, <3>2 DEF Receiver, Assembled
  <2>3. Len(part[x]) = 0 \/ Len(part[x]) > 0  BY <1>0, Ends DEF TypeOK
  <2>4. CASE reader[x] = "over"  BY <2>4 DEF Assembled
  <2> QED BY <2>1, <2>2, <2>3, <2>4
<1>6. Continued(x)'
  <2>1. CASE reader[x] \in {"none", "read"}
    <3>1. Pipe(Way(x), s, Current(x), Len(part[x]), "run")
      BY <2>1 DEF Receiver, Continued
    <3>2. Pipe(Way(x) \o Frame(t), Append(s, t), Current(x), Len(part[x]), "run")
      BY <1>0, <3>1, PipeFrame
    <3> QED BY <1>2, <1>3, <2>1, <3>2 DEF Continued
  <2>2. CASE reader[x] = "send"
    <3>1. Pipe(Way(x), s, Current(x) + 1, 0, "run")
      BY <2>2 DEF Receiver, Continued
    <3>2. Pipe(Way(x) \o Frame(t), Append(s, t), Current(x) + 1, 0, "run")
      BY <1>0, <3>1, PipeFrame
    <3> QED BY <1>2, <1>3, <2>2, <3>2 DEF Continued
  <2> QED BY <2>1, <2>2 DEF Continued
<1> QED BY <1>4, <1>5, <1>6 DEF Receiver

-------------------------------------------------------------------------------
(***************************************************************************)
(* The reader task                                                         *)
(***************************************************************************)

\* What is read of a sequence of pieces.
LEMMA HeadAndTail ==
  ASSUME NEW S, NEW q \in Seq(S), q # <<>>
  PROVE  /\ Head(q) = q[1] /\ Head(q) \in S
         /\ Tail(q) \in Seq(S) /\ Len(q) = Len(Tail(q)) + 1 /\ Len(Tail(q)) \in Nat
         /\ \A i \in 1 .. Len(Tail(q)) : Tail(q)[i] = q[i + 1]
<1>1. Len(q) \in Nat /\ Len(q) # 0  BY EmptySeq
<1>2. /\ Head(q) \in S /\ Tail(q) \in Seq(S) /\ Len(Tail(q)) = Len(q) - 1
      /\ \A i \in 1 .. Len(Tail(q)) : Tail(q)[i] = q[i + 1]
  BY HeadTailProperties
<1>3. Head(q) = q[1]  BY <1>1
<1>4. Len(Tail(q)) \in Nat  BY <1>2, LenProperties
<1>5. Len(q) = Len(Tail(q)) + 1  BY <1>1, <1>2, <1>4
<1> QED BY <1>2, <1>3, <1>4, <1>5

\* The same for the head of a concatenation.
LEMMA TailOfConcat ==
  ASSUME NEW S, NEW q \in Seq(S), NEW r \in Seq(S), q # <<>>
  PROVE  /\ Tail(q) \o r \in Seq(S) /\ Len(q \o r) = Len(Tail(q) \o r) + 1
         /\ (q \o r)[1] = q[1]
         /\ \A i \in 1 .. Len(Tail(q) \o r) : (Tail(q) \o r)[i] = (q \o r)[i + 1]
<1> DEFINE v == Tail(q)
           a == Len(q)
           b == Len(r)
           x == q \o r
           y == v \o r
<1>1. /\ v \in Seq(S) /\ a = Len(v) + 1 /\ Len(v) \in Nat
      /\ \A i \in 1 .. Len(v) : v[i] = q[i + 1]
  BY HeadAndTail
<1>2. a \in Nat /\ b \in Nat  BY LenProperties
<1>3. /\ Len(x) = a + b /\ \A i \in 1 .. a + b : x[i] = IF i <= a THEN q[i] ELSE r[i - a]
      /\ y \in Seq(S) /\ Len(y) = Len(v) + b
      /\ \A i \in 1 .. Len(v) + b : y[i] = IF i <= Len(v) THEN v[i] ELSE r[i - Len(v)]
  BY <1>1, ConcatProperties
<1> HIDE DEF v, a, b, x, y
<1>4. Len(x) = Len(y) + 1 /\ x[1] = q[1]
  <2>1. 1 \in 1 .. a + b /\ 1 <= a  BY <1>1, <1>2
  <2> QED BY <1>1, <1>2, <1>3, <2>1
<1>5. ASSUME NEW i \in 1 .. Len(y)  PROVE y[i] = x[i + 1]
  <2>1. i \in 1 .. Len(v) + b /\ i + 1 \in 1 .. a + b  BY <1>1, <1>2, <1>3
  <2>2. CASE i <= Len(v)
    <3>1. i \in 1 .. Len(v) /\ i + 1 <= a  BY <1>1, <1>2, <2>1, <2>2
    <3> QED BY <1>1, <1>3, <2>1, <2>2, <3>1
  <2>3. CASE ~ (i <= Len(v))
    <3>1. ~ (i + 1 <= a) /\ (i + 1) - a = i - Len(v)  BY <1>1, <1>2, <2>1, <2>3
    <3> QED BY <1>3, <2>1, <2>3, <3>1
  <2> QED BY <2>2, <2>3
<1> QED BY <1>3, <1>4, <1>5 DEF v, a, b, x, y

LEMMA ReadPieceReceiver ==
  ASSUME TypeOK, TypeOK', NEW e \in End, Receiver(e), ReadPiece(e)
  PROVE  Receiver(e)'
<1> DEFINE s == sent[Other(e)]
           w == loop[Other(e)]
           n == Current(e)
           k == Len(part[e])
           q == Way(e)
           r == Way(e)'
           p == part[e]
           p1 == part'[e]
<1>0. /\ s \in Seq(Type) /\ n \in Nat /\ k \in Nat /\ q \in Seq(Piece) /\ p \in Seq(Piece)
      /\ wire[e] \in Seq(Piece) /\ out[Other(e)] \in Seq(Piece)
  BY EndType, Ends
<1>1. /\ reader[e] = "read" /\ wire[e] # <<>>
      /\ wire'[e] = Tail(wire[e]) /\ p1 = Append(p, Head(wire[e]))
      /\ reader'[e] = Progress(p1)
      /\ UNCHANGED <<loop, out, sent, chan, handled>>
  BY DEF ReadPiece, TypeOK, loopVars
<1>2. Current(e)' = n /\ r = Tail(wire[e]) \o out[Other(e)]  BY <1>1 DEF Current, Way
<1>3. /\ r \in Seq(Piece) /\ Len(q) = Len(r) + 1 /\ q[1] = Head(wire[e])
      /\ \A i \in 1 .. Len(r) : r[i] = q[i + 1]
  <2> DEFINE a == wire[e]
             b == out[Other(e)]
  <2>1. a \in Seq(Piece) /\ b \in Seq(Piece) /\ a # <<>> /\ q = a \o b /\ r = Tail(a) \o b
    BY <1>0, <1>1, <1>2 DEF Way
  <2> HIDE DEF a, b, q, r
  <2>2. /\ Tail(a) \o b \in Seq(Piece) /\ Len(a \o b) = Len(Tail(a) \o b) + 1
        /\ (a \o b)[1] = a[1]
        /\ \A i \in 1 .. Len(Tail(a) \o b) : (Tail(a) \o b)[i] = (a \o b)[i + 1]
    BY <2>1, TailOfConcat
  <2>3. Head(a) = a[1]  BY <2>1, HeadAndTail
  <2>4. /\ r \in Seq(Piece) /\ Len(q) = Len(r) + 1 /\ q[1] = Head(a)
        /\ \A i \in 1 .. Len(r) : r[i] = q[i + 1]
    BY <2>1, <2>2, <2>3
  <2> QED BY <2>4 DEF a
<1>4. Pipe(q, s, n, k, w)  BY <1>1 DEF Receiver, Continued
<1>5. /\ n \in 1 .. Len(s) /\ k <= Pieces[s[n]] /\ q[1] = [type |-> s[n], piece |-> k + 1]
      /\ k = Pieces[s[n]] => Pipe(r, s, n + 1, 0, w)
      /\ k # Pieces[s[n]] => Pipe(r, s, n, k + 1, w)
  <2> HIDE DEF q, r, s, n, k, w
  <2> QED BY <1>0, <1>3, <1>4, PipeTail
<1>6. Head(wire[e]) \in Piece /\ s[n] \in Type /\ Pieces[s[n]] \in Nat
  BY <1>0, <1>1, <1>5, HeadAndTail, ElementOfSeq, WireAssumption
<1>7. /\ Len(p1) = k + 1
      /\ \A i \in 1 .. k : p1[i] = p[i]
      /\ p1[k + 1] = [type |-> s[n], piece |-> k + 1]
  BY <1>0, <1>1, <1>3, <1>5, <1>6, AppendProperties
<1>8. \A i \in 1 .. k : p[i] = [type |-> s[n], piece |-> i]
  BY <1>1 DEF Receiver, Assembled
<1> HIDE DEF s, w, n, k, q, r, p, p1
<1>9. \A i \in 1 .. k + 1 : p1[i] = [type |-> s[n], piece |-> i]
  <2> SUFFICES ASSUME NEW i \in 1 .. k + 1  PROVE p1[i] = [type |-> s[n], piece |-> i]
    OBVIOUS
  <2>1. CASE i \in 1 .. k  BY <1>7, <1>8, <2>1
  <2>2. CASE i = k + 1  BY <1>7, <2>2
  <2> QED BY <1>0, <2>1, <2>2
<1>10. p1[1].type = s[n]
  <2>1. 1 \in 1 .. k + 1  BY <1>0
  <2>2. p1[1] = [type |-> s[n], piece |-> 1]  BY <1>9, <2>1
  <2> QED BY <2>2
<1>11. reader'[e] = IF TooLarge(s[n]) THEN "over"
                    ELSE IF k = Pieces[s[n]] THEN "send" ELSE "read"
  <2>1. Len(p1) = Pieces[s[n]] + 1 <=> k = Pieces[s[n]]
    <3> DEFINE z == Pieces[s[n]]
    <3>1. z \in Nat /\ k \in Nat /\ Len(p1) = k + 1  BY <1>0, <1>6, <1>7
    <3> HIDE DEF z
    <3>2. Len(p1) = z + 1 <=> k = z  BY <3>1
    <3> QED BY <3>2 DEF z
  <2> QED BY <1>1, <1>10, <2>1 DEF Progress
<1>12. Arrived(e)'  BY <1>1 DEF Receiver, Arrived
<1>13. Assembled(e)'
  <2>1. k # Pieces[s[n]] => k + 1 <= Pieces[s[n]]  BY <1>0, <1>5, <1>6
  <2>2. k + 1 > 0 /\ n <= Len(s)  BY <1>0, <1>5
  <2>3. reader'[e] # "over" =>
          /\ reader'[e] # "none"
          /\ \A i \in 1 .. Len(p1) : p1[i] = [type |-> s[n], piece |-> i]
          /\ Len(p1) > 0 => /\ n <= Len(s) /\ ~ TooLarge(s[n])
                            /\ reader'[e] = "read" => Len(p1) <= Pieces[s[n]]
          /\ reader'[e] = "send" => Len(p1) > 0 /\ Len(p1) = Pieces[s[n]] + 1
    BY <1>7, <1>9, <1>11, <2>1, <2>2
  <2> QED BY <1>1, <1>2, <2>3 DEF Assembled, s, p1
<1>14. Continued(e)'
  <2>1. /\ reader'[e] \in {"none", "read"} => Pipe(r, s, n, Len(p1), w)
        /\ reader'[e] = "send" => Pipe(r, s, n + 1, 0, w)
    BY <1>5, <1>7, <1>11
  <2> QED BY <1>1, <1>2, <2>1 DEF Continued, s, p1, w, r
<1> QED BY <1>12, <1>13, <1>14 DEF Receiver

LEMMA HandOverReceiver ==
  ASSUME TypeOK, NEW e \in End, Receiver(e), HandOver(e)
  PROVE  Receiver(e)' /\ Decode(part[e]) \in Type
<1> DEFINE s == sent[Other(e)]
           w == loop[Other(e)]
           n == Current(e)
           p == part[e]
           c == chan[e]
           h == handled[e]
           c1 == chan'[e]
           t == s[n]
<1>0. /\ s \in Seq(Type) /\ n \in Nat \ {0} /\ p \in Seq(Piece)
      /\ c \in Seq(Type \cup {"garbage"}) /\ Len(c) \in Nat /\ Len(h) \in Nat /\ Len(s) \in Nat
  BY EndType, Ends
<1>1. /\ reader[e] = "send" /\ reader'[e] = "read"
      /\ c1 = Append(c, Decode(p)) /\ part'[e] = <<>>
      /\ UNCHANGED <<loop, out, sent, wire, handled>>
  BY DEF HandOver, TypeOK, loopVars
<1>2. /\ \A i \in 1 .. Len(p) : p[i] = [type |-> t, piece |-> i]
      /\ n <= Len(s) /\ ~ TooLarge(t) /\ Len(p) = Pieces[t] + 1
  BY <1>1 DEF Receiver, Assembled
<1>3. Pipe(Way(e), s, n + 1, 0, w)  BY <1>1 DEF Receiver, Continued
<1>4. /\ Len(h) + Len(c) <= Len(s) /\ n = Len(h) + Len(c) + 1
      /\ \A k \in 1 .. Len(h) : h[k] = s[k] /\ ~ TooLarge(h[k])
      /\ \A k \in 1 .. Len(c) : c[k] = s[Len(h) + k] /\ ~ TooLarge(c[k])
  BY DEF Receiver, Arrived, Current
<1>5. part'[e] = <<>> /\ Way(e)' = Way(e)  BY <1>1 DEF Way
<1> HIDE DEF s, w, n, p, c, h, c1
<1>6. t \in Type  BY <1>0, <1>2, ElementOfSeq
<1>7. Decode(p) = t
  <2>1. /\ Frame(t) \in Seq(Piece) /\ Len(Frame(t)) = Pieces[t] + 1 /\ Pieces[t] \in Nat
        /\ \A i \in 1 .. Pieces[t] + 1 : Frame(t)[i] = [type |-> t, piece |-> i]
    BY <1>6, FrameProperties
  <2>2. p = Frame(t)
    <3>1. Len(p) = Len(Frame(t))  BY <1>2, <2>1
    <3>2. \A i \in 1 .. Len(p) : p[i] = Frame(t)[i]  BY <1>2, <2>1
    <3> QED BY <1>0, <2>1, <3>1, <3>2, SeqEqual
  <2>3. p[1].type = t
    <3>1. 1 \in 1 .. Len(p)  BY <1>2, <2>1
    <3>2. p[1] = [type |-> t, piece |-> 1]  BY <1>2, <3>1
    <3> QED BY <3>2
  <2> QED BY <2>2, <2>3 DEF Decode
<1>8. /\ Len(c1) = Len(c) + 1
      /\ \A i \in 1 .. Len(c) : c1[i] = c[i]
      /\ c1[Len(c) + 1] = t
  BY <1>0, <1>1, <1>6, <1>7, AppendProperties
<1>9. Arrived(e)'
  <2>1. Len(h) + Len(c1) <= Len(s)  BY <1>0, <1>2, <1>4, <1>8
  <2>2. ASSUME NEW k \in 1 .. Len(c1)  PROVE c1[k] = s[Len(h) + k] /\ ~ TooLarge(c1[k])
    <3>1. CASE k \in 1 .. Len(c)  BY <1>4, <1>8, <3>1
    <3>2. CASE k = Len(c) + 1
      <4>1. Len(h) + k = n  BY <1>0, <1>4, <3>2
      <4> QED BY <1>2, <1>8, <3>2, <4>1
    <3> QED BY <1>0, <1>8, <3>1, <3>2
  <2> QED BY <1>1, <1>4, <2>1, <2>2 DEF Arrived, s, h, c1
<1>10. Len(part'[e]) = 0  BY <1>5
<1>11. Current(e)' = n + 1
  <2>1. Len(h) + Len(c1) + 1 = n + 1  BY <1>0, <1>4, <1>8
  <2> QED BY <1>1, <2>1 DEF Current, h, c1
<1>12. Assembled(e)'  BY <1>1, <1>10 DEF Assembled
<1>13. Continued(e)'
  BY <1>1, <1>3, <1>5, <1>10, <1>11 DEF Continued, s, w
<1> QED BY <1>6, <1>7, <1>9, <1>12, <1>13 DEF Receiver, p

-------------------------------------------------------------------------------
(***************************************************************************)
(* The loop                                                                *)
(***************************************************************************)

\* A frame moves from the channel to those that are handled.
LEMMA HandleReceiver ==
  ASSUME TypeOK, TypeOK', NEW e \in End, Receiver(e), Handle(e)
  PROVE  Receiver(e)'
<1> DEFINE s == sent[Other(e)]
           c == chan[e]
           h == handled[e]
           c1 == chan'[e]
           h1 == handled'[e]
<1>0. /\ c \in Seq(Type \cup {"garbage"}) /\ h \in Seq(Type \cup {"garbage"})
      /\ Len(c) \in Nat /\ Len(h) \in Nat /\ Len(s) \in Nat
  BY EndType, Ends
<1>1. /\ c # <<>> /\ c1 = Tail(c) /\ h1 = Append(h, Head(c))
      /\ UNCHANGED <<loop, reader, part, wire>>
      /\ out'[Other(e)] = out[Other(e)] /\ sent'[Other(e)] = s
  BY Ends DEF Handle, StartFrame, TypeOK, readVars
<1>2. /\ Len(h) + Len(c) <= Len(s)
      /\ \A k \in 1 .. Len(h) : h[k] = s[k] /\ ~ TooLarge(h[k])
      /\ \A k \in 1 .. Len(c) : c[k] = s[Len(h) + k] /\ ~ TooLarge(c[k])
      /\ Current(e) = Len(h) + Len(c) + 1 /\ Current(e)' = Len(h1) + Len(c1) + 1
  BY DEF Receiver, Arrived, Current
<1> HIDE DEF s, c, h, c1, h1
<1>3. /\ Head(c) = c[1] /\ Head(c) \in Type \cup {"garbage"}
      /\ Len(c) = Len(c1) + 1 /\ Len(c1) \in Nat
      /\ \A i \in 1 .. Len(c1) : c1[i] = c[i + 1]
  BY <1>0, <1>1, HeadAndTail
<1>4. /\ Len(h1) = Len(h) + 1 /\ \A i \in 1 .. Len(h) : h1[i] = h[i]
      /\ h1[Len(h) + 1] = c[1]
  BY <1>0, <1>1, <1>3, AppendProperties
<1>5. Len(h1) + Len(c1) = Len(h) + Len(c)  BY <1>0, <1>3, <1>4
<1>6. Current(e)' = Current(e)  BY <1>2, <1>5
<1>7. Arrived(e)'
  <2>1. ASSUME NEW k \in 1 .. Len(h1)  PROVE h1[k] = s[k] /\ ~ TooLarge(h1[k])
    <3>1. CASE k \in 1 .. Len(h)  BY <1>2, <1>4, <3>1
    <3>2. CASE k = Len(h) + 1
      <4>1. 1 \in 1 .. Len(c)  BY <1>0, <1>3
      <4> QED BY <1>2, <1>4, <3>2, <4>1
    <3> QED BY <1>0, <1>4, <3>1, <3>2
  <2>2. ASSUME NEW k \in 1 .. Len(c1)  PROVE c1[k] = s[Len(h1) + k] /\ ~ TooLarge(c1[k])
    <3>1. k + 1 \in 1 .. Len(c) /\ Len(h) + (k + 1) = Len(h1) + k  BY <1>0, <1>3, <1>4
    <3> QED BY <1>2, <1>3, <3>1
  <2> QED BY <1>1, <1>2, <1>5, <2>1, <2>2 DEF Arrived, s, h1, c1
<1>8. Assembled(e)' /\ Continued(e)'
  <2>1. Way(e)' = Way(e)  BY <1>1 DEF Way
  <2> QED BY <1>1, <1>6, <2>1 DEF Receiver, Assembled, Continued, s
<1> QED BY <1>7, <1>8 DEF Receiver

-------------------------------------------------------------------------------
(***************************************************************************)
(* Types                                                                   *)
(***************************************************************************)

\* What is left of the way to the other end when e closes its connection.
LEMMA CutType ==
  ASSUME TypeOK, NEW e \in End, NEW k \in 0 .. Len(wire[Other(e)]),
         wire' = [wire EXCEPT ![e] = <<>>, ![Other(e)] = SubSeq(@, 1, k)]
  PROVE  /\ wire' \in [End -> Seq(Piece)] /\ \A x \in End : Len(wire'[x]) <= WireCap
         /\ wire'[e] = <<>>
         /\ wire'[Other(e)] \in Seq(Piece) /\ Len(wire'[Other(e)]) = k
         /\ \A i \in 1 .. k : wire'[Other(e)][i] = wire[Other(e)][i]
<1> DEFINE q == wire[Other(e)]
           r == SubSeq(q, 1, k)
<1>1. q \in Seq(Piece) /\ Len(q) \in Nat /\ Len(q) <= WireCap /\ WireCap \in Nat
  BY EndType, Ends, WireAssumption DEF TypeOK
<1>2. wire'[e] = <<>> /\ wire'[Other(e)] = r /\ wire' \in [End -> {<<>>, r} \cup Seq(Piece)]
  BY Ends DEF TypeOK
<1> HIDE DEF q
<1>3. r \in Seq(Piece) /\ Len(r) = k /\ \A i \in 1 .. k : r[i] = q[i]
  BY <1>1, SubSeqProperties DEF q
<1> HIDE DEF r
<1>4. k <= WireCap /\ Len(<<>>) <= WireCap  BY <1>1 DEF q
<1>5. \A x \in End : x = e \/ x = Other(e)  BY DEF End, Other
<1>6. wire' \in [End -> Seq(Piece)]
  <2>1. <<>> \in Seq(Piece)  OBVIOUS
  <2> QED BY <1>2, <1>3, <2>1
<1>7. \A x \in End : Len(wire'[x]) <= WireCap
  BY <1>2, <1>3, <1>4, <1>5
<1> QED BY <1>2, <1>3, <1>6, <1>7 DEF q

LEMMA StepType == IInv /\ [Next]_vars => TypeOK'
<1> SUFFICES ASSUME IInv, [Next]_vars  PROVE TypeOK'
  OBVIOUS
<1>0. TypeOK  BY DEF IInv
<1>1. CASE UNCHANGED vars  BY <1>0, <1>1 DEF TypeOK, vars, loopVars, readVars
<1>2. ASSUME NEW e \in End, NEW t \in Own[e], SendOwn(e, t)  PROVE TypeOK'
  <2>1. t \in Type  BY WireAssumption DEF Type, Delta
  <2>2. Frame(t) \in Seq(Piece)  BY <2>1, FrameProperties
  <2>3. Append(sent[e], t) \in Seq(Type)  BY <1>0, <2>1, EndType, AppendProperties
  <2>4. own' \in [End -> Nat] /\ \A x \in End : own'[x] <= MaxOwn[x]
    <3>1. own[e] \in Nat /\ own[e] + 1 <= MaxOwn[e]
      <4> DEFINE a == own[e]
                 b == MaxOwn[e]
      <4>1. a \in Nat /\ b \in Nat  BY <1>0, WireAssumption DEF TypeOK
      <4>2. a < b  BY <1>2 DEF SendOwn
      <4> HIDE DEF a, b
      <4>3. a + 1 <= b  BY <4>1, <4>2
      <4> QED BY <4>1, <4>3 DEF a, b
    <3>2. own' = [own EXCEPT ![e] = own[e] + 1] /\ own \in [End -> Nat]
      BY <1>0, <1>2 DEF TypeOK, SendOwn
    <3>3. own[e] + 1 \in Nat  BY <3>1
    <3>4. own' \in [End -> Nat] /\ own'[e] = own[e] + 1 /\ \A x \in End \ {e} : own'[x] = own[x]
      BY <3>2, <3>3
    <3>5. \A x \in End : own[x] <= MaxOwn[x]  BY <1>0 DEF TypeOK
    <3> QED BY <3>1, <3>4, <3>5
  <2> QED BY <1>0, <1>2, <2>2, <2>3, <2>4 DEF TypeOK, SendOwn, StartFrame, readVars
<1>b. ASSUME NEW e \in End, NEW t \in First[e], SendInitial(e, t)  PROVE TypeOK'
  <2>1. t \in Type  BY WireAssumption DEF Type, Delta
  <2>2. Frame(t) \in Seq(Piece)  BY <2>1, FrameProperties
  <2>3. Append(sent[e], t) \in Seq(Type)  BY <1>0, <2>1, EndType, AppendProperties
  <2> QED BY <1>0, <1>b, <2>2, <2>3 DEF TypeOK, SendInitial, StartFrame, readVars
<1>c. ASSUME NEW e \in End, EnterLoop(e)  PROVE TypeOK'
  BY <1>0, <1>c DEF TypeOK, EnterLoop, loopVars
<1>3. ASSUME NEW e \in End, Handle(e)  PROVE TypeOK'
  <2>1. chan[e] \in Seq(Type \cup {"garbage"}) /\ handled[e] \in Seq(Type \cup {"garbage"})
    BY <1>0, EndType
  <2>2. /\ Tail(chan[e]) \in Seq(Type \cup {"garbage"}) /\ Len(Tail(chan[e])) <= ChannelCap
        /\ Head(chan[e]) \in Type \cup {"garbage"}
    <3>1. /\ Tail(chan[e]) \in Seq(Type \cup {"garbage"}) /\ Len(chan[e]) = Len(Tail(chan[e])) + 1
          /\ Head(chan[e]) \in Type \cup {"garbage"} /\ Len(Tail(chan[e])) \in Nat
      BY <1>3, <2>1, HeadAndTail DEF Handle
    <3> DEFINE a == Len(chan[e])
               b == Len(Tail(chan[e]))
    <3>2. a = b + 1 /\ b \in Nat /\ a <= ChannelCap /\ ChannelCap \in Nat
      BY <1>0, <3>1, WireAssumption DEF TypeOK
    <3> HIDE DEF a, b
    <3>3. b <= ChannelCap  BY <3>2
    <3> QED BY <3>1, <3>3 DEF b
  <2>3. Append(handled[e], Head(chan[e])) \in Seq(Type \cup {"garbage"})
    BY <2>1, <2>2, AppendProperties
  <2>4. /\ chan' \in [End -> Seq(Type \cup {"garbage"})] /\ \A x \in End : Len(chan'[x]) <= ChannelCap
        /\ handled' \in [End -> Seq(Type \cup {"garbage"})]
    BY <1>0, <1>3, <2>2, <2>3 DEF TypeOK, Handle
  <2>5. "ack" \in Type  BY DEF Type
  <2>6. Frame("ack") \in Seq(Piece) /\ Append(sent[e], "ack") \in Seq(Type)
    BY <1>0, <2>5, EndType, AppendProperties, FrameProperties
  <2>7. out' \in [End -> Seq(Piece)] /\ sent' \in [End -> Seq(Type)]
    BY <1>0, <1>3, <2>6 DEF TypeOK, Handle, StartFrame
  <2> QED BY <1>0, <1>3, <2>4, <2>7 DEF TypeOK, Handle, readVars
<1>4. ASSUME NEW e \in End, LoopEnds(e), UNCHANGED wire  PROVE TypeOK'
  <2>1. /\ <<>> \in Seq(Piece) /\ <<>> \in Seq(Type \cup {"garbage"})
        /\ Len(<<>>) <= ChannelCap
    BY WireAssumption
  <2> QED BY <1>0, <1>4, <2>1 DEF TypeOK, LoopEnds
<1>5. ASSUME NEW e \in End, WritePiece(e)  PROVE TypeOK'
  <2> DEFINE o == Other(e)
  <2>0. o \in End /\ out[e] # <<>> /\ out[e] \in Seq(Piece) /\ wire[o] \in Seq(Piece)
    BY <1>0, <1>5, EndType, Ends DEF WritePiece
  <2>1. Head(out[e]) \in Piece /\ Tail(out[e]) \in Seq(Piece)  BY <2>0, HeadAndTail
  <2>2. CASE /\ Len(wire[o]) < WireCap
             /\ wire' = [wire EXCEPT ![o] = Append(@, Head(out[e]))]
             /\ out' = [out EXCEPT ![e] = Tail(@)]
             /\ UNCHANGED <<loop, sent, own, readVars, chan, handled>>
    <3>1. Append(wire[o], Head(out[e])) \in Seq(Piece) /\ Len(Append(wire[o], Head(out[e]))) <= WireCap
      <4> DEFINE q == Append(wire[o], Head(out[e]))
                 a == Len(wire[o])
      <4>1. q \in Seq(Piece) /\ Len(q) = a + 1  BY <2>0, <2>1, AppendProperties
      <4>2. a \in Nat /\ a < WireCap /\ WireCap \in Nat  BY <2>0, <2>2, LenProperties, WireAssumption
      <4> HIDE DEF a, q
      <4>3. Len(q) <= WireCap  BY <4>1, <4>2
      <4> QED BY <4>1, <4>3 DEF q
    <3> QED BY <1>0, <2>0, <2>1, <2>2, <3>1 DEF TypeOK, readVars
  <2>3. CASE out' = [out EXCEPT ![e] = Tail(@)]
             /\ UNCHANGED <<loop, sent, own, readVars, chan, handled, wire>>
    BY <1>0, <2>1, <2>3 DEF TypeOK, readVars
  <2>4. CASE LoopEnds(e) /\ UNCHANGED wire  BY <1>4, <2>4
  <2> QED BY <1>5, <2>2, <2>3, <2>4 DEF WritePiece
<1>6. ASSUME NEW e \in End, Close(e)  PROVE TypeOK'
  <2>1. PICK k \in 0 .. Len(wire[Other(e)]) :
               wire' = [wire EXCEPT ![e] = <<>>, ![Other(e)] = SubSeq(@, 1, k)]
    BY <1>6 DEF Close
  <2>2. wire' \in [End -> Seq(Piece)] /\ \A x \in End : Len(wire'[x]) <= WireCap
    BY <1>0, <2>1, CutType
  <2> QED BY <1>0, <1>6, <2>2 DEF TypeOK, Close, readVars
<1>7. ASSUME NEW e \in End, Crash(e)  PROVE TypeOK'
  <2>1. PICK k \in 0 .. Len(wire[Other(e)]) :
               wire' = [wire EXCEPT ![e] = <<>>, ![Other(e)] = SubSeq(@, 1, k)]
    BY <1>7 DEF Crash
  <2>2. wire' \in [End -> Seq(Piece)] /\ \A x \in End : Len(wire'[x]) <= WireCap
    BY <1>0, <2>1, CutType
  <2>3. /\ <<>> \in Seq(Piece) /\ <<>> \in Seq(Type \cup {"garbage"})
        /\ Len(<<>>) <= ChannelCap
    BY WireAssumption
  <2> QED BY <1>0, <1>7, <2>2, <2>3 DEF TypeOK, Crash
<1>8. ASSUME NEW e \in End, ReadPiece(e)  PROVE TypeOK'
  <2>1. wire[e] # <<>> /\ wire[e] \in Seq(Piece) /\ part[e] \in Seq(Piece)
    BY <1>0, <1>8, EndType DEF ReadPiece
  <2>2. /\ Head(wire[e]) \in Piece /\ Tail(wire[e]) \in Seq(Piece)
        /\ Len(wire[e]) = Len(Tail(wire[e])) + 1 /\ Len(Tail(wire[e])) \in Nat
    BY <2>1, HeadAndTail
  <2>3. Len(Tail(wire[e])) <= WireCap
    <3> DEFINE a == Len(wire[e])
               b == Len(Tail(wire[e]))
    <3>1. a = b + 1 /\ b \in Nat /\ a <= WireCap /\ WireCap \in Nat
      BY <1>0, <2>2, WireAssumption DEF TypeOK
    <3> HIDE DEF a, b
    <3>2. b <= WireCap  BY <3>1
    <3> QED BY <3>2 DEF b
  <2>4. Append(part[e], Head(wire[e])) \in Seq(Piece)  BY <2>1, <2>2, AppendProperties
  <2>5. Progress(part'[e]) \in {"read", "send", "over"}  BY DEF Progress
  <2> QED BY <1>0, <1>8, <2>2, <2>3, <2>4, <2>5 DEF TypeOK, ReadPiece, loopVars
<1>9. ASSUME NEW e \in End, HandOver(e)  PROVE TypeOK'
  <2>1. Decode(part[e]) \in Type \cup {"garbage"}  BY <1>0, <1>9, HandOverReceiver DEF IInv
  <2>2. chan[e] \in Seq(Type \cup {"garbage"})  BY <1>0, EndType
  <2> DEFINE c == Append(chan[e], Decode(part[e]))
             a == Len(chan[e])
  <2>3. c \in Seq(Type \cup {"garbage"}) /\ Len(c) = a + 1
    BY <2>1, <2>2, AppendProperties
  <2>4. a \in Nat /\ a < ChannelCap /\ ChannelCap \in Nat
    BY <1>9, <2>2, LenProperties, WireAssumption DEF HandOver
  <2>5. chan' = [chan EXCEPT ![e] = c]  BY <1>9 DEF HandOver
  <2> HIDE DEF c, a
  <2>6. Len(c) <= ChannelCap  BY <2>3, <2>4
  <2>7. <<>> \in Seq(Piece)  OBVIOUS
  <2> QED BY <1>0, <1>9, <2>3, <2>5, <2>6, <2>7 DEF TypeOK, HandOver, loopVars
<1>10. ASSUME NEW e \in End, ReadEnd(e)  PROVE TypeOK'
  BY <1>0, <1>10 DEF TypeOK, ReadEnd, loopVars
<1> QED
  BY <1>1, <1>2, <1>b, <1>c, <1>3, <1>4, <1>5, <1>6, <1>7, <1>8, <1>9, <1>10
     DEF Next, Work, Read, ReaderIsOver, LeaveLoop

-------------------------------------------------------------------------------
(***************************************************************************)
(* The steps                                                               *)
(***************************************************************************)

\* A piece that is written stays on its way.
LEMMA WayWritten ==
  ASSUME NEW S, NEW q \in Seq(S), NEW r \in Seq(S), r # <<>>
  PROVE  Append(q, Head(r)) \o Tail(r) = q \o r
<1>1. Head(r) \in S /\ Tail(r) \in Seq(S)  BY HeadAndTail
<1>2. Append(q, Head(r)) = q \o <<Head(r)>>  BY <1>1, AppendIsConcat
<1>3. <<Head(r)>> \in Seq(S)  BY <1>1
<1>4. (q \o <<Head(r)>>) \o Tail(r) = q \o (<<Head(r)>> \o Tail(r))
  BY <1>1, <1>3, ConcatAssociative
<1>5. <<Head(r)>> \o Tail(r) = r  BY HeadTailProperties
<1> QED BY <1>2, <1>4, <1>5

\* e's loop ends, or the rest of what it would read no longer matters; its peer
\* keeps what has been written to it.
LEMMA LoopEndsReceivers ==
  ASSUME IInv, TypeOK', NEW e \in End, LoopEnds(e), UNCHANGED wire,
         out[e] = <<>> \/ loop[Other(e)] = "closed"
  PROVE  \A x \in End : Receiver(x)' /\ Over(x)'
<1> DEFINE o == Other(e)
<1>0. /\ TypeOK /\ o \in End /\ o # e /\ Other(o) = e /\ \A x \in End : x = e \/ x = o
      /\ Receiver(e) /\ Receiver(o) /\ Over(o)
  BY Ends DEF IInv, End, Other
<1>1. /\ loop'[e] = "ended" /\ out'[e] = <<>> /\ chan'[e] = <<>> /\ reader'[e] = "over"
      /\ loop'[o] = loop[o] /\ out'[o] = out[o] /\ chan'[o] = chan[o] /\ reader'[o] = reader[o]
      /\ part'[o] = part[o] /\ UNCHANGED <<sent, handled, wire>>
  BY <1>0 DEF LoopEnds, TypeOK
<1> HIDE DEF o
<1>2. Receiver(e)'  BY <1>0, <1>1, ReceiverOver
<1>3. Receiver(o)'
  <2>1. CASE out[e] = <<>>
    <3>1. Way(o)' = Way(o)  BY <1>0, <1>1, <2>1 DEF Way
    <3>2. Way(o) \in Seq(Piece) /\ Len(Way(o)) \in Nat  BY <1>0, EndType, LenProperties
    <3>3. /\ loop'[e] # "run" /\ Way(o)' \in Seq(Piece) /\ Len(Way(o)') <= Len(Way(o))
          /\ \A i \in 1 .. Len(Way(o)') : Way(o)'[i] = Way(o)[i]
      BY <1>1, <3>1, <3>2
    <3> QED BY <1>0, <1>1, <3>3, ReceiverKept
  <2>2. CASE loop[o] = "closed"
    <3>1. reader[o] = "over"  BY <1>0, <2>2 DEF Over
    <3> QED BY <1>0, <1>1, <3>1, ReceiverOver
  <2> QED BY <2>1, <2>2 DEF o
<1>4. Over(e)' /\ Over(o)'  BY <1>0, <1>1 DEF Over
<1> QED BY <1>0, <1>2, <1>3, <1>4

\* e closes its connection: what is on its way to the other end loses its end.
LEMMA CutReceivers ==
  ASSUME IInv, TypeOK', NEW e \in End, NEW k \in 0 .. Len(wire[Other(e)]),
         wire' = [wire EXCEPT ![e] = <<>>, ![Other(e)] = SubSeq(@, 1, k)],
         loop'[e] = "closed", out'[e] = <<>>, chan'[e] = <<>>, reader'[e] = "over",
         loop'[Other(e)] = loop[Other(e)], out'[Other(e)] = out[Other(e)],
         chan'[Other(e)] = chan[Other(e)], reader'[Other(e)] = reader[Other(e)],
         part'[Other(e)] = part[Other(e)], UNCHANGED <<sent, handled>>
  PROVE  \A x \in End : Receiver(x)' /\ Over(x)'
<1> DEFINE o == Other(e)
<1>0. /\ TypeOK /\ o \in End /\ o # e /\ Other(o) = e /\ \A x \in End : x = e \/ x = o
      /\ Receiver(e) /\ Receiver(o) /\ Over(o)
  BY Ends DEF IInv, End, Other
<1>1. wire'[o] \in Seq(Piece) /\ Len(wire'[o]) = k /\ \A i \in 1 .. k : wire'[o][i] = wire[o][i]
  BY <1>0, CutType
<1>2. Receiver(e)'  BY <1>0, ReceiverOver
<1>3. /\ Way(o)' \in Seq(Piece) /\ Len(Way(o)') <= Len(Way(o))
      /\ \A i \in 1 .. Len(Way(o)') : Way(o)'[i] = Way(o)[i]
  <2> DEFINE a == Len(wire[o])
             b == Len(out[e])
             v == Way(o)
  <2>1. /\ a \in Nat /\ b \in Nat /\ Len(v) = a + b
        /\ \A i \in 1 .. Len(v) : v[i] = IF i <= a THEN wire[o][i] ELSE out[e][i - a]
    BY <1>0, EndType
  <2>2. Way(o)' = wire'[o]  BY <1>0, <1>1, ConcatEmptySeq DEF Way
  <2>3. k \in 0 .. a  BY DEF o
  <2> HIDE DEF a, b, v
  <2>4. /\ k <= Len(v)
        /\ \A i \in 1 .. k : i \in 1 .. Len(v) /\ i <= a
    BY <2>1, <2>3
  <2>5. \A i \in 1 .. k : v[i] = wire[o][i]  BY <2>1, <2>4
  <2> QED BY <1>1, <2>2, <2>4, <2>5 DEF v
<1>4. Receiver(o)'
  <2>1. loop'[Other(o)] # "run"  BY <1>0
  <2> QED BY <1>0, <1>3, <2>1, ReceiverKept
<1>5. Over(e)' /\ Over(o)'  BY <1>0 DEF Over
<1> QED BY <1>0, <1>2, <1>4, <1>5

LEMMA StepReceivers == IInv /\ [Next]_vars => \A x \in End : Receiver(x)' /\ Over(x)'
<1> SUFFICES ASSUME IInv, [Next]_vars  PROVE \A x \in End : Receiver(x)' /\ Over(x)'
  OBVIOUS
<1>0. TypeOK /\ TypeOK' /\ \A x \in End : Receiver(x) /\ Over(x)  BY StepType DEF IInv
<1>a. \A e \in End : \A x \in End : x = e \/ x = Other(e)  BY DEF End, Other
<1>1. CASE UNCHANGED vars
  <2>1. UNCHANGED <<loop, out, wire, reader, part, chan, sent, handled>>
    BY <1>1 DEF vars, loopVars, readVars
  <2>2. \A x \in End : Way(x)' = Way(x)  BY <2>1 DEF Way
  <2>3. \A x \in End : Over(x)'  BY <1>0, <2>1 DEF Over
  <2>4. ASSUME NEW x \in End  PROVE Receiver(x)'
    BY <1>0, <2>1, <2>2, ReceiverKept
  <2> QED BY <2>3, <2>4
<1>2. ASSUME NEW e \in End, NEW t \in First[e] \cup Own[e],
             SendInitial(e, t) \/ SendOwn(e, t)
      PROVE  \A x \in End : Receiver(x)' /\ Over(x)'
  <2> DEFINE o == Other(e)
  <2>0. o \in End /\ o # e /\ Other(o) = e /\ t \in Type  BY Ends, WireAssumption DEF Type, Delta
  <2>1. /\ loop[e] = "run" /\ out[e] = <<>> /\ out'[e] = Frame(t) /\ sent'[e] = Append(sent[e], t)
        /\ out'[o] = out[o] /\ sent'[o] = sent[o]
        /\ UNCHANGED <<loop, reader, part, wire, chan, handled>>
    BY <1>0, <1>2, <2>0 DEF SendInitial, SendOwn, Ready, StartFrame, readVars, TypeOK, Over
  <2> HIDE DEF o
  <2>2. Way(e)' = Way(e)  BY <2>0, <2>1 DEF Way, o
  <2>3. Receiver(e)'  BY <1>0, <2>1, <2>2, ReceiverKept DEF o
  <2>4. Receiver(o)'  BY <1>0, <2>0, <2>1, FrameSent
  <2>5. sent'[e] # <<>>  BY <1>0, <2>0, <2>1, EndType, AppendProperties
  <2>6. Over(e)' /\ Over(o)'  BY <1>0, <2>0, <2>1, <2>5 DEF Over
  <2> QED BY <1>a, <2>3, <2>4, <2>6 DEF o
<1>b. ASSUME NEW e \in End, EnterLoop(e)  PROVE \A x \in End : Receiver(x)' /\ Over(x)'
  <2> DEFINE o == Other(e)
  <2>0. o \in End /\ o # e /\ Other(o) = e  BY Ends
  <2>1. /\ reader[e] = "none" /\ reader'[e] = "read" /\ reader'[o] = reader[o]
        /\ UNCHANGED <<loop, out, sent, wire, part, chan, handled>>
    BY <1>0, <1>b, <2>0 DEF EnterLoop, loopVars, TypeOK
  <2> HIDE DEF o
  <2>2. \A x \in End : Way(x)' = Way(x) /\ Current(x)' = Current(x)  BY <2>1 DEF Way, Current
  <2>3. Receiver(e)'
    <3>1. Arrived(e)'  BY <1>0, <2>1 DEF Receiver, Arrived
    <3>2. part[e] = <<>> /\ Len(part[e]) = 0  BY <1>0, <2>1 DEF Receiver, Assembled
    <3>3. Assembled(e)'  BY <2>1, <3>2 DEF Assembled
    <3>4. Continued(e)'  BY <1>0, <2>1, <2>2 DEF Receiver, Continued
    <3> QED BY <3>1, <3>3, <3>4 DEF Receiver
  <2>4. Receiver(o)'  BY <1>0, <2>0, <2>1, <2>2, ReceiverKept
  <2>5. Over(e)' /\ Over(o)'  BY <1>0, <2>0, <2>1 DEF Over
  <2> QED BY <1>a, <2>3, <2>4, <2>5 DEF o
<1>3. ASSUME NEW e \in End, Handle(e)  PROVE \A x \in End : Receiver(x)' /\ Over(x)'
  <2> DEFINE o == Other(e)
  <2>0. o \in End /\ o # e /\ Other(o) = e  BY Ends
  <2>1. /\ loop[e] = "run" /\ out[e] = <<>>
        /\ out'[o] = out[o] /\ chan'[o] = chan[o] /\ handled'[o] = handled[o]
        /\ UNCHANGED <<loop, reader, part, wire>>
        /\ \/ out'[e] = Frame("ack") /\ sent'[e] = Append(sent[e], "ack")
           \/ UNCHANGED <<out, sent>>
    BY <1>0, <1>3, <2>0 DEF Handle, Ready, StartFrame, readVars, TypeOK
  <2>2. Receiver(e)'  BY <1>0, <1>3, HandleReceiver
  <2> HIDE DEF o
  <2>3. Receiver(o)'
    <3>1. CASE out'[e] = Frame("ack") /\ sent'[e] = Append(sent[e], "ack")
      <4>1. "ack" \in Type  BY DEF Type
      <4> QED BY <1>0, <2>0, <2>1, <3>1, <4>1, FrameSent
    <3>2. CASE UNCHANGED <<out, sent>>
      <4>1. Way(o)' = Way(o)  BY <2>1, <3>2 DEF Way
      <4> QED BY <1>0, <2>0, <2>1, <3>2, <4>1, ReceiverKept
    <3> QED BY <2>1, <3>1, <3>2
  <2>4. Append(sent[e], "ack") # <<>>
    <3>1. "ack" \in Type  BY DEF Type
    <3> QED BY <1>0, <3>1, EndType, AppendProperties
  <2>5. sent'[o] = sent[o]  BY <1>0, <1>3, <2>0 DEF Handle, StartFrame, TypeOK
  <2>6. Over(e)' /\ Over(o)'  BY <1>0, <2>0, <2>1, <2>4, <2>5 DEF Over
  <2> QED BY <1>a, <2>2, <2>3, <2>6 DEF o
<1>4. ASSUME NEW e \in End, LeaveLoop(e) \/ ReaderIsOver(e)
      PROVE  \A x \in End : Receiver(x)' /\ Over(x)'
  BY <1>0, <1>4, LoopEndsReceivers DEF LeaveLoop, ReaderIsOver, Ready
<1>5. ASSUME NEW e \in End, WritePiece(e)  PROVE \A x \in End : Receiver(x)' /\ Over(x)'
  <2> DEFINE o == Other(e)
  <2>0. o \in End /\ o # e /\ Other(o) = e /\ out[e] # <<>>  BY <1>5, Ends DEF WritePiece
  <2>1. CASE /\ wire' = [wire EXCEPT ![o] = Append(@, Head(out[e]))]
             /\ out' = [out EXCEPT ![e] = Tail(@)]
             /\ UNCHANGED <<loop, sent, own, readVars, chan, handled>>
    <3>1. /\ wire'[o] = Append(wire[o], Head(out[e])) /\ wire'[e] = wire[e]
          /\ out'[e] = Tail(out[e]) /\ out'[o] = out[o]
          /\ UNCHANGED <<loop, sent, reader, part, chan, handled>>
      BY <1>0, <2>0, <2>1 DEF TypeOK, readVars
    <3>2. wire[o] \in Seq(Piece) /\ out[e] \in Seq(Piece)  BY <1>0, <2>0, EndType
    <3>3. Way(e)' = Way(e)  BY <3>1 DEF Way
    <3>4. Way(o)' = Way(o)
      <4>1. Append(wire[o], Head(out[e])) \o Tail(out[e]) = wire[o] \o out[e]
        BY <2>0, <3>2, WayWritten
      <4>2. Way(o) = wire[o] \o out[e] /\ Way(o)' = wire'[o] \o out'[e]  BY <2>0 DEF Way
      <4> QED BY <3>1, <4>1, <4>2
    <3> HIDE DEF o
    <3>5. Receiver(e)'  BY <1>0, <3>1, <3>3, ReceiverKept
    <3>6. Receiver(o)'  BY <1>0, <2>0, <3>1, <3>4, ReceiverKept
    <3>7. Over(e)' /\ Over(o)'  BY <1>0, <2>0, <3>1 DEF Over
    <3> QED BY <1>a, <3>5, <3>6, <3>7 DEF o
  <2>2. CASE /\ loop[o] = "closed" /\ out' = [out EXCEPT ![e] = Tail(@)]
             /\ UNCHANGED <<loop, sent, own, readVars, chan, handled, wire>>
    <3>1. /\ out'[o] = out[o] /\ UNCHANGED <<loop, sent, reader, part, chan, handled, wire>>
      BY <1>0, <2>0, <2>2 DEF TypeOK, readVars
    <3>2. loop[e] = "run"  BY <1>0, <2>0 DEF Over
    <3>3. Way(e)' = Way(e)  BY <3>1 DEF Way
    <3>4. reader[o] = "over"  BY <1>0, <2>0, <2>2 DEF Over
    <3> HIDE DEF o
    <3>5. Receiver(e)'  BY <1>0, <3>1, <3>3, ReceiverKept
    <3>6. Receiver(o)'  BY <1>0, <2>0, <3>1, <3>4, ReceiverOver
    <3>7. Over(e)' /\ Over(o)'  BY <1>0, <2>0, <3>1, <3>2 DEF Over
    <3> QED BY <1>a, <3>5, <3>6, <3>7 DEF o
  <2>3. CASE loop[o] = "closed" /\ LoopEnds(e) /\ UNCHANGED wire
    BY <1>0, <2>3, LoopEndsReceivers
  <2> QED BY <1>5, <2>1, <2>2, <2>3 DEF WritePiece
<1>6. ASSUME NEW e \in End, Close(e)  PROVE \A x \in End : Receiver(x)' /\ Over(x)'
  <2> DEFINE o == Other(e)
  <2>0. o \in End /\ o # e /\ Other(o) = e  BY Ends
  <2>1. PICK k \in 0 .. Len(wire[Other(e)]) :
               wire' = [wire EXCEPT ![e] = <<>>, ![Other(e)] = SubSeq(@, 1, k)]
    BY <1>6 DEF Close
  <2>2. out[e] = <<>> /\ chan[e] = <<>> /\ reader[e] = "over"  BY <1>0, <1>6 DEF Over, Close
  <2>3. /\ loop'[e] = "closed" /\ loop'[o] = loop[o]
        /\ UNCHANGED <<out, sent, reader, part, chan, handled>>
    BY <1>0, <1>6, <2>0 DEF TypeOK, Close, readVars
  <2> QED BY <1>0, <2>1, <2>2, <2>3, CutReceivers
<1>7. ASSUME NEW e \in End, Crash(e)  PROVE \A x \in End : Receiver(x)' /\ Over(x)'
  <2> DEFINE o == Other(e)
  <2>0. o \in End /\ o # e /\ Other(o) = e  BY Ends
  <2>1. PICK k \in 0 .. Len(wire[Other(e)]) :
               wire' = [wire EXCEPT ![e] = <<>>, ![Other(e)] = SubSeq(@, 1, k)]
    BY <1>7 DEF Crash
  <2>2. /\ loop'[e] = "closed" /\ out'[e] = <<>> /\ chan'[e] = <<>> /\ reader'[e] = "over"
        /\ loop'[o] = loop[o] /\ out'[o] = out[o] /\ chan'[o] = chan[o] /\ reader'[o] = reader[o]
        /\ part'[o] = part[o] /\ UNCHANGED <<sent, handled>>
    BY <1>0, <1>7, <2>0 DEF TypeOK, Crash
  <2> QED BY <1>0, <2>1, <2>2, CutReceivers
<1>8. ASSUME NEW e \in End, ReadPiece(e) \/ HandOver(e) \/ ReadEnd(e)
      PROVE  \A x \in End : Receiver(x)' /\ Over(x)'
  <2> DEFINE o == Other(e)
  <2>0. o \in End /\ o # e /\ Other(o) = e  BY Ends
  <2>1. /\ reader[e] = "read" \/ reader[e] = "send"
        /\ wire'[o] = wire[o] /\ reader'[o] = reader[o] /\ part'[o] = part[o] /\ chan'[o] = chan[o]
        /\ UNCHANGED <<loop, out, sent, handled>>
    BY <1>0, <1>8, <2>0 DEF ReadPiece, HandOver, ReadEnd, TypeOK, loopVars
  <2>2. Receiver(e)'
    <3>1. CASE ReadPiece(e)  BY <1>0, <3>1, ReadPieceReceiver
    <3>2. CASE HandOver(e)  BY <1>0, <3>2, HandOverReceiver
    <3>3. CASE ReadEnd(e)
      <4>1. reader'[e] = "over" /\ UNCHANGED <<sent, chan, handled>>
        BY <1>0, <3>3 DEF ReadEnd, TypeOK, loopVars
      <4> QED BY <1>0, <4>1, ReceiverOver
    <3> QED BY <1>8, <3>1, <3>2, <3>3
  <2>3. Way(o)' = Way(o)  BY <2>0, <2>1 DEF Way
  <2> HIDE DEF o
  <2>4. Receiver(o)'  BY <1>0, <2>0, <2>1, <2>3, ReceiverKept
  <2>5. Over(e)'
    <3>1. loop[e] = "run"  BY <1>0, <2>1 DEF Over
    <3> QED BY <1>0, <2>1, <3>1 DEF Over
  <2>6. Over(o)'  BY <1>0, <2>0, <2>1 DEF Over
  <2> QED BY <1>a, <2>2, <2>4, <2>5, <2>6 DEF o
<1> QED BY <1>1, <1>2, <1>b, <1>3, <1>4, <1>5, <1>6, <1>7, <1>8 DEF Next, Work, Read

-------------------------------------------------------------------------------
(***************************************************************************)
(* Theorems                                                                *)
(***************************************************************************)

LEMMA InitInv == Init => IInv
<1> SUFFICES ASSUME Init  PROVE IInv
  OBVIOUS
<1>1. TypeOK
  <2>1. /\ <<>> \in Seq(Piece) /\ <<>> \in Seq(Type) /\ <<>> \in Seq(Type \cup {"garbage"})
        /\ Len(<<>>) = 0
    OBVIOUS
  <2>2. ChannelCap \in Nat /\ WireCap \in Nat /\ \A e \in End : MaxOwn[e] \in Nat
    BY WireAssumption
  <2>3. own \in [End -> Nat] /\ \A e \in End : own[e] <= MaxOwn[e]  BY <2>2 DEF Init
  <2> QED BY <2>1, <2>2, <2>3 DEF Init, TypeOK
<1>2. ASSUME NEW e \in End  PROVE Receiver(e) /\ Over(e)
  <2>0. /\ handled[e] = <<>> /\ chan[e] = <<>> /\ part[e] = <<>> /\ reader[e] = "none"
        /\ sent[Other(e)] = <<>> /\ loop[e] = "run" /\ wire[e] = <<>> /\ out[Other(e)] = <<>>
        /\ out[e] = <<>>
    BY Ends DEF Init
  <2>1. Len(<<>>) = 0 /\ Current(e) = 1 /\ Way(e) = <<>>  BY <2>0 DEF Current, Way
  <2>2. Pipe(<<>>, <<>>, 1, 0, loop[Other(e)])
    <3> DEFINE f == [i \in 0 .. 0 |-> 1]
               g == [i \in 0 .. 0 |-> 0]
    <3>1. f \in [0 .. 0 -> Nat] /\ g \in [0 .. 0 -> Nat] /\ f[0] = 1 /\ g[0] = 0  OBVIOUS
    <3> HIDE DEF f, g
    <3>2. Numbered(<<>>, <<>>, f, g)  BY <2>1 DEF Numbered
    <3> QED BY <2>1, <3>1, <3>2 DEF Pipe
  <2>3. Arrived(e)  BY <2>0, <2>1 DEF Arrived
  <2>4. Assembled(e)  BY <2>0, <2>1 DEF Assembled
  <2>5. Continued(e)  BY <2>0, <2>1, <2>2 DEF Continued
  <2> QED BY <2>0, <2>3, <2>4, <2>5 DEF Receiver, Over
<1> QED BY <1>1, <1>2 DEF IInv

LEMMA SpecInv == Spec => []IInv
<1>1. IInv /\ [Next]_vars => IInv'  BY StepType, StepReceivers DEF IInv
<1> QED BY InitInv, <1>1, PTL DEF Spec

\* The state of both ends keeps its type: in particular neither the connection nor
\* the channel from the reader task to the loop ever holds more than its capacity
\* (the channel of peer.rs:363), and what the reader decodes is a frame.
THEOREM TypeCorrect == Spec => []TypeOK
<1>1. IInv => TypeOK  BY DEF IInv
<1> QED BY SpecInv, <1>1, PTL

\* However frames are cut into pieces, whatever their sizes and the capacities on
\* their way, and wherever either end stops, the loop of an end handles a prefix of
\* the frames its peer wrote, whole and in order, with no frame above the limit
\* among them (read_frame, write_frame and the reader task of peer.rs:370).
THEOREM FramesIntactTheorem == Spec => []FramesIntact
<1>1. IInv => FramesIntact
  <2> SUFFICES ASSUME IInv, NEW e \in End
               PROVE  /\ handled[e] = SubSeq(sent[Other(e)], 1, Len(handled[e]))
                      /\ \A k \in DOMAIN handled[e] : ~ TooLarge(handled[e][k])
    BY DEF FramesIntact
  <2> DEFINE h == handled[e]
             s == sent[Other(e)]
             r == SubSeq(s, 1, Len(h))
  <2>0. TypeOK /\ Arrived(e)  BY DEF IInv, Receiver
  <2>1. /\ h \in Seq(Type \cup {"garbage"}) /\ Len(h) \in Nat /\ Len(chan[e]) \in Nat
        /\ Len(s) \in Nat
    BY <2>0, EndType, Ends
  <2>2. \A k \in 1 .. Len(h) : h[k] = s[k] /\ ~ TooLarge(h[k])  BY <2>0 DEF Arrived
  <2> HIDE DEF h, s
  <2>3. \A k \in 1 .. Len(h) : h[k] \in Type \cup {"garbage"}  BY <2>1, ElementOfSeq
  <2>4. \A k \in 1 .. Len(h) : s[k] \in Type \cup {"garbage"}  BY <2>2, <2>3
  <2>5. /\ r \in Seq(Type \cup {"garbage"}) /\ Len(r) = Len(h)
        /\ \A k \in 1 .. Len(h) : r[k] = s[k]
    BY <2>1, <2>4, SubSeqProperties
  <2> HIDE DEF r
  <2>6. h = r  BY <2>1, <2>2, <2>5, SeqEqual
  <2>7. DOMAIN h = 1 .. Len(h)  BY <2>1
  <2> QED BY <2>2, <2>6, <2>7 DEF h, s, r
<1> QED BY SpecInv, <1>1, PTL
===============================================================================
