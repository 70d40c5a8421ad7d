-------------------------- MODULE MoeDecode_proof --------------------------
(***************************************************************************)
(* Proofs about MoeDecode, for any number of layers, steps and tokens and   *)
(* any setting of the deferred experts.                                     *)
(*                                                                          *)
(* The heart of the invariant is the order of the stream: of two adjacent   *)
(* operations the second says what the first was (Follows), and the last    *)
(* one tells whether a deferred call is pending (EndOfStream). So a task    *)
(* that has been enqueued is waited for before anything else happens on the *)
(* stream, and at most one task is Outstanding, which the operation at the  *)
(* head of the stream names. Tags are never used twice (Launched, Past), so *)
(* that to find a task done means that no thread works on it any more.      *)
(* The data that the buffers hold is told by the head of the stream too.    *)
(***************************************************************************)
EXTENDS MoeDecode, SequenceTheorems, TLAPS

-----------------------------------------------------------------------------
(* The inductive invariant: types.                                          *)

Parts == {"now", "deferred"}
Data == Tag \cup {None}

\* The operations on the stream.
CopyOps == [op : {"d2h", "h2d"}, l : Layers, slot : Slots, tag : Tag]
TaskOps == [op : {"enqueue", "wait"}, l : Layers, slot : Qlens, tag : Tag]
MergeOps == [op : {"merge"}, l : Layers, step : Steps, prev : SUBSET Layers]
Ops == CopyOps \cup TaskOps \cup MergeOps

Call == [step : Steps, layer : Layers, qlen : Qlens]
Entry == [tag : Tag, slot : Qlens]
Buffers == [input : Data, output : Data]

PyState ==
  [at : {"step", "layer", "sync", "forward"}, step : 0 .. MaxSteps, layer : Layers,
   qlen : Qlens \cup {0}, sync : BOOLEAN, prev : SUBSET Layers]

ThreadState ==
  [at : {"idle", "forward", "exited"}, tag : Data, slot : Slots, seen : Data]

Typed ==
  /\ py \in PyState /\ (py.at # "step" => (py.step \in Steps /\ py.qlen \in Qlens))
  /\ (pending = {} \/ \E d \in Call : pending = {d})
  /\ stream \in Seq(Ops)
  /\ host \in [Layers -> [Slots -> Buffers]]
  /\ task \in [Layers -> [Qlens -> Data]]
  /\ queue \in [Layers -> Seq(Entry)]
  /\ thread \in [Layers -> ThreadState]
  /\ \A l \in Layers : thread[l].at = "forward" => thread[l].tag \in Tag
  /\ done \subseteq Tag
  /\ output \in [Layers -> [Parts -> Data]]
  /\ result \in [Steps -> [Layers -> SUBSET Data]]
  /\ exit \in [Layers -> BOOLEAN]

-----------------------------------------------------------------------------
(* The order of the stream, and the task that is outstanding.               *)

\* The task of a deferred call.
Deferred(d) == <<d.step, d.layer, "deferred">>

\* Operation a may be right before b.
Follows(a, b) ==
  /\ b.op = "d2h" => a.op \in {"h2d", "merge"}
  /\ b.op = "enqueue" => a = CopyIn(b.l, b.slot, b.tag)
  /\ b.op = "wait" => a = Enqueue(b.l, b.slot, b.tag)
  /\ b.op = "h2d" => b.slot # SyncSlot /\ a = Wait(b.l, b.slot, b.tag)
  /\ b.op = "merge" => \E q \in Slots : a = CopyOut(b.l, q, <<b.step, b.l, "now">>)

\* Each operation but the last may be right before the next.
Chain(s) == \A i \in 1 .. (Len(s) - 1) : Follows(s[i], s[i + 1])

\* The copy that the synchronous path waits for.
SyncCopy == CopyIn(py.layer, SyncSlot, <<py.step, py.layer, "now">>)

\* The last operation is the enqueue of the call that is pending, or the copy of
\* the synchronous path, or a merge.
EndOfStream(z) ==
  /\ \A d \in pending : z = Enqueue(d.layer, d.qlen, Deferred(d))
  /\ pending = {} => (z.op = "merge" \/ py.at = "sync")
  /\ py.at = "sync" => z = SyncCopy

StreamInv ==
  /\ Chain(stream)
  /\ stream # << >> => EndOfStream(stream[Len(stream)])
  /\ py.at = "forward" => stream = << >>
  /\ py.at \in {"sync", "forward"} => pending = {}

\* The task has been enqueued and not been waited for.
Outstanding(l, q, t) ==
  \/ (stream # << >> /\ stream[1] = Wait(l, q, t))
  \/ (stream = << >> /\ \E d \in pending : l = d.layer /\ q = d.qlen /\ t = Deferred(d))

\* Only the outstanding task is in a queue or in forward, and only until done.
TaskInv ==
  /\ \A l \in Layers : queue[l] # << >> =>
       /\ thread[l].at # "forward"
       /\ \E q \in Qlens, t \in Tag :
            queue[l] = <<[tag |-> t, slot |-> q]>> /\ t \notin done /\ Outstanding(l, q, t)
  /\ \A l \in Layers : thread[l].at = "forward" =>
       \E q \in Qlens, t \in Tag :
         thread[l].tag = t /\ thread[l].slot = q /\ t \notin done /\ Outstanding(l, q, t)
  /\ \A l \in Layers, q \in Qlens, t \in Tag : Outstanding(l, q, t) => task[l][q] = t

\* Task t is to be enqueued at place i of the stream.
EnqueueAt(i, t) == stream[i].op = "enqueue" /\ stream[i].tag = t

\* The task is on the stream, outstanding or done.
Launched(t) ==
  \/ t \in done
  \/ \E l \in Layers, q \in Qlens : Outstanding(l, q, t)
  \/ \E i \in 1 .. Len(stream) : EnqueueAt(i, t)

\* Python has returned from layer l of step s.
Past(s, l) == s < py.step \/ (s = py.step /\ (l < py.layer \/ py.at = "step"))

\* Tags are used once.
FreshInv ==
  /\ \A t \in Tag : Launched(t) => Past(t[1], t[2])
  /\ \A i \in 1 .. Len(stream), t \in Tag : EnqueueAt(i, t) =>
       /\ t \notin done
       /\ \A l \in Layers, q \in Qlens : ~ Outstanding(l, q, t)
       /\ \A j \in 1 .. Len(stream) : EnqueueAt(j, t) => i = j

DecodeInv == Typed /\ StreamInv /\ TaskInv /\ FreshInv

-----------------------------------------------------------------------------
(* Sequences.                                                               *)

LEMMA Joined ==
  ASSUME NEW S, NEW s \in Seq(S), NEW t \in Seq(S)
  PROVE  /\ s \o t \in Seq(S) /\ Len(s \o t) = Len(s) + Len(t)
         /\ Len(s) \in Nat /\ Len(t) \in Nat
         /\ \A i \in 1 .. Len(s) : (s \o t)[i] = s[i]
         /\ \A i \in 1 .. Len(t) : (s \o t)[Len(s) + i] = t[i]
         /\ \A i \in 1 .. (Len(s) + Len(t)) :
              \/ i \in 1 .. Len(s) /\ (s \o t)[i] = s[i]
              \/ i - Len(s) \in 1 .. Len(t) /\ (s \o t)[i] = t[i - Len(s)]
<1>1. /\ s \o t \in Seq(S) /\ Len(s \o t) = Len(s) + Len(t)
      /\ Len(s) \in Nat /\ Len(t) \in Nat
      /\ \A i \in 1 .. Len(s) : (s \o t)[i] = s[i]
      /\ \A i \in 1 .. Len(t) : (s \o t)[Len(s) + i] = t[i]
  OBVIOUS
<1>2. ASSUME NEW i \in 1 .. (Len(s) + Len(t)), i \notin 1 .. Len(s)
      PROVE  i - Len(s) \in 1 .. Len(t) /\ (s \o t)[i] = t[i - Len(s)]
  <2>1. i - Len(s) \in 1 .. Len(t) /\ Len(s) + (i - Len(s)) = i
    BY <1>1, <1>2
  <2> QED BY <1>1, <2>1
<1> QED BY <1>1, <1>2

LEMMA Taken ==
  ASSUME NEW S, NEW s \in Seq(S), s # << >>
  PROVE  /\ Tail(s) \in Seq(S) /\ Head(s) \in S /\ Head(s) = s[1]
         /\ Len(s) \in Nat \ {0} /\ Len(Tail(s)) = Len(s) - 1
         /\ \A i \in 1 .. (Len(s) - 1) : i + 1 \in 1 .. Len(s) /\ Tail(s)[i] = s[i + 1]
         /\ \A i \in 1 .. Len(s) : s[i] \in S
<1> DEFINE t == Tail(s)
<1>1. /\ t \in Seq(S) /\ Len(s) \in Nat \ {0} /\ Len(t) = Len(s) - 1 /\ Head(s) = s[1]
      /\ \A i \in 1 .. (Len(s) - 1) : t[i] = s[i + 1]
  OBVIOUS
<1>2. \A i \in 1 .. Len(s) : s[i] \in S
  OBVIOUS
<1>3. \A i \in 1 .. (Len(s) - 1) : i + 1 \in 1 .. Len(s)
  BY <1>1
<1>4. Head(s) \in S
  BY <1>1, <1>2
<1> QED BY <1>1, <1>2, <1>3, <1>4

\* The empty sequence is the one of length 0.
LEMMA Empty ==
  ASSUME NEW S, NEW s \in Seq(S)
  PROVE  s = << >> <=> Len(s) = 0
OBVIOUS

-----------------------------------------------------------------------------
(* Pieces of the stream.                                                    *)

\* A piece of the stream from operation a to operation z.
Piece(o, a, z) ==
  o \in Seq(Ops) /\ o # << >> /\ Chain(o) /\ o[1] = a /\ o[Len(o)] = z

\* The tasks that o enqueues are in T, each only once.
Enqueues(o, T) ==
  /\ \A i \in 1 .. Len(o) : o[i].op = "enqueue" => o[i].tag \in T
  /\ \A i, j \in 1 .. Len(o) :
       (o[i].op = "enqueue" /\ o[j].op = "enqueue" /\ o[i].tag = o[j].tag) => i = j

LEMMA ChainJoined ==
  ASSUME NEW s \in Seq(Ops), NEW t \in Seq(Ops), Chain(s), Chain(t),
         s # << >> /\ t # << >> => Follows(s[Len(s)], t[1])
  PROVE  Chain(s \o t)
<1> DEFINE u == s \o t
           m == Len(s)
           n == Len(t)
<1>1. /\ u \in Seq(Ops) /\ Len(u) = m + n /\ m \in Nat /\ n \in Nat
      /\ \A i \in 1 .. m : u[i] = s[i]
      /\ \A i \in 1 .. n : u[m + i] = t[i]
  BY Joined
<1>2. (s = << >> <=> m = 0) /\ (t = << >> <=> n = 0)
  BY Empty
<1> HIDE DEF u, m, n
<1> SUFFICES ASSUME NEW i \in 1 .. (m + n - 1)
             PROVE  Follows(u[i], u[i + 1])
  BY <1>1 DEF Chain, u
<1>3. CASE i < m
  <2>1. i \in 1 .. (m - 1) /\ i \in 1 .. m /\ i + 1 \in 1 .. m
    BY <1>1, <1>3
  <2> QED BY <1>1, <2>1 DEF Chain, m
<1>4. CASE i = m
  <2>1. m # 0 /\ n # 0 /\ i \in 1 .. m /\ 1 \in 1 .. n /\ i + 1 = m + 1
    BY <1>1, <1>4
  <2>2. Follows(s[m], t[1])
    BY <1>2, <2>1 DEF m
  <2> QED BY <1>1, <1>4, <2>1, <2>2
<1>5. CASE i > m
  <2>1. PICK j \in Nat : j = i - m
    BY <1>1, <1>5
  <2>2. j \in 1 .. (n - 1) /\ j \in 1 .. n /\ j + 1 \in 1 .. n /\ i = m + j /\ i + 1 = m + (j + 1)
    BY <1>1, <1>5, <2>1
  <2>3. Follows(t[j], t[j + 1])
    BY <2>2 DEF Chain, n
  <2> QED BY <1>1, <2>2, <2>3
<1> QED BY <1>1, <1>3, <1>4, <1>5

LEMMA PieceJoined ==
  ASSUME NEW s, NEW t, NEW a, NEW b, NEW y, NEW z,
         Piece(s, a, y), Piece(t, b, z), Follows(y, b)
  PROVE  Piece(s \o t, a, z)
<1>1. s \in Seq(Ops) /\ t \in Seq(Ops) /\ s # << >> /\ t # << >>
  BY DEF Piece
<1>2. Chain(s \o t)
  BY <1>1, ChainJoined DEF Piece
<1>3. /\ s \o t \in Seq(Ops) /\ Len(s \o t) = Len(s) + Len(t)
      /\ Len(s) \in Nat \ {0} /\ Len(t) \in Nat \ {0}
      /\ (s \o t)[1] = s[1] /\ (s \o t)[Len(s) + Len(t)] = t[Len(t)]
  <2>1. Len(s) \in Nat \ {0} /\ Len(t) \in Nat \ {0}
    BY <1>1, Empty, Joined
  <2>2. 1 \in 1 .. Len(s) /\ Len(t) \in 1 .. Len(t)
    BY <2>1
  <2> QED BY <1>1, <2>1, <2>2, Joined
<1>4. s \o t # << >>
  BY <1>3, Empty
<1> QED BY <1>2, <1>3, <1>4 DEF Piece

LEMMA EnqueuesJoined ==
  ASSUME NEW s \in Seq(Ops), NEW t \in Seq(Ops), NEW T, NEW U,
         Enqueues(s, T), Enqueues(t, U), T \cap U = {}
  PROVE  Enqueues(s \o t, T \cup U)
<1> DEFINE u == s \o t
           m == Len(s)
           n == Len(t)
<1>1. /\ Len(u) = m + n /\ m \in Nat /\ n \in Nat
      /\ \A i \in 1 .. (m + n) :
           \/ i \in 1 .. m /\ u[i] = s[i]
           \/ i - m \in 1 .. n /\ u[i] = t[i - m]
  BY Joined
<1>2. /\ \A i \in 1 .. m : s[i].op = "enqueue" => s[i].tag \in T
      /\ \A i, j \in 1 .. m :
           (s[i].op = "enqueue" /\ s[j].op = "enqueue" /\ s[i].tag = s[j].tag) => i = j
      /\ \A i \in 1 .. n : t[i].op = "enqueue" => t[i].tag \in U
      /\ \A i, j \in 1 .. n :
           (t[i].op = "enqueue" /\ t[j].op = "enqueue" /\ t[i].tag = t[j].tag) => i = j
  BY DEF Enqueues
<1> HIDE DEF u, m, n
<1>3. \A i \in 1 .. (m + n) : u[i].op = "enqueue" => u[i].tag \in T \cup U
  BY <1>1, <1>2
<1>4. ASSUME NEW i \in 1 .. (m + n), NEW j \in 1 .. (m + n),
             u[i].op = "enqueue", u[j].op = "enqueue", u[i].tag = u[j].tag
      PROVE  i = j
  <2>1. CASE i \in 1 .. m /\ u[i] = s[i] /\ j \in 1 .. m /\ u[j] = s[j]
    BY <1>2, <1>4, <2>1
  <2>2. CASE i \in 1 .. m /\ u[i] = s[i] /\ j - m \in 1 .. n /\ u[j] = t[j - m]
    BY <1>2, <1>4, <2>2
  <2>3. CASE i - m \in 1 .. n /\ u[i] = t[i - m] /\ j \in 1 .. m /\ u[j] = s[j]
    BY <1>2, <1>4, <2>3
  <2>4. CASE i - m \in 1 .. n /\ u[i] = t[i - m] /\ j - m \in 1 .. n /\ u[j] = t[j - m]
    <3>1. i - m = j - m
      BY <1>2, <1>4, <2>4
    <3> QED BY <1>1, <3>1
  <2> QED BY <1>1, <2>1, <2>2, <2>3, <2>4
<1> QED BY <1>1, <1>3, <1>4 DEF Enqueues, u
-----------------------------------------------------------------------------
(* What the calls put on the stream.                                        *)

\* The operations are of their types.
LEMMA OpTypes ==
  ASSUME NEW l \in Layers, NEW t \in Tag
  PROVE  /\ \A q \in Slots : CopyIn(l, q, t) \in Ops /\ CopyOut(l, q, t) \in Ops
         /\ \A q \in Qlens : Enqueue(l, q, t) \in Ops /\ Wait(l, q, t) \in Ops
         /\ \A s \in Steps, prev \in SUBSET Layers : Merge(l, s, prev) \in Ops
BY DEF Ops, CopyOps, TaskOps, MergeOps, CopyIn, CopyOut, Enqueue, Wait, Merge, Op

\* What an operation of its type is made of.
LEMMA OpFields ==
  ASSUME NEW o \in Ops
  PROVE  /\ o.op \in {"d2h", "h2d"} =>
              o.l \in Layers /\ o.slot \in Slots /\ o.tag \in Tag
         /\ o.op \in {"enqueue", "wait"} =>
              o.l \in Layers /\ o.slot \in Qlens /\ o.tag \in Tag
         /\ o.op = "merge" => o.l \in Layers /\ o.step \in Steps /\ o.prev \in SUBSET Layers
         /\ o.op \in {"d2h", "h2d", "enqueue", "wait", "merge"}
         /\ o.op = "enqueue" => o = Enqueue(o.l, o.slot, o.tag)
         /\ o.op = "wait" => o = Wait(o.l, o.slot, o.tag)
BY DEF Ops, CopyOps, TaskOps, MergeOps, Enqueue, Wait, Op

\* Two waits are the same only for the same task.
LEMMA WaitIs ==
  ASSUME NEW l, NEW q, NEW t, NEW m, NEW r, NEW u, Wait(l, q, t) = Wait(m, r, u)
  PROVE  l = m /\ q = r /\ t = u
<1>1. /\ Wait(l, q, t).l = l /\ Wait(l, q, t).slot = q /\ Wait(l, q, t).tag = t
      /\ Wait(m, r, u).l = m /\ Wait(m, r, u).slot = r /\ Wait(m, r, u).tag = u
  BY DEF Wait, Op
<1> QED BY <1>1

LEMMA OnePiece ==
  ASSUME NEW o \in Ops
  PROVE  /\ Piece(<<o>>, o, o)
         /\ o.op # "enqueue" => Enqueues(<<o>>, {})
<1>1. <<o>> \in Seq(Ops) /\ Len(<<o>>) = 1 /\ <<o>>[1] = o /\ <<o>> # << >>
  OBVIOUS
<1>2. Chain(<<o>>)
  BY <1>1 DEF Chain
<1>3. \A i \in 1 .. 1 : i = 1
  OBVIOUS
<1>4. o.op # "enqueue" => Enqueues(<<o>>, {})
  BY <1>1, <1>3 DEF Enqueues
<1> QED BY <1>1, <1>2, <1>4 DEF Piece

LEMMA TwoPiece ==
  ASSUME NEW a \in Ops, NEW b \in Ops, Follows(a, b)
  PROVE  Piece(<<a, b>>, a, b)
<1>1. <<a, b>> \in Seq(Ops) /\ Len(<<a, b>>) = 2 /\ <<a, b>>[1] = a /\ <<a, b>>[2] = b /\ <<a, b>> # << >>
  OBVIOUS
<1>2. \A i \in 1 .. (2 - 1) : i = 1 /\ i + 1 = 2
  OBVIOUS
<1>3. Chain(<<a, b>>)
  BY <1>1, <1>2 DEF Chain
<1> QED BY <1>1, <1>3 DEF Piece

LEMMA NowaitPiece ==
  ASSUME NEW l \in Layers, NEW q \in Qlens, NEW t \in Tag
  PROVE  /\ Piece(NowaitOps(l, q, t), CopyIn(l, q, t), Enqueue(l, q, t))
         /\ Enqueues(NowaitOps(l, q, t), {t})
<1>1. CopyIn(l, q, t) \in Ops /\ Enqueue(l, q, t) \in Ops
  BY OpTypes DEF Slots
<1>2. Follows(CopyIn(l, q, t), Enqueue(l, q, t))
  BY DEF Follows, CopyIn, Enqueue, Op
<1>3. \A i \in 1 .. 2 : i = 1 \/ i = 2
  OBVIOUS
<1>4. CopyIn(l, q, t).op = "d2h" /\ Enqueue(l, q, t).tag = t
  BY DEF CopyIn, Enqueue, Op
<1>5. Enqueues(<<CopyIn(l, q, t), Enqueue(l, q, t)>>, {t})
  BY <1>3, <1>4 DEF Enqueues
<1> QED BY <1>1, <1>2, <1>5, TwoPiece DEF NowaitOps

LEMMA WaitPiece ==
  ASSUME NEW l \in Layers, NEW q \in Qlens, NEW t \in Tag
  PROVE  /\ Piece(WaitOps(l, q, t), Wait(l, q, t), CopyOut(l, q, t))
         /\ Enqueues(WaitOps(l, q, t), {})
<1>1. CopyOut(l, q, t) \in Ops /\ Wait(l, q, t) \in Ops
  BY OpTypes DEF Slots
<1>2. Follows(Wait(l, q, t), CopyOut(l, q, t))
  BY DecodeAssumption DEF Follows, CopyOut, Wait, Op, SyncSlot
<1>3. \A i \in 1 .. 2 : i = 1 \/ i = 2
  OBVIOUS
<1>4. CopyOut(l, q, t).op = "h2d" /\ Wait(l, q, t).op = "wait"
  BY DEF CopyOut, Wait, Op
<1>5. Enqueues(<<Wait(l, q, t), CopyOut(l, q, t)>>, {})
  BY <1>3, <1>4 DEF Enqueues
<1> QED BY <1>1, <1>2, <1>5, TwoPiece DEF WaitOps

LEMMA DecodePiece ==
  ASSUME NEW l \in Layers, NEW q \in Qlens, NEW t \in Tag
  PROVE  /\ Piece(DecodeOps(l, q, t), CopyIn(l, q, t), CopyOut(l, q, t))
         /\ Enqueues(DecodeOps(l, q, t), {t})
<1>1. Follows(Enqueue(l, q, t), Wait(l, q, t))
  BY DEF Follows, Enqueue, Wait, Op
<1>2. Piece(DecodeOps(l, q, t), CopyIn(l, q, t), CopyOut(l, q, t))
  BY <1>1, NowaitPiece, WaitPiece, PieceJoined DEF DecodeOps
<1>3. NowaitOps(l, q, t) \in Seq(Ops) /\ WaitOps(l, q, t) \in Seq(Ops)
  BY NowaitPiece, WaitPiece DEF Piece
<1>4. Enqueues(NowaitOps(l, q, t) \o WaitOps(l, q, t), {t} \cup {})
  BY <1>3, NowaitPiece, WaitPiece, EnqueuesJoined
<1>5. {t} \cup {} = {t}
  OBVIOUS
<1> QED BY <1>2, <1>4, <1>5 DEF DecodeOps

\* The first operation of what a call puts on the stream when d is pending.
WaitFor(d) == Wait(d.layer, d.qlen, Deferred(d))

LEMMA DeferredTag ==
  ASSUME NEW d \in Call
  PROVE  d.layer \in Layers /\ d.qlen \in Qlens /\ d.step \in Steps /\ Deferred(d) \in Tag
BY DEF Call, Deferred, Tag

LEMMA PendingPiece ==
  ASSUME NEW d \in Call
  PROVE  /\ Piece(PendingOps({d}), WaitFor(d), CopyOut(d.layer, d.qlen, Deferred(d)))
         /\ Enqueues(PendingOps({d}), {})
<1>1. PendingOps({d}) = WaitOps(d.layer, d.qlen, Deferred(d))
  <2>1. (CHOOSE e \in {d} : TRUE) = d
    OBVIOUS
  <2>2. {d} # {}
    OBVIOUS
  <2> QED BY <2>1, <2>2 DEF PendingOps, Deferred
<1> QED BY <1>1, DeferredTag, WaitPiece DEF WaitFor
LEMMA EnqueuesMore ==
  ASSUME NEW o, NEW T, NEW U, Enqueues(o, T), T \subseteq U
  PROVE  Enqueues(o, U)
BY DEF Enqueues

\* The tasks of a layer's call.
Own(s, l, defers) == {<<s, l, "now">>} \cup (IF defers THEN {<<s, l, "deferred">>} ELSE {})

\* The first operation of a layer's call.
CallFirst(s, l, q, p, a) ==
  /\ p = {} => a = CopyIn(l, q, <<s, l, "now">>)
  /\ \A d \in p : a = WaitFor(d)

\* The last operation of a layer's asynchronous call.
CallLast(s, l, q, p, defers, z) ==
  /\ defers => z = Enqueue(l, q, <<s, l, "deferred">>)
  /\ ~ defers => z = Merge(l, s, {d.layer : d \in p})

\* The deferred call that is pending, then the layer's own up to its result.
LEMMA ResultPiece ==
  ASSUME NEW s \in Steps, NEW l \in Layers, NEW q \in Qlens, NEW p \in SUBSET Call,
         p = {} \/ \E d \in Call : p = {d}
  PROVE  LET o == PendingOps(p) \o DecodeOps(l, q, <<s, l, "now">>)
                  \o <<Merge(l, s, {d.layer : d \in p})>>
         IN /\ \E a : /\ Piece(o, a, Merge(l, s, {d.layer : d \in p}))
                      /\ CallFirst(s, l, q, p, a)
            /\ Enqueues(o, {<<s, l, "now">>})
<1> DEFINE t == <<s, l, "now">>
           D == DecodeOps(l, q, t)
           m == Merge(l, s, {d.layer : d \in p})
           P == PendingOps(p)
<1>1. t \in Tag /\ q \in Slots
  BY DEF Tag, Slots
<1>2. Piece(D, CopyIn(l, q, t), CopyOut(l, q, t)) /\ Enqueues(D, {t}) /\ D \in Seq(Ops)
  BY <1>1, DecodePiece DEF Piece
<1>3. {d.layer : d \in p} \in SUBSET Layers
  BY DeferredTag
<1>4. m \in Ops /\ m.op = "merge" /\ m.l = l /\ m.step = s
  BY <1>1, <1>3, OpTypes DEF Merge
<1>5. Piece(<<m>>, m, m) /\ Enqueues(<<m>>, {}) /\ <<m>> \in Seq(Ops)
  BY <1>4, OnePiece DEF Piece
<1>6. Follows(CopyOut(l, q, t), m)
  BY <1>1, <1>4 DEF Follows
<1> HIDE DEF D, m, P, t
<1>7. CASE p = {}
  <2>1. P = << >>
    BY <1>7 DEF P, PendingOps
  <2>2. P \o D = D
    BY <1>2, <2>1
  <2>3. Piece(D \o <<m>>, CopyIn(l, q, t), m)
    BY <1>2, <1>5, <1>6, PieceJoined
  <2>4. Enqueues(D \o <<m>>, {t} \cup {}) /\ {t} \cup {} = {t}
    BY <1>2, <1>5, EnqueuesJoined
  <2>5. CallFirst(s, l, q, p, CopyIn(l, q, t))
    BY <1>7 DEF CallFirst, t
  <2> QED BY <2>2, <2>3, <2>4, <2>5 DEF D, m, P, t
<1>8. CASE \E d \in Call : p = {d}
  <2>1. PICK d \in Call : p = {d}
    BY <1>8
  <2>2. Piece(P, WaitFor(d), CopyOut(d.layer, d.qlen, Deferred(d))) /\ Enqueues(P, {})
    BY <2>1, PendingPiece DEF P
  <2>3. Follows(CopyOut(d.layer, d.qlen, Deferred(d)), CopyIn(l, q, t))
    BY DEF Follows, CopyOut, CopyIn, Op
  <2>4. Piece(P \o D, WaitFor(d), CopyOut(l, q, t))
    BY <1>2, <2>2, <2>3, PieceJoined
  <2>5. Piece((P \o D) \o <<m>>, WaitFor(d), m)
    BY <1>5, <1>6, <2>4, PieceJoined
  <2>6. P \in Seq(Ops) /\ (P \o D) \in Seq(Ops)
    BY <2>2, <2>4 DEF Piece
  <2>7. Enqueues(P \o D, {} \cup {t}) /\ {} \cup {t} = {t}
    BY <1>2, <2>2, <2>6, EnqueuesJoined
  <2>8. Enqueues((P \o D) \o <<m>>, {t} \cup {}) /\ {t} \cup {} = {t}
    BY <1>5, <2>6, <2>7, EnqueuesJoined
  <2>9. CallFirst(s, l, q, p, WaitFor(d))
    BY <2>1 DEF CallFirst
  <2> QED BY <2>5, <2>8, <2>9 DEF D, m, P, t
<1> QED BY <1>7, <1>8

\* What an asynchronous call puts on the stream.
LEMMA LayerPiece ==
  ASSUME NEW s \in Steps, NEW l \in Layers, NEW q \in Qlens, NEW p \in SUBSET Call,
         p = {} \/ \E d \in Call : p = {d}, NEW defers \in BOOLEAN
  PROVE  LET o == LayerOps(s, l, q, p, defers)
         IN /\ \E a, z : /\ Piece(o, a, z) /\ CallFirst(s, l, q, p, a)
                         /\ CallLast(s, l, q, p, defers, z)
            /\ Enqueues(o, Own(s, l, defers))
<1> DEFINE o == PendingOps(p) \o DecodeOps(l, q, <<s, l, "now">>)
                \o <<Merge(l, s, {d.layer : d \in p})>>
           t == <<s, l, "deferred">>
           m == Merge(l, s, {d.layer : d \in p})
           N == NowaitOps(l, q, t)
<1>1. PICK a : Piece(o, a, m) /\ CallFirst(s, l, q, p, a)
  BY ResultPiece
<1>2. Enqueues(o, {<<s, l, "now">>}) /\ o \in Seq(Ops)
  BY <1>1, ResultPiece DEF Piece
<1>3. t \in Tag
  BY DEF Tag
<1>4. Piece(N, CopyIn(l, q, t), Enqueue(l, q, t)) /\ Enqueues(N, {t}) /\ N \in Seq(Ops)
  BY <1>3, NowaitPiece DEF Piece
<1>5. Follows(m, CopyIn(l, q, t))
  BY DEF Follows, CopyIn, Merge, Op
<1>6. LayerOps(s, l, q, p, defers) = o \o (IF defers THEN N ELSE << >>)
  BY DEF LayerOps
<1>7. /\ t # <<s, l, "now">> /\ {<<s, l, "now">>} \subseteq Own(s, l, defers)
      /\ defers => {<<s, l, "now">>} \cup {t} \subseteq Own(s, l, defers)
  BY DEF Own
<1> HIDE DEF o, m, N
<1>8. CASE defers
  <2>1. Piece(o \o N, a, Enqueue(l, q, t))
    BY <1>1, <1>4, <1>5, PieceJoined
  <2>2. Enqueues(o \o N, {<<s, l, "now">>} \cup {t})
    BY <1>2, <1>4, <1>7, EnqueuesJoined
  <2>3. Enqueues(o \o N, Own(s, l, defers))
    BY <1>7, <1>8, <2>2, EnqueuesMore
  <2>4. CallLast(s, l, q, p, defers, Enqueue(l, q, t))
    BY <1>8 DEF CallLast
  <2> QED BY <1>1, <1>6, <1>8, <2>1, <2>3, <2>4
<1>9. CASE ~ defers
  <2>1. o \o << >> = o
    BY <1>2
  <2>2. Enqueues(o, Own(s, l, defers))
    BY <1>2, <1>7, EnqueuesMore
  <2>3. CallLast(s, l, q, p, defers, m)
    BY <1>9 DEF CallLast, m
  <2> QED BY <1>1, <1>6, <1>9, <2>1, <2>2, <2>3
<1> QED BY <1>8, <1>9

\* What a synchronous call puts on the stream.
LEMMA SyncPiece ==
  ASSUME NEW s \in Steps, NEW l \in Layers, NEW p \in SUBSET Call,
         p = {} \/ \E d \in Call : p = {d}
  PROVE  LET o == PendingOps(p) \o <<CopyIn(l, SyncSlot, <<s, l, "now">>)>>
         IN /\ \E a : /\ Piece(o, a, CopyIn(l, SyncSlot, <<s, l, "now">>))
                      /\ CallFirst(s, l, SyncSlot, p, a)
            /\ Enqueues(o, {})
<1> DEFINE t == <<s, l, "now">>
           c == CopyIn(l, SyncSlot, t)
           P == PendingOps(p)
<1>1. t \in Tag /\ SyncSlot \in Slots
  BY DEF Tag, Slots
<1>2. c \in Ops /\ c.op = "d2h"
  BY <1>1, OpTypes DEF CopyIn, Op
<1>3. Piece(<<c>>, c, c) /\ Enqueues(<<c>>, {}) /\ <<c>> \in Seq(Ops)
  BY <1>2, OnePiece DEF Piece
<1> HIDE DEF c, P, t
<1>4. CASE p = {}
  <2>1. P = << >>
    BY <1>4 DEF P, PendingOps
  <2>2. P \o <<c>> = <<c>>
    BY <1>3, <2>1
  <2>3. CallFirst(s, l, SyncSlot, p, c)
    BY <1>4 DEF CallFirst, c, t
  <2> QED BY <1>3, <2>2, <2>3 DEF c, P, t
<1>5. CASE \E d \in Call : p = {d}
  <2>1. PICK d \in Call : p = {d}
    BY <1>5
  <2>2. Piece(P, WaitFor(d), CopyOut(d.layer, d.qlen, Deferred(d))) /\ Enqueues(P, {})
    BY <2>1, PendingPiece DEF P
  <2>3. Follows(CopyOut(d.layer, d.qlen, Deferred(d)), c)
    BY DEF Follows, CopyOut, CopyIn, Op, c
  <2>4. Piece(P \o <<c>>, WaitFor(d), c)
    BY <1>3, <2>2, <2>3, PieceJoined
  <2>5. P \in Seq(Ops)
    BY <2>2 DEF Piece
  <2>6. Enqueues(P \o <<c>>, {} \cup {}) /\ {} \cup {} = {}
    BY <1>3, <2>2, <2>5, EnqueuesJoined
  <2>7. CallFirst(s, l, SyncSlot, p, WaitFor(d))
    BY <2>1 DEF CallFirst
  <2> QED BY <2>4, <2>6, <2>7 DEF c, P, t
<1> QED BY <1>4, <1>5

-----------------------------------------------------------------------------
(* A step of the Python thread that puts operations on the stream.          *)

\* The same task is outstanding after the step.
SameOutstanding == \A l, q, t : Outstanding(l, q, t)' <=> Outstanding(l, q, t)

LEMMA SameTasks ==
  ASSUME TaskInv, SameOutstanding, UNCHANGED <<task, queue, thread, done>>
  PROVE  TaskInv'
BY DEF TaskInv, SameOutstanding

\* What is pushed is of tasks T, none of which has been launched.
Pushed(o, a, z, T) ==
  /\ Piece(o, a, z) /\ Enqueues(o, T)
  /\ stream' = stream \o o
  /\ stream # << >> => Follows(stream[Len(stream)], a)
  /\ \A d \in pending : a = WaitFor(d)
  /\ pending = {} => a.op # "wait"
  /\ \A t \in T : t \in Tag /\ ~ Launched(t) /\ Past(t[1], t[2])'
  /\ \A t \in Tag : Past(t[1], t[2]) => Past(t[1], t[2])'

\* The stream after a push.
LEMMA PushedStream ==
  ASSUME Typed, StreamInv, NEW o, NEW a, NEW z, NEW T, Pushed(o, a, z, T)
  PROVE  /\ stream' \in Seq(Ops) /\ stream' # << >> /\ Chain(stream)'
         /\ stream'[Len(stream')] = z
         /\ stream = << >> => stream'[1] = a
         /\ stream # << >> => stream'[1] = stream[1]
<1>1. stream \in Seq(Ops) /\ Chain(stream)
  BY DEF Typed, StreamInv
<1>2. Piece(o, a, z) /\ stream' = stream \o o /\ (stream # << >> => Follows(stream[Len(stream)], a))
  BY DEF Pushed
<1>3. CASE stream = << >>
  <2>1. stream' = o
    BY <1>2, <1>3 DEF Piece
  <2> QED BY <1>2, <1>3, <2>1 DEF Piece, Chain
<1>4. CASE stream # << >>
  <2>1. Piece(stream, stream[1], stream[Len(stream)])
    BY <1>1, <1>4 DEF Piece
  <2>2. Piece(stream \o o, stream[1], z)
    BY <1>2, <1>4, <2>1, PieceJoined
  <2> QED BY <1>2, <1>4, <2>2 DEF Piece, Chain
<1> QED BY <1>3, <1>4

LEMMA PushedOutstanding ==
  ASSUME Typed, StreamInv, NEW o, NEW a, NEW z, NEW T, Pushed(o, a, z, T)
  PROVE  SameOutstanding
<1> SUFFICES ASSUME NEW l, NEW q, NEW t
             PROVE  Outstanding(l, q, t)' <=> Outstanding(l, q, t)
  BY DEF SameOutstanding
<1>1. Outstanding(l, q, t)' <=> stream'[1] = Wait(l, q, t)
  BY PushedStream DEF Outstanding
<1>2. CASE stream # << >>
  BY <1>1, <1>2, PushedStream DEF Outstanding
<1>3. CASE stream = << >> /\ pending = {}
  <2>1. stream'[1].op # "wait"
    BY <1>3, PushedStream DEF Pushed
  <2>2. Wait(l, q, t).op = "wait"
    BY DEF Wait, Op
  <2> QED BY <1>1, <1>3, <2>1, <2>2 DEF Outstanding
<1>4. CASE stream = << >> /\ \E d \in Call : pending = {d}
  <2>1. PICK d \in Call : pending = {d}
    BY <1>4
  <2>2. stream'[1] = Wait(d.layer, d.qlen, Deferred(d))
    BY <1>4, <2>1, PushedStream DEF Pushed, WaitFor
  <2>3. Outstanding(l, q, t) <=> (l = d.layer /\ q = d.qlen /\ t = Deferred(d))
    BY <1>4, <2>1 DEF Outstanding
  <2>4. Outstanding(l, q, t)' => Outstanding(l, q, t)
    BY <1>1, <2>2, <2>3, WaitIs
  <2>5. Outstanding(l, q, t) => Outstanding(l, q, t)'
    BY <1>1, <2>2, <2>3
  <2> QED BY <2>4, <2>5
<1> QED BY <1>2, <1>3, <1>4 DEF Typed

\* The tasks that are launched after a push are those of before and the new ones.
LEMMA PushedLaunched ==
  ASSUME Typed, StreamInv, NEW o, NEW a, NEW z, NEW T, Pushed(o, a, z, T), done' = done,
         NEW t, Launched(t)'
  PROVE  Launched(t) \/ t \in T
<1>1. /\ Len(stream') = Len(stream) + Len(o) /\ Len(stream) \in Nat /\ Len(o) \in Nat
      /\ \A i \in 1 .. (Len(stream) + Len(o)) :
           \/ i \in 1 .. Len(stream) /\ stream'[i] = stream[i]
           \/ i - Len(stream) \in 1 .. Len(o) /\ stream'[i] = o[i - Len(stream)]
  BY Joined DEF Typed, Pushed, Piece
<1>2. Enqueues(o, T)
  BY DEF Pushed
<1>3. CASE t \in done'
  BY <1>3 DEF Launched
<1>4. CASE \E l \in Layers, q \in Qlens : Outstanding(l, q, t)'
  BY <1>4, PushedOutstanding DEF SameOutstanding, Launched
<1>5. CASE \E i \in 1 .. Len(stream') : EnqueueAt(i, t)'
  <2>1. PICK i \in 1 .. Len(stream') : stream'[i].op = "enqueue" /\ stream'[i].tag = t
    BY <1>5 DEF EnqueueAt
  <2>2. CASE i \in 1 .. Len(stream) /\ stream'[i] = stream[i]
    BY <2>1, <2>2 DEF Launched, EnqueueAt
  <2>3. CASE i - Len(stream) \in 1 .. Len(o) /\ stream'[i] = o[i - Len(stream)]
    BY <1>2, <2>1, <2>3 DEF Enqueues
  <2> QED BY <1>1, <2>1, <2>2, <2>3
<1> QED BY <1>3, <1>4, <1>5 DEF Launched

LEMMA PushedFresh ==
  ASSUME Typed, StreamInv, FreshInv, NEW o, NEW a, NEW z, NEW T, Pushed(o, a, z, T),
         done' = done
  PROVE  FreshInv'
<1>1. \A t \in Tag : Launched(t)' => Past(t[1], t[2])'
  <2> SUFFICES ASSUME NEW t \in Tag, Launched(t)'
               PROVE  Past(t[1], t[2])'
    OBVIOUS
  <2>1. CASE Launched(t)
    BY <2>1 DEF FreshInv, Pushed
  <2>2. CASE t \in T
    BY <2>2 DEF Pushed
  <2> QED BY <2>1, <2>2, PushedLaunched
<1>2. /\ Len(stream') = Len(stream) + Len(o) /\ Len(stream) \in Nat /\ Len(o) \in Nat
      /\ \A i \in 1 .. (Len(stream) + Len(o)) :
           \/ i \in 1 .. Len(stream) /\ stream'[i] = stream[i]
           \/ i - Len(stream) \in 1 .. Len(o) /\ stream'[i] = o[i - Len(stream)]
  BY Joined DEF Typed, Pushed, Piece
<1>3. /\ \A i \in 1 .. Len(o) : o[i].op = "enqueue" => o[i].tag \in T
      /\ \A i, j \in 1 .. Len(o) :
           (o[i].op = "enqueue" /\ o[j].op = "enqueue" /\ o[i].tag = o[j].tag) => i = j
      /\ \A t \in T : ~ Launched(t)
  BY DEF Pushed, Enqueues
<1>4. \A i \in 1 .. Len(stream') : \A t \in Tag : EnqueueAt(i, t)' =>
        \/ i \in 1 .. Len(stream) /\ EnqueueAt(i, t)
        \/ /\ i - Len(stream) \in 1 .. Len(o) /\ t \in T
           /\ o[i - Len(stream)].op = "enqueue" /\ o[i - Len(stream)].tag = t
  BY <1>2, <1>3 DEF EnqueueAt
<1>5. ASSUME NEW i \in 1 .. Len(stream'), NEW t \in Tag, EnqueueAt(i, t)'
      PROVE  /\ t \notin done'
             /\ \A l \in Layers, q \in Qlens : ~ Outstanding(l, q, t)'
             /\ \A j \in 1 .. Len(stream') : EnqueueAt(j, t)' => i = j
  <2>1. CASE i \in 1 .. Len(stream) /\ EnqueueAt(i, t)
    <3>1. /\ t \notin done /\ \A l \in Layers, q \in Qlens : ~ Outstanding(l, q, t)
          /\ \A j \in 1 .. Len(stream) : EnqueueAt(j, t) => i = j
      BY <2>1 DEF FreshInv
    <3>2. t \notin T
      BY <1>3, <2>1 DEF Launched
    <3> QED BY <1>4, <3>1, <3>2, PushedOutstanding DEF SameOutstanding
  <2>2. CASE /\ i - Len(stream) \in 1 .. Len(o) /\ t \in T
             /\ o[i - Len(stream)].op = "enqueue" /\ o[i - Len(stream)].tag = t
    <3>1. ~ Launched(t)
      BY <1>3, <2>2
    <3>2. t \notin done /\ \A l \in Layers, q \in Qlens : ~ Outstanding(l, q, t)
      BY <3>1 DEF Launched
    <3>3. ASSUME NEW j \in 1 .. Len(stream'), EnqueueAt(j, t)'
          PROVE  i = j
      <4>1. j \notin 1 .. Len(stream) \/ ~ EnqueueAt(j, t)
        BY <3>1 DEF Launched
      <4>2. /\ j - Len(stream) \in 1 .. Len(o)
            /\ o[j - Len(stream)].op = "enqueue" /\ o[j - Len(stream)].tag = t
        BY <1>4, <3>3, <4>1
      <4>3. i - Len(stream) = j - Len(stream)
        BY <1>3, <2>2, <4>2
      <4> QED BY <1>2, <4>3
    <3> QED BY <3>2, <3>3, PushedOutstanding DEF SameOutstanding
  <2> QED BY <1>4, <1>5, <2>1, <2>2
<1> QED BY <1>1, <1>5 DEF FreshInv

-----------------------------------------------------------------------------
(* The Python thread.                                                       *)

LEMMA PyTypes ==
  ASSUME Typed
  PROVE  /\ py \in PyState /\ py.layer \in Layers /\ py.step \in 0 .. MaxSteps
         /\ py.prev \in SUBSET Layers /\ py.sync \in BOOLEAN /\ py.qlen \in Qlens \cup {0}
         /\ py.at \in {"step", "layer", "sync", "forward"}
         /\ py.at # "step" => (py.step \in Steps /\ py.qlen \in Qlens)
         /\ pending \in SUBSET Call /\ (pending = {} \/ \E d \in Call : pending = {d})
         /\ stream \in Seq(Ops) /\ Layers \subseteq Nat /\ Steps \subseteq Nat
<1>1. /\ py \in PyState /\ (py.at # "step" => (py.step \in Steps /\ py.qlen \in Qlens))
      /\ (pending = {} \/ \E d \in Call : pending = {d}) /\ stream \in Seq(Ops)
  BY DEF Typed
<1>2. pending \in SUBSET Call
  BY <1>1
<1>3. /\ py.layer \in Layers /\ py.step \in 0 .. MaxSteps
      /\ py.prev \in SUBSET Layers /\ py.sync \in BOOLEAN /\ py.qlen \in Qlens \cup {0}
      /\ py.at \in {"step", "layer", "sync", "forward"}
  BY <1>1 DEF PyState
<1>4. Layers \subseteq Nat /\ Steps \subseteq Nat
  BY DecodeAssumption DEF Layers, Steps
<1> QED BY <1>1, <1>2, <1>3, <1>4

LEMMA TagParts ==
  ASSUME NEW t \in Tag
  PROVE  t[1] \in Steps /\ t[2] \in Layers /\ t[3] \in Parts /\ t = <<t[1], t[2], t[3]>>
BY DEF Tag, Parts

\* Where Python is once a layer has returned.
LEMMA NextLayerIs ==
  ASSUME Typed
  PROVE  /\ NextLayer \in PyState
         /\ NextLayer.step = py.step /\ NextLayer.qlen = py.qlen
         /\ NextLayer.sync = py.sync /\ NextLayer.prev = {}
         /\ \/ NextLayer.at = "step" /\ NextLayer.layer = py.layer
               /\ py.layer + 1 = NumLayers
            \/ NextLayer.at = "layer" /\ NextLayer.layer = py.layer + 1
<1>1. py \in PyState /\ py.layer \in Layers
  BY PyTypes
<1>2. CASE py.layer + 1 = NumLayers
  <2>1. NextLayer = [py EXCEPT !.at = "step", !.prev = {}]
    BY <1>2 DEF NextLayer
  <2> QED BY <1>1, <1>2, <2>1 DEF PyState
<1>3. CASE py.layer + 1 # NumLayers
  <2>1. NextLayer = [py EXCEPT !.at = "layer", !.layer = @ + 1, !.prev = {}]
    BY <1>3 DEF NextLayer
  <2>2. py.layer + 1 \in Layers
    BY <1>1, <1>3, DecodeAssumption DEF Layers
  <2> QED BY <1>1, <2>1, <2>2 DEF PyState
<1> QED BY <1>2, <1>3

\* A layer is past when it has returned, and not before.
LEMMA ReturnPast ==
  ASSUME Typed, py.at # "step", py' = NextLayer
  PROVE  /\ ~ Past(py.step, py.layer)
         /\ \A s, l : (s = py.step /\ l = py.layer) => Past(s, l)'
         /\ \A s \in Nat, l \in Int : Past(s, l) => Past(s, l)'
<1>1. py.layer \in Nat /\ py.step \in Nat
  BY PyTypes
<1>2. ~ Past(py.step, py.layer)
  BY <1>1 DEF Past
<1>3. /\ py'.step = py.step
      /\ \/ py'.at = "step" /\ py'.layer = py.layer
         \/ py'.at = "layer" /\ py'.layer = py.layer + 1
  BY NextLayerIs
<1>4. ASSUME NEW s \in Nat, NEW l \in Int, Past(s, l)
      PROVE  Past(s, l)'
  BY <1>1, <1>3, <1>4 DEF Past
<1>5. ASSUME NEW s, NEW l, s = py.step, l = py.layer
      PROVE  Past(s, l)'
  BY <1>1, <1>3, <1>5 DEF Past
<1> QED BY <1>2, <1>4, <1>5
\* The variables a step on the stream and Python alone leaves as they are.
Others == <<host, task, queue, thread, done, output, result, exit>>


\* How an asynchronous call goes about it.
LEMMA LayerCallPushes ==
  ASSUME Typed, StreamInv, FreshInv, LayerCall
  PROVE  \E s \in Steps, l \in Layers, q \in Qlens, defers \in BOOLEAN : \E o, a, z, T :
           /\ s = py.step /\ l = py.layer /\ q = py.qlen
           /\ defers = Defers(py.layer, py.qlen, py.sync)
           /\ o = LayerOps(s, l, q, pending, defers)
           /\ Pushed(o, a, z, T) /\ T = Own(s, l, defers)
           /\ CallLast(s, l, q, pending, defers, z)
           /\ pending' = IF defers THEN {[step |-> s, layer |-> l, qlen |-> q]} ELSE {}
<1>1. /\ py.at = "layer" /\ ~ py.sync /\ py' = NextLayer
      /\ stream' = stream \o LayerOps(py.step, py.layer, py.qlen, pending,
                                      Defers(py.layer, py.qlen, py.sync))
      /\ pending' = IF Defers(py.layer, py.qlen, py.sync)
                    THEN {[step |-> py.step, layer |-> py.layer, qlen |-> py.qlen]} ELSE {}
  BY DEF LayerCall, LeftPending
<1>2. /\ py.step \in Steps /\ py.layer \in Layers /\ py.qlen \in Qlens
      /\ pending \in SUBSET Call /\ (pending = {} \/ \E d \in Call : pending = {d})
      /\ stream \in Seq(Ops) /\ Layers \subseteq Nat /\ Steps \subseteq Nat
  BY <1>1, PyTypes
<1>3. PICK s \in Steps, l \in Layers, q \in Qlens, defers \in BOOLEAN :
        /\ s = py.step /\ l = py.layer /\ q = py.qlen
        /\ defers = Defers(py.layer, py.qlen, py.sync)
  <2>1. Defers(py.layer, py.qlen, py.sync) \in BOOLEAN
    BY DEF Defers
  <2> QED BY <1>2, <2>1
<1>4. PICK o, T, p : o = LayerOps(s, l, q, pending, defers) /\ T = Own(s, l, defers) /\ p = pending
  OBVIOUS
<1>5. PICK a, z : /\ Piece(o, a, z) /\ CallFirst(s, l, q, p, a)
                  /\ CallLast(s, l, q, p, defers, z)
  BY <1>2, <1>4, LayerPiece
<1>6. Enqueues(o, T)
  BY <1>2, <1>4, LayerPiece
<1>7. stream # << >> => Follows(stream[Len(stream)], a)
  <2> SUFFICES ASSUME stream # << >>
               PROVE  Follows(stream[Len(stream)], a)
    OBVIOUS
  <2>1. EndOfStream(stream[Len(stream)])
    BY DEF StreamInv
  <2>2. CASE pending = {}
    <3>1. stream[Len(stream)].op = "merge"
      BY <1>1, <2>1, <2>2 DEF EndOfStream
    <3>2. a = CopyIn(l, q, <<s, l, "now">>)
      BY <1>4, <1>5, <2>2 DEF CallFirst
    <3> QED BY <3>1, <3>2 DEF Follows, CopyIn, Op
  <2>3. ASSUME NEW d \in Call, pending = {d}
        PROVE  Follows(stream[Len(stream)], a)
    <3>1. stream[Len(stream)] = Enqueue(d.layer, d.qlen, Deferred(d))
      BY <2>1, <2>3 DEF EndOfStream
    <3>2. a = Wait(d.layer, d.qlen, Deferred(d))
      BY <1>4, <1>5, <2>3 DEF CallFirst, WaitFor
    <3> QED BY <3>1, <3>2 DEF Follows, Enqueue, Wait, Op
  <2> QED BY <1>2, <2>2, <2>3
<1>8. (\A d \in pending : a = WaitFor(d)) /\ (pending = {} => a.op # "wait")
  BY <1>4, <1>5 DEF CallFirst, CopyIn, Op
<1>9. ASSUME NEW t \in T
      PROVE  t \in Tag /\ ~ Launched(t) /\ Past(t[1], t[2])'
  <2>1. t \in Tag /\ t[1] = s /\ t[2] = l
    BY <1>3, <1>4 DEF Own, Tag
  <2>2. ~ Past(py.step, py.layer) /\ Past(s, l)'
    BY <1>1, <1>3, ReturnPast
  <2> QED BY <1>3, <2>1, <2>2 DEF FreshInv
<1>10. \A t \in Tag : Past(t[1], t[2]) => Past(t[1], t[2])'
  <2>1. \A t \in Tag : t[1] \in Nat /\ t[2] \in Int
    BY <1>2, TagParts
  <2>2. \A i \in Nat, j \in Int : Past(i, j) => Past(i, j)'
    BY <1>1, ReturnPast
  <2> QED BY <2>1, <2>2
<1>11. Pushed(o, a, z, T)
  BY <1>1, <1>3, <1>4, <1>5, <1>6, <1>7, <1>8, <1>9, <1>10 DEF Pushed
<1> QED BY <1>1, <1>3, <1>4, <1>5, <1>11

LEMMA LayerCallInv ==
  ASSUME DecodeInv, LayerCall
  PROVE  DecodeInv'
<1>1. Typed /\ StreamInv /\ TaskInv /\ FreshInv
  BY DEF DecodeInv
<1>2. PICK s, l, q, defers, o, a, z, T :
           /\ s \in Steps /\ l \in Layers /\ q \in Qlens /\ defers \in BOOLEAN
           /\ s = py.step /\ l = py.layer /\ q = py.qlen
           /\ defers = Defers(py.layer, py.qlen, py.sync)
           /\ o = LayerOps(s, l, q, pending, defers)
           /\ Pushed(o, a, z, T) /\ T = Own(s, l, defers)
           /\ CallLast(s, l, q, pending, defers, z)
           /\ pending' = IF defers THEN {[step |-> s, layer |-> l, qlen |-> q]} ELSE {}
  BY <1>1, LayerCallPushes
<1> s \in Steps /\ l \in Layers /\ q \in Qlens /\ defers \in BOOLEAN
  BY <1>2
<1>3. /\ py.at = "layer" /\ py' = NextLayer /\ UNCHANGED Others
  BY DEF LayerCall, Others
<1>4. UNCHANGED <<task, queue, thread, done>>
  BY <1>3 DEF Others
<1>5. TaskInv'
  BY <1>1, <1>2, <1>4, PushedOutstanding, SameTasks
<1>6. FreshInv'
  BY <1>1, <1>2, <1>4, PushedFresh
<1>7. /\ stream' \in Seq(Ops) /\ stream' # << >> /\ Chain(stream)'
      /\ stream'[Len(stream')] = z
  BY <1>1, <1>2, PushedStream
<1>8. py' \in PyState /\ py'.step = py.step /\ py'.qlen = py.qlen /\ py'.at \in {"step", "layer"}
  BY <1>1, <1>3, NextLayerIs
<1>9. EndOfStream(stream[Len(stream)])'
  <2>1. CASE defers
    <3>1. z = Enqueue(l, q, <<s, l, "deferred">>) /\ pending' = {[step |-> s, layer |-> l, qlen |-> q]}
      BY <1>2, <2>1 DEF CallLast
    <3>2. \A d \in pending' : d.layer = l /\ d.qlen = q /\ Deferred(d) = <<s, l, "deferred">>
      BY <3>1 DEF Deferred
    <3>3. pending' # {}
      BY <3>1
    <3> QED BY <1>7, <1>8, <3>1, <3>2, <3>3 DEF EndOfStream
  <2>2. CASE ~ defers
    <3>1. z.op = "merge" /\ pending' = {}
      BY <1>2, <2>2 DEF CallLast, Merge
    <3> QED BY <1>7, <1>8, <3>1 DEF EndOfStream
  <2> QED BY <2>1, <2>2
<1>10. StreamInv'
  BY <1>7, <1>8, <1>9 DEF StreamInv
<1>11. pending' = {} \/ \E d \in Call : pending' = {d}
  BY <1>2 DEF Call
<1>12. Typed'
  BY <1>1, <1>2, <1>3, <1>7, <1>8, <1>11 DEF Typed, Others
<1> QED BY <1>5, <1>6, <1>10, <1>12 DEF DecodeInv
LEMMA SyncCallPushes ==
  ASSUME Typed, StreamInv, FreshInv, SyncCall
  PROVE  \E s \in Steps, l \in Layers : \E o, a, z, T :
           /\ s = py.step /\ l = py.layer /\ Pushed(o, a, z, T) /\ T = {}
           /\ z = CopyIn(l, SyncSlot, <<s, l, "now">>)
<1>1. /\ py.at = "layer" /\ py.sync
      /\ py' = [py EXCEPT !.at = "sync", !.prev = {d.layer : d \in pending}]
      /\ stream' = stream \o PendingOps(pending)
                   \o <<CopyIn(py.layer, SyncSlot, <<py.step, py.layer, "now">>)>>
  BY DEF SyncCall
<1>2. /\ py.step \in Steps /\ py.layer \in Layers /\ py \in PyState
      /\ pending \in SUBSET Call /\ (pending = {} \/ \E d \in Call : pending = {d})
      /\ stream \in Seq(Ops) /\ Layers \subseteq Nat /\ Steps \subseteq Nat
  BY <1>1, PyTypes
<1>3. PICK s, l, z, o, p, T :
        /\ s \in Steps /\ l \in Layers
        /\ s = py.step /\ l = py.layer /\ z = CopyIn(l, SyncSlot, <<s, l, "now">>)
        /\ p = pending /\ o = PendingOps(p) \o <<z>> /\ T = {}
  BY <1>2
<1> s \in Steps /\ l \in Layers
  BY <1>3
<1>4. PICK a : Piece(o, a, z) /\ CallFirst(s, l, SyncSlot, p, a)
  BY <1>2, <1>3, SyncPiece
<1>5. Enqueues(o, T)
  BY <1>2, <1>3, SyncPiece
<1>6. stream' = stream \o o
  <2>1. PendingOps(p) \in Seq(Ops)
    BY <1>2, <1>3, PendingPiece DEF Piece, PendingOps
  <2>2. <<z>> \in Seq(Ops)
    <3>1. z \in Ops
      BY <1>3, OpTypes DEF Tag, Slots
    <3> QED BY <3>1
  <2>3. (stream \o PendingOps(p)) \o <<z>> = stream \o (PendingOps(p) \o <<z>>)
    BY <1>2, <2>1, <2>2, ConcatAssociative
  <2>4. stream' = (stream \o PendingOps(p)) \o <<z>>
    BY <1>1, <1>3
  <2> QED BY <1>3, <2>3, <2>4
<1>7. stream # << >> => Follows(stream[Len(stream)], a)
  <2> SUFFICES ASSUME stream # << >>
               PROVE  Follows(stream[Len(stream)], a)
    OBVIOUS
  <2>1. EndOfStream(stream[Len(stream)])
    BY DEF StreamInv
  <2>2. CASE pending = {}
    <3>1. stream[Len(stream)].op = "merge"
      BY <1>1, <2>1, <2>2 DEF EndOfStream
    <3>2. a = CopyIn(l, SyncSlot, <<s, l, "now">>)
      BY <1>3, <1>4, <2>2 DEF CallFirst
    <3> QED BY <3>1, <3>2 DEF Follows, CopyIn, Op
  <2>3. ASSUME NEW d \in Call, pending = {d}
        PROVE  Follows(stream[Len(stream)], a)
    <3>1. stream[Len(stream)] = Enqueue(d.layer, d.qlen, Deferred(d))
      BY <2>1, <2>3 DEF EndOfStream
    <3>2. a = Wait(d.layer, d.qlen, Deferred(d))
      BY <1>3, <1>4, <2>3 DEF CallFirst, WaitFor
    <3> QED BY <3>1, <3>2 DEF Follows, Enqueue, Wait, Op
  <2> QED BY <1>2, <2>2, <2>3
<1>8. (\A d \in pending : a = WaitFor(d)) /\ (pending = {} => a.op # "wait")
  BY <1>3, <1>4 DEF CallFirst, CopyIn, Op
<1>9. py'.at = "sync" /\ py'.step = py.step /\ py'.layer = py.layer
  BY <1>1, <1>2 DEF PyState
<1>10. \A t \in Tag : Past(t[1], t[2]) => Past(t[1], t[2])'
  BY <1>1, <1>9 DEF Past
<1>11. Pushed(o, a, z, T)
  BY <1>3, <1>4, <1>5, <1>6, <1>7, <1>8, <1>10 DEF Pushed
<1> QED BY <1>3, <1>11

LEMMA SyncCallInv ==
  ASSUME DecodeInv, SyncCall
  PROVE  DecodeInv'
<1>1. Typed /\ StreamInv /\ TaskInv /\ FreshInv
  BY DEF DecodeInv
<1>2. PICK s, l, o, a, z, T :
           /\ s \in Steps /\ l \in Layers
           /\ s = py.step /\ l = py.layer /\ Pushed(o, a, z, T)
           /\ z = CopyIn(l, SyncSlot, <<s, l, "now">>)
  BY <1>1, SyncCallPushes
<1> s \in Steps /\ l \in Layers
  BY <1>2
<1>3. /\ py.at = "layer" /\ pending' = {} /\ UNCHANGED Others
      /\ py' = [py EXCEPT !.at = "sync", !.prev = {d.layer : d \in pending}]
  BY DEF SyncCall, Others
<1>4. UNCHANGED <<task, queue, thread, done>>
  BY <1>3 DEF Others
<1>5. TaskInv' /\ FreshInv'
  BY <1>1, <1>2, <1>4, PushedOutstanding, SameTasks, PushedFresh
<1>6. /\ stream' \in Seq(Ops) /\ stream' # << >> /\ Chain(stream)'
      /\ stream'[Len(stream')] = z
  BY <1>1, <1>2, PushedStream
<1>7. {d.layer : d \in pending} \in SUBSET Layers
  BY <1>1, PyTypes, DeferredTag
<1>8. /\ py' \in PyState /\ py'.step = py.step /\ py'.qlen = py.qlen /\ py'.at = "sync"
      /\ py'.layer = py.layer
  BY <1>1, <1>3, <1>7, PyTypes DEF PyState
<1>9. EndOfStream(stream[Len(stream)])'
  BY <1>2, <1>3, <1>6, <1>8 DEF EndOfStream, SyncCopy
<1>10. StreamInv'
  BY <1>3, <1>6, <1>8, <1>9 DEF StreamInv
<1>11. Typed'
  BY <1>1, <1>3, <1>6, <1>8 DEF Typed, Others
<1> QED BY <1>5, <1>10, <1>11 DEF DecodeInv

\* A slot's buffer is written.
LEMMA BufferWritten ==
  ASSUME NEW h \in [Layers -> [Slots -> Buffers]], NEW l \in Layers, NEW q \in Slots,
         NEW x \in Data
  PROVE  /\ [h EXCEPT ![l][q].input = x] \in [Layers -> [Slots -> Buffers]]
         /\ [h EXCEPT ![l][q].output = x] \in [Layers -> [Slots -> Buffers]]
BY DEF Buffers

LEMMA BufferRead ==
  ASSUME NEW h \in [Layers -> [Slots -> Buffers]], NEW l \in Layers, NEW q \in Slots, NEW x
  PROVE  /\ [h EXCEPT ![l][q].input = x][l][q].input = x
         /\ [h EXCEPT ![l][q].output = x][l][q].output = x
         /\ [h EXCEPT ![l][q].output = x][l][q].input = h[l][q].input
BY DEF Buffers

LEMMA SyncReturnPushes ==
  ASSUME Typed, StreamInv, FreshInv, SyncReturn
  PROVE  \E s \in Steps, l \in Layers : \E o, a, z, T :
           /\ s = py.step /\ l = py.layer /\ Pushed(o, a, z, T) /\ T = {}
           /\ o = <<a, z>> /\ a = CopyOut(l, SyncSlot, <<s, l, "now">>)
           /\ z = Merge(l, s, py.prev)
<1>1. /\ py.at = "forward" /\ py' = NextLayer
      /\ stream' = stream \o <<CopyOut(py.layer, SyncSlot, <<py.step, py.layer, "now">>),
                               Merge(py.layer, py.step, py.prev)>>
  BY DEF SyncReturn
<1>2. /\ py.step \in Steps /\ py.layer \in Layers /\ py.prev \in SUBSET Layers
      /\ stream = << >> /\ pending = {} /\ Layers \subseteq Nat /\ Steps \subseteq Nat
  BY <1>1, PyTypes DEF StreamInv
<1>3. PICK s, l, a, z, o, T :
        /\ s \in Steps /\ l \in Layers
        /\ s = py.step /\ l = py.layer /\ a = CopyOut(l, SyncSlot, <<s, l, "now">>)
        /\ z = Merge(l, s, py.prev) /\ o = <<a, z>> /\ T = {}
  BY <1>2
<1> s \in Steps /\ l \in Layers
  BY <1>3
<1>4. <<s, l, "now">> \in Tag /\ SyncSlot \in Slots
  BY DEF Tag, Slots
<1>5. a \in Ops /\ z \in Ops /\ a.op = "h2d" /\ z.op = "merge" /\ z.l = l /\ z.step = s
  BY <1>2, <1>3, <1>4, OpTypes DEF CopyOut, Op, Merge
<1>6. Follows(a, z)
  BY <1>3, <1>4, <1>5 DEF Follows
<1>7. Piece(o, a, z)
  BY <1>3, <1>5, <1>6, TwoPiece
<1>8. Enqueues(o, T)
  <2>1. \A i \in 1 .. 2 : i = 1 \/ i = 2
    OBVIOUS
  <2> QED BY <1>3, <1>5, <2>1 DEF Enqueues
<1>9. \A t \in Tag : Past(t[1], t[2]) => Past(t[1], t[2])'
  <2>1. \A t \in Tag : t[1] \in Nat /\ t[2] \in Int
    BY <1>2, TagParts
  <2>2. \A i \in Nat, j \in Int : Past(i, j) => Past(i, j)'
    BY <1>1, ReturnPast
  <2> QED BY <2>1, <2>2
<1>10. Pushed(o, a, z, T)
  BY <1>1, <1>2, <1>3, <1>5, <1>7, <1>8, <1>9 DEF Pushed
<1> QED BY <1>3, <1>10

LEMMA SyncReturnInv ==
  ASSUME DecodeInv, SyncReturn
  PROVE  DecodeInv'
<1>1. Typed /\ StreamInv /\ TaskInv /\ FreshInv
  BY DEF DecodeInv
<1>2. PICK s, l, o, a, z, T :
           /\ s \in Steps /\ l \in Layers
           /\ Pushed(o, a, z, T) /\ z = Merge(l, s, py.prev)
  BY <1>1, SyncReturnPushes
<1> s \in Steps /\ l \in Layers
  BY <1>2
<1>3. /\ py.at = "forward" /\ py' = NextLayer
      /\ UNCHANGED <<pending, task, queue, thread, done, output, result, exit>>
      /\ host' = [host EXCEPT ![py.layer][SyncSlot].output = host[py.layer][SyncSlot].input]
  BY DEF SyncReturn
<1>4. pending = {}
  BY <1>1, <1>3 DEF StreamInv
<1>5. TaskInv' /\ FreshInv'
  BY <1>1, <1>2, <1>3, PushedOutstanding, SameTasks, PushedFresh
<1>6. /\ stream' \in Seq(Ops) /\ stream' # << >> /\ Chain(stream)'
      /\ stream'[Len(stream')] = z
  BY <1>1, <1>2, PushedStream
<1>7. py' \in PyState /\ py'.step = py.step /\ py'.qlen = py.qlen /\ py'.at \in {"step", "layer"}
  BY <1>1, <1>3, NextLayerIs
<1>8. EndOfStream(stream[Len(stream)])'
  BY <1>2, <1>3, <1>4, <1>6, <1>7 DEF EndOfStream, Merge
<1>9. StreamInv'
  BY <1>6, <1>7, <1>8 DEF StreamInv
<1>10. host' \in [Layers -> [Slots -> Buffers]]
  <2>1. host \in [Layers -> [Slots -> Buffers]] /\ py.layer \in Layers /\ SyncSlot \in Slots
    BY <1>1, PyTypes DEF Typed, Slots
  <2>2. host[py.layer][SyncSlot].input \in Data
    BY <2>1 DEF Buffers
  <2> QED BY <1>3, <2>1, <2>2, BufferWritten
<1>11. Typed'
  BY <1>1, <1>3, <1>4, <1>6, <1>7, <1>10 DEF Typed
<1> QED BY <1>5, <1>9, <1>11 DEF DecodeInv

\* A step that leaves the stream, what is pending and what is done.
LEMMA QuietFresh ==
  ASSUME FreshInv, UNCHANGED <<stream, pending, done>>,
         \A t \in Tag : Past(t[1], t[2]) => Past(t[1], t[2])'
  PROVE  FreshInv' /\ SameOutstanding /\ \A t : Launched(t)' <=> Launched(t)
<1>1. SameOutstanding
  BY DEF SameOutstanding, Outstanding
<1>2. \A t : Launched(t)' <=> Launched(t)
  BY <1>1 DEF SameOutstanding, Launched, EnqueueAt
<1>3. FreshInv'
  BY <1>1, <1>2 DEF FreshInv, SameOutstanding, EnqueueAt
<1> QED BY <1>1, <1>2, <1>3

LEMMA StartStepInv ==
  ASSUME DecodeInv, NEW q \in Qlens, NEW sync \in SyncSteps, StartStep(q, sync)
  PROVE  DecodeInv' /\ \A s \in Nat, l \in Int : Past(s, l) => Past(s, l)'
<1>1. Typed /\ StreamInv /\ TaskInv /\ FreshInv
  BY DEF DecodeInv
<1>2. /\ py.at = "step" /\ py.step < MaxSteps /\ UNCHANGED Others /\ UNCHANGED <<pending, stream>>
      /\ py' = [at |-> "layer", step |-> py.step + 1, layer |-> 0, qlen |-> q,
                sync |-> sync, prev |-> {}]
  BY DEF StartStep, Others
<1>3. py.step \in 0 .. MaxSteps /\ py.layer \in Layers
  BY <1>1, PyTypes
<1>4. py.step + 1 \in Steps /\ 0 \in Layers /\ sync \in BOOLEAN
  BY <1>2, <1>3, DecodeAssumption DEF Steps, Layers
<1>5. py' \in PyState /\ py'.at = "layer" /\ py'.step \in Steps /\ py'.qlen \in Qlens
  BY <1>2, <1>4 DEF PyState, Steps
<1>6. \A s \in Nat, l \in Int : Past(s, l) => Past(s, l)'
  BY <1>2, <1>3 DEF Past
<1>7. \A t \in Tag : t[1] \in Nat /\ t[2] \in Int
  BY <1>1, TagParts, PyTypes
<1>8. UNCHANGED <<stream, pending, done, task, queue, thread>>
  BY <1>2 DEF Others
<1>9. FreshInv' /\ TaskInv'
  BY <1>1, <1>6, <1>7, <1>8, QuietFresh, SameTasks
<1>10. StreamInv'
  BY <1>1, <1>2, <1>5 DEF StreamInv, EndOfStream
<1>11. Typed'
  BY <1>1, <1>2, <1>5 DEF Typed, Others
<1> QED BY <1>6, <1>9, <1>10, <1>11 DEF DecodeInv

LEMMA SyncForwardInv ==
  ASSUME DecodeInv, SyncForward
  PROVE  DecodeInv'
<1>1. Typed /\ StreamInv /\ TaskInv /\ FreshInv
  BY DEF DecodeInv
<1>2. /\ py.at = "sync" /\ stream = << >> /\ UNCHANGED Others /\ UNCHANGED <<pending, stream>>
      /\ py' = [py EXCEPT !.at = "forward"]
  BY DEF SyncForward, Others
<1>3. /\ py' \in PyState /\ py'.at = "forward" /\ py'.step = py.step /\ py'.qlen = py.qlen
      /\ py'.layer = py.layer /\ py.step \in Steps /\ py.qlen \in Qlens
  BY <1>1, <1>2, PyTypes DEF PyState
<1>4. \A t \in Tag : Past(t[1], t[2]) => Past(t[1], t[2])'
  BY <1>2, <1>3 DEF Past
<1>5. UNCHANGED <<stream, pending, done, task, queue, thread>>
  BY <1>2 DEF Others
<1>6. FreshInv' /\ TaskInv'
  BY <1>1, <1>4, <1>5, QuietFresh, SameTasks
<1>7. StreamInv'
  BY <1>1, <1>2, <1>3 DEF StreamInv
<1>8. Typed'
  BY <1>1, <1>2, <1>3 DEF Typed, Others
<1> QED BY <1>6, <1>7, <1>8 DEF DecodeInv

LEMMA DestroyInv ==
  ASSUME DecodeInv, NEW l \in Layers, Destroy(l)
  PROVE  DecodeInv'
<1>1. Typed /\ StreamInv /\ TaskInv /\ FreshInv
  BY DEF DecodeInv
<1>2. /\ exit' = [exit EXCEPT ![l] = TRUE]
      /\ UNCHANGED <<py, pending, stream, host, task, queue, thread, done, output, result>>
  BY DEF Destroy
<1>3. \A t \in Tag : Past(t[1], t[2]) => Past(t[1], t[2])'
  BY <1>2 DEF Past
<1>4. UNCHANGED <<stream, pending, done, task, queue, thread>>
  BY <1>2
<1>5. FreshInv' /\ TaskInv'
  BY <1>1, <1>3, <1>4, QuietFresh, SameTasks
<1>6. StreamInv'
  BY <1>1, <1>2 DEF StreamInv, EndOfStream, SyncCopy, Chain
<1>7. exit' \in [Layers -> BOOLEAN]
  BY <1>1, <1>2 DEF Typed
<1>8. Typed'
  BY <1>1, <1>2, <1>7 DEF Typed
<1> QED BY <1>5, <1>6, <1>8 DEF DecodeInv

-----------------------------------------------------------------------------
(* The CUDA stream.                                                         *)

\* The stream has done the operation at its head.
Popped == stream # << >> /\ stream' = Tail(stream) /\ UNCHANGED <<py, pending>>

\* The operations are where they were, one place further.
LEMMA PoppedAt ==
  ASSUME Typed, Popped
  PROVE  /\ stream' \in Seq(Ops) /\ Head(stream) = stream[1] /\ stream[1] \in Ops
         /\ Len(stream) \in Nat \ {0} /\ Len(stream') = Len(stream) - 1
         /\ stream' = << >> <=> Len(stream) = 1
         /\ \A i \in 1 .. Len(stream') :
              /\ i + 1 \in 1 .. Len(stream) /\ stream'[i] = stream[i + 1]
              /\ stream'[i] \in Ops
<1>1. stream \in Seq(Ops) /\ stream # << >> /\ stream' = Tail(stream)
  BY DEF Typed, Popped
<1>2. /\ stream' \in Seq(Ops) /\ Head(stream) \in Ops /\ Head(stream) = stream[1]
      /\ Len(stream) \in Nat \ {0} /\ Len(stream') = Len(stream) - 1
      /\ \A i \in 1 .. (Len(stream) - 1) : i + 1 \in 1 .. Len(stream) /\ stream'[i] = stream[i + 1]
      /\ \A i \in 1 .. Len(stream) : stream[i] \in Ops
  BY <1>1, Taken
<1>3. stream' = << >> <=> Len(stream') = 0
  BY <1>2, Empty
<1> QED BY <1>2, <1>3

\* The order of the stream is kept, and the operation at the head tells the next.
LEMMA PoppedStream ==
  ASSUME Typed, StreamInv, Popped
  PROVE  /\ StreamInv'
         /\ stream' # << >> => (stream'[1] \in Ops /\ Follows(stream[1], stream'[1]))
         /\ stream' = << >> => EndOfStream(stream[1])
<1>1. /\ stream' \in Seq(Ops) /\ Len(stream) \in Nat \ {0} /\ Len(stream') = Len(stream) - 1
      /\ stream' = << >> <=> Len(stream) = 1
      /\ \A i \in 1 .. Len(stream') :
           /\ i + 1 \in 1 .. Len(stream) /\ stream'[i] = stream[i + 1] /\ stream'[i] \in Ops
  BY PoppedAt
<1>2. /\ Chain(stream) /\ EndOfStream(stream[Len(stream)])
      /\ (py.at = "forward" => stream = << >>)
      /\ py.at \in {"sync", "forward"} => pending = {}
      /\ stream # << >> /\ py' = py /\ pending' = pending
  BY DEF StreamInv, Popped
<1>3. Chain(stream)'
  <2> SUFFICES ASSUME NEW i \in 1 .. (Len(stream') - 1)
               PROVE  Follows(stream'[i], stream'[i + 1])
    BY DEF Chain
  <2>1. /\ i \in 1 .. Len(stream') /\ i + 1 \in 1 .. Len(stream')
        /\ i + 1 \in 1 .. (Len(stream) - 1)
    BY <1>1
  <2>2. Follows(stream[i + 1], stream[(i + 1) + 1])
    BY <1>2, <2>1 DEF Chain
  <2> QED BY <1>1, <2>1, <2>2
<1>4. ASSUME stream' # << >>
      PROVE  /\ stream'[1] \in Ops /\ Follows(stream[1], stream'[1])
             /\ stream'[Len(stream')] = stream[Len(stream)]
  <2>1. 1 \in 1 .. Len(stream') /\ Len(stream') \in 1 .. Len(stream') /\ 1 \in 1 .. (Len(stream) - 1)
    BY <1>1, <1>4
  <2>2. Len(stream') + 1 = Len(stream) /\ 1 + 1 = 2
    BY <1>1
  <2>3. stream'[Len(stream')] = stream[Len(stream)] /\ stream'[1] = stream[2] /\ stream'[1] \in Ops
    BY <1>1, <2>1, <2>2
  <2>4. Follows(stream[1], stream[1 + 1])
    BY <1>2, <2>1 DEF Chain
  <2> QED BY <2>2, <2>3, <2>4
<1>5. EndOfStream(stream[Len(stream)])' <=> EndOfStream(stream'[Len(stream')])
  BY <1>2 DEF EndOfStream, SyncCopy
<1>6. StreamInv'
  BY <1>2, <1>3, <1>4, <1>5 DEF StreamInv
<1> QED BY <1>1, <1>2, <1>4, <1>6

\* Nothing is outstanding before and after an operation other than enqueue and wait;
LEMMA PoppedNone ==
  ASSUME Typed, StreamInv, Popped, stream[1].op # "enqueue"
  PROVE  \A l, q, t : ~ Outstanding(l, q, t)'
<1> SUFFICES ASSUME NEW l, NEW q, NEW t, Outstanding(l, q, t)'
             PROVE  FALSE
  OBVIOUS
<1>1. pending' = pending
  BY DEF Popped
<1>2. CASE stream' # << >> /\ stream'[1] = Wait(l, q, t)
  <2>1. stream'[1].op = "wait"
    BY <1>2 DEF Wait, Op
  <2>2. Follows(stream[1], stream'[1])
    BY <1>2, PoppedStream
  <2>3. stream[1].op = "enqueue"
    BY <2>1, <2>2 DEF Follows, Enqueue, Op
  <2> QED BY <2>3
<1>3. CASE stream' = << >> /\ pending # {}
  <2>1. EndOfStream(stream[1])
    BY <1>3, PoppedStream
  <2>2. PICK d \in pending : stream[1] = Enqueue(d.layer, d.qlen, Deferred(d))
    BY <1>3, <2>1 DEF EndOfStream
  <2> QED BY <2>2 DEF Enqueue, Op
<1> QED BY <1>1, <1>2, <1>3 DEF Outstanding

LEMMA HeadNone ==
  ASSUME stream # << >>, stream[1].op # "wait"
  PROVE  \A l, q, t : ~ Outstanding(l, q, t)
BY DEF Outstanding, Wait, Op

\* and after an enqueue its task is.
LEMMA PoppedEnqueue ==
  ASSUME Typed, StreamInv, Popped, stream[1].op = "enqueue"
  PROVE  LET h == stream[1]
         IN \A l, q, t : Outstanding(l, q, t)' <=> (l = h.l /\ q = h.slot /\ t = h.tag)
<1> DEFINE h == stream[1]
<1> SUFFICES ASSUME NEW l, NEW q, NEW t
             PROVE  Outstanding(l, q, t)' <=> (l = h.l /\ q = h.slot /\ t = h.tag)
  OBVIOUS
<1>1. pending' = pending /\ (pending = {} \/ \E d \in Call : pending = {d})
  BY PyTypes DEF Popped
<1>2. h.op = "enqueue"
  OBVIOUS
<1> HIDE DEF h
<1>3. CASE stream' # << >>
  <2>1. stream'[1] \in Ops /\ Follows(h, stream'[1])
    BY <1>3, PoppedStream DEF h
  <2>2. stream'[1].op = "wait"
    <3>1. stream'[1].op \in {"d2h", "h2d", "enqueue", "wait", "merge"}
      BY <2>1, OpFields
    <3> QED BY <1>2, <2>1, <3>1 DEF Follows, CopyIn, CopyOut, Wait, Op
  <2>3. h = Enqueue(stream'[1].l, stream'[1].slot, stream'[1].tag)
    BY <2>1, <2>2 DEF Follows
  <2>4. stream'[1] = Wait(stream'[1].l, stream'[1].slot, stream'[1].tag)
    BY <2>1, <2>2, OpFields
  <2>5. stream'[1] = Wait(h.l, h.slot, h.tag)
    BY <2>3, <2>4 DEF Enqueue, Op
  <2>6. Outstanding(l, q, t)' <=> stream'[1] = Wait(l, q, t)
    BY <1>3 DEF Outstanding
  <2> QED BY <2>5, <2>6, WaitIs
<1>4. CASE stream' = << >>
  <2>1. EndOfStream(h)
    BY <1>4, PoppedStream DEF h
  <2>2. pending # {}
    BY <1>2, <2>1 DEF EndOfStream, SyncCopy, CopyIn, Op
  <2>3. PICK d \in Call : pending = {d}
    BY <1>1, <2>2
  <2>4. h = Enqueue(d.layer, d.qlen, Deferred(d))
    BY <2>1, <2>3 DEF EndOfStream
  <2>5. h.l = d.layer /\ h.slot = d.qlen /\ h.tag = Deferred(d)
    BY <2>4 DEF Enqueue, Op
  <2>6. Outstanding(l, q, t)' <=> (l = d.layer /\ q = d.qlen /\ t = Deferred(d))
    BY <1>1, <1>4, <2>3 DEF Outstanding
  <2> QED BY <2>5, <2>6
<1> QED BY <1>3, <1>4

\* Only a task that is enqueued becomes outstanding.
LEMMA PoppedOutstanding ==
  ASSUME Typed, StreamInv, Popped, NEW l, NEW q, NEW t, Outstanding(l, q, t)'
  PROVE  stream[1].op = "enqueue" /\ stream[1].tag = t
BY PoppedNone, PoppedEnqueue

\* No task is launched by an operation.
LEMMA PoppedLaunched ==
  ASSUME Typed, StreamInv, Popped, done' = done, NEW t, Launched(t)'
  PROVE  Launched(t)
<1>1. /\ Len(stream) \in Nat \ {0}
      /\ \A i \in 1 .. Len(stream') : i + 1 \in 1 .. Len(stream) /\ stream'[i] = stream[i + 1]
  BY PoppedAt
<1>2. 1 \in 1 .. Len(stream)
  BY <1>1
<1>3. CASE t \in done'
  BY <1>3 DEF Launched
<1>4. CASE \E l \in Layers, q \in Qlens : Outstanding(l, q, t)'
  BY <1>2, <1>4, PoppedOutstanding DEF Launched, EnqueueAt
<1>5. CASE \E i \in 1 .. Len(stream') : EnqueueAt(i, t)'
  BY <1>1, <1>5 DEF Launched, EnqueueAt
<1> QED BY <1>3, <1>4, <1>5 DEF Launched

LEMMA PoppedFresh ==
  ASSUME Typed, StreamInv, FreshInv, Popped, done' = done
  PROVE  FreshInv'
<1>1. /\ Len(stream) \in Nat \ {0}
      /\ \A i \in 1 .. Len(stream') : i + 1 \in 1 .. Len(stream) /\ stream'[i] = stream[i + 1]
  BY PoppedAt
<1>2. 1 \in 1 .. Len(stream)
  BY <1>1
<1>3. \A t \in Tag : Launched(t)' => Past(t[1], t[2])'
  BY PoppedLaunched DEF FreshInv, Past, Popped
<1>4. ASSUME NEW i \in 1 .. Len(stream'), NEW t \in Tag, EnqueueAt(i, t)'
      PROVE  /\ t \notin done'
             /\ \A l \in Layers, q \in Qlens : ~ Outstanding(l, q, t)'
             /\ \A j \in 1 .. Len(stream') : EnqueueAt(j, t)' => i = j
  <2>1. i + 1 \in 1 .. Len(stream) /\ EnqueueAt(i + 1, t)
    BY <1>1, <1>4 DEF EnqueueAt
  <2>2. t \notin done /\ \A j \in 1 .. Len(stream) : EnqueueAt(j, t) => i + 1 = j
    BY <2>1 DEF FreshInv
  <2>3. ASSUME NEW l \in Layers, NEW q \in Qlens, Outstanding(l, q, t)'
        PROVE  FALSE
    <3>1. EnqueueAt(1, t)
      BY <2>3, PoppedOutstanding DEF EnqueueAt
    <3>2. i + 1 = 1
      BY <1>2, <2>2, <3>1
    <3> QED BY <1>4, <3>2
  <2>4. ASSUME NEW j \in 1 .. Len(stream'), EnqueueAt(j, t)'
        PROVE  i = j
    <3>1. j + 1 \in 1 .. Len(stream) /\ EnqueueAt(j + 1, t)
      BY <1>1, <2>4 DEF EnqueueAt
    <3>2. i + 1 = j + 1
      BY <2>2, <3>1
    <3> QED BY <1>4, <2>4, <3>2
  <2> QED BY <2>2, <2>3, <2>4
<1> QED BY <1>3, <1>4 DEF FreshInv
\* With nothing outstanding, before and after, no thread has a task.
LEMMA NoTasks ==
  ASSUME TaskInv, \A l, q, t : ~ Outstanding(l, q, t)
  PROVE  \A l \in Layers : queue[l] = << >> /\ thread[l].at # "forward"
BY DEF TaskInv

LEMMA NoTasksKept ==
  ASSUME \A l \in Layers : queue[l] = << >> /\ thread[l].at # "forward",
         \A l, q, t : ~ Outstanding(l, q, t)', UNCHANGED <<queue, thread>>
  PROVE  TaskInv'
BY DEF TaskInv

\* An operation that is neither an enqueue nor a wait.
LEMMA CopyOrMergeInv ==
  ASSUME Typed, StreamInv, TaskInv, FreshInv, Popped,
         stream[1].op \notin {"enqueue", "wait"}, UNCHANGED <<queue, thread, done>>
  PROVE  StreamInv' /\ TaskInv' /\ FreshInv'
<1>1. stream # << >>
  BY DEF Popped
<1>2. \A l \in Layers : queue[l] = << >> /\ thread[l].at # "forward"
  BY <1>1, HeadNone, NoTasks
<1>3. TaskInv'
  BY <1>2, PoppedNone, NoTasksKept
<1> QED BY <1>3, PoppedStream, PoppedFresh

LEMMA StreamCopyInInv ==
  ASSUME DecodeInv, StreamCopyIn
  PROVE  DecodeInv'
<1>1. Typed /\ StreamInv /\ TaskInv /\ FreshInv
  BY DEF DecodeInv
<1>2. /\ Popped /\ Head(stream).op = "d2h"
      /\ host' = [host EXCEPT ![Head(stream).l][Head(stream).slot].input = Head(stream).tag]
      /\ UNCHANGED <<py, pending, task, queue, thread, done, output, result, exit>>
  BY DEF StreamCopyIn, StreamOp, Popped
<1>3. /\ stream' \in Seq(Ops) /\ Head(stream) = stream[1] /\ stream[1] \in Ops
  BY <1>1, <1>2, PoppedAt
<1>4. StreamInv' /\ TaskInv' /\ FreshInv'
  BY <1>1, <1>2, <1>3, CopyOrMergeInv
<1>5. host' \in [Layers -> [Slots -> Buffers]]
  <2>1. Head(stream).l \in Layers /\ Head(stream).slot \in Slots /\ Head(stream).tag \in Data
    BY <1>2, <1>3, OpFields DEF Data
  <2>2. host \in [Layers -> [Slots -> Buffers]]
    BY <1>1 DEF Typed
  <2> QED BY <1>2, <2>1, <2>2, BufferWritten
<1>6. Typed'
  BY <1>1, <1>2, <1>3, <1>5 DEF Typed
<1> QED BY <1>4, <1>6 DEF DecodeInv

LEMMA StreamEnqueueInv ==
  ASSUME DecodeInv, StreamEnqueue
  PROVE  DecodeInv'
<1>1. Typed /\ StreamInv /\ TaskInv /\ FreshInv
  BY DEF DecodeInv
<1>2. PICK h : h = Head(stream)
  OBVIOUS
<1>3. /\ Popped /\ h.op = "enqueue"
      /\ task' = [task EXCEPT ![h.l][h.slot] = h.tag]
      /\ queue' = [queue EXCEPT ![h.l] = Append(@, [tag |-> h.tag, slot |-> h.slot])]
      /\ UNCHANGED <<py, pending, host, thread, done, output, result, exit>>
  BY <1>2 DEF StreamEnqueue, StreamOp, Popped
<1>4. stream' \in Seq(Ops) /\ h = stream[1] /\ h \in Ops /\ stream # << >>
      /\ 1 \in 1 .. Len(stream)
  BY <1>1, <1>2, <1>3, PoppedAt DEF Popped
<1>5. h.l \in Layers /\ h.slot \in Qlens /\ h.tag \in Tag
  BY <1>3, <1>4, OpFields
<1>6. \A l \in Layers : queue[l] = << >> /\ thread[l].at # "forward"
  BY <1>1, <1>3, <1>4, HeadNone, NoTasks
<1>7. \A l, q, t : Outstanding(l, q, t)' <=> (l = h.l /\ q = h.slot /\ t = h.tag)
  BY <1>1, <1>3, <1>4, PoppedEnqueue
<1>8. h.tag \notin done
  BY <1>1, <1>3, <1>4, <1>5 DEF FreshInv, EnqueueAt
<1>9. StreamInv' /\ FreshInv'
  BY <1>1, <1>3, PoppedStream, PoppedFresh
<1>10. /\ queue \in [Layers -> Seq(Entry)] /\ task \in [Layers -> [Qlens -> Data]]
  BY <1>1 DEF Typed
<1> DEFINE e == [tag |-> h.tag, slot |-> h.slot]
<1>11. e \in Entry /\ e.tag = h.tag /\ e.slot = h.slot
  BY <1>5 DEF Entry
<1>12. Append(<< >>, e) = <<e>> /\ Len(<<e>>) = 1 /\ <<e>>[1] = e /\ <<e>> \in Seq(Entry)
  BY <1>11
<1> HIDE DEF e
<1>13. queue' = [queue EXCEPT ![h.l] = <<e>>]
  BY <1>3, <1>5, <1>6, <1>10, <1>12 DEF e
<1>14. \A l \in Layers : queue'[l] = IF l = h.l THEN <<e>> ELSE << >>
  BY <1>5, <1>6, <1>10, <1>13
<1>15. task'[h.l][h.slot] = h.tag /\ task' \in [Layers -> [Qlens -> Data]]
  BY <1>3, <1>5, <1>10 DEF Data
<1>16. TaskInv'
  <2>1. ASSUME NEW l \in Layers, queue'[l] # << >>
        PROVE  /\ thread'[l].at # "forward"
               /\ \E q \in Qlens, t \in Tag :
                    queue'[l] = <<[tag |-> t, slot |-> q]>> /\ t \notin done' /\ Outstanding(l, q, t)'
    <3>1. l = h.l /\ queue'[l] = <<e>>
      BY <1>14, <2>1
    <3> QED BY <1>3, <1>5, <1>6, <1>7, <1>8, <3>1 DEF e
  <2>2. \A l \in Layers : thread'[l].at # "forward"
    BY <1>3, <1>6
  <2>3. \A l \in Layers, q \in Qlens, t \in Tag : Outstanding(l, q, t)' => task'[l][q] = t
    BY <1>7, <1>15
  <2> QED BY <2>1, <2>2, <2>3 DEF TaskInv
<1>17. queue' \in [Layers -> Seq(Entry)]
  BY <1>10, <1>12, <1>13
<1>18. Typed'
  BY <1>1, <1>3, <1>4, <1>15, <1>17 DEF Typed
<1> QED BY <1>9, <1>16, <1>18 DEF DecodeInv
\* At most one task is outstanding.
LEMMA OneOutstanding ==
  ASSUME Typed, NEW l, NEW q, NEW t, NEW m, NEW r, NEW u,
         Outstanding(l, q, t), Outstanding(m, r, u)
  PROVE  l = m /\ q = r /\ t = u
<1>1. CASE stream # << >>
  <2>1. Wait(l, q, t) = Wait(m, r, u)
    BY <1>1 DEF Outstanding
  <2> QED BY <2>1, WaitIs
<1>2. CASE stream = << >>
  <2>1. pending = {} \/ \E d \in Call : pending = {d}
    BY PyTypes
  <2> QED BY <1>2, <2>1 DEF Outstanding
<1> QED BY <1>1, <1>2

\* A layer that has a task has the one that is outstanding.
LEMMA HasOutstanding ==
  ASSUME Typed, TaskInv, NEW m, NEW r, NEW u, Outstanding(m, r, u),
         NEW l \in Layers, queue[l] # << >> \/ thread[l].at = "forward"
  PROVE  l = m /\ u \notin done
<1>1. PICK q \in Qlens, t \in Tag : t \notin done /\ Outstanding(l, q, t)
  BY DEF TaskInv
<1> QED BY <1>1, OneOutstanding

\* When the task that is outstanding is done, no thread has a task.
LEMMA DoneNoTasks ==
  ASSUME Typed, TaskInv, NEW m, NEW r, NEW u \in done, Outstanding(m, r, u)
  PROVE  \A l \in Layers : queue[l] = << >> /\ thread[l].at # "forward"
BY HasOutstanding

LEMMA StreamWaitInv ==
  ASSUME DecodeInv, StreamWait
  PROVE  DecodeInv'
<1>1. Typed /\ StreamInv /\ TaskInv /\ FreshInv
  BY DEF DecodeInv
<1>2. PICK h : h = Head(stream)
  OBVIOUS
<1>3. /\ Popped /\ h.op = "wait" /\ task[h.l][h.slot] \in done
      /\ task' = [task EXCEPT ![h.l][h.slot] = None]
      /\ UNCHANGED <<py, pending, host, queue, thread, done, output, result, exit>>
  BY <1>2 DEF StreamWait, StreamOp, Popped
<1>4. stream' \in Seq(Ops) /\ h = stream[1] /\ h \in Ops /\ stream # << >>
  BY <1>1, <1>2, <1>3, PoppedAt DEF Popped
<1>5. h.l \in Layers /\ h.slot \in Qlens /\ h.tag \in Tag /\ h = Wait(h.l, h.slot, h.tag)
  BY <1>3, <1>4, OpFields
<1>6. Outstanding(h.l, h.slot, h.tag)
  BY <1>4, <1>5 DEF Outstanding
<1>7. h.tag \in done
  BY <1>1, <1>3, <1>5, <1>6 DEF TaskInv
<1>8. \A l \in Layers : queue[l] = << >> /\ thread[l].at # "forward"
  BY <1>1, <1>6, <1>7, DoneNoTasks
<1>9. TaskInv'
  BY <1>1, <1>3, <1>4, <1>8, PoppedNone, NoTasksKept
<1>10. StreamInv' /\ FreshInv'
  BY <1>1, <1>3, PoppedStream, PoppedFresh
<1>11. task' \in [Layers -> [Qlens -> Data]]
  BY <1>1, <1>3, <1>5 DEF Typed, Data
<1>12. Typed'
  BY <1>1, <1>3, <1>4, <1>11 DEF Typed
<1> QED BY <1>9, <1>10, <1>12 DEF DecodeInv

LEMMA StreamCopyOutInv ==
  ASSUME DecodeInv, StreamCopyOut
  PROVE  DecodeInv'
<1>1. Typed /\ StreamInv /\ TaskInv /\ FreshInv
  BY DEF DecodeInv
<1>2. PICK h : h = Head(stream)
  OBVIOUS
<1>3. /\ Popped /\ h.op = "h2d"
      /\ output' = [output EXCEPT ![h.l][h.tag[3]] = host[h.l][h.slot].output]
      /\ UNCHANGED <<py, pending, host, task, queue, thread, done, result, exit>>
  BY <1>2 DEF StreamCopyOut, StreamOp, Popped
<1>4. /\ stream' \in Seq(Ops) /\ h = stream[1] /\ h \in Ops
  BY <1>1, <1>2, <1>3, PoppedAt
<1>5. StreamInv' /\ TaskInv' /\ FreshInv'
  BY <1>1, <1>3, <1>4, CopyOrMergeInv
<1>6. output' \in [Layers -> [Parts -> Data]]
  <2>1. h.l \in Layers /\ h.slot \in Slots /\ h.tag[3] \in Parts
    BY <1>3, <1>4, OpFields, TagParts
  <2>2. host \in [Layers -> [Slots -> Buffers]] /\ output \in [Layers -> [Parts -> Data]]
    BY <1>1 DEF Typed
  <2>3. host[h.l][h.slot].output \in Data
    BY <2>1, <2>2 DEF Buffers
  <2> QED BY <1>3, <2>1, <2>2, <2>3
<1>7. Typed'
  BY <1>1, <1>3, <1>4, <1>6 DEF Typed
<1> QED BY <1>5, <1>7 DEF DecodeInv

LEMMA StreamMergeInv ==
  ASSUME DecodeInv, StreamMerge
  PROVE  DecodeInv'
<1>1. Typed /\ StreamInv /\ TaskInv /\ FreshInv
  BY DEF DecodeInv
<1>2. PICK h : h = Head(stream)
  OBVIOUS
<1>3. /\ Popped /\ h.op = "merge"
      /\ result' = [result EXCEPT ![h.step][h.l] =
           {output[h.l]["now"]} \cup {output[p]["deferred"] : p \in h.prev}]
      /\ UNCHANGED <<py, pending, host, task, queue, thread, done, output, exit>>
  BY <1>2 DEF StreamMerge, StreamOp, Popped
<1>4. /\ stream' \in Seq(Ops) /\ h = stream[1] /\ h \in Ops
  BY <1>1, <1>2, <1>3, PoppedAt
<1>5. StreamInv' /\ TaskInv' /\ FreshInv'
  BY <1>1, <1>3, <1>4, CopyOrMergeInv
<1>6. result' \in [Steps -> [Layers -> SUBSET Data]]
  <2>1. h.l \in Layers /\ h.step \in Steps /\ h.prev \in SUBSET Layers
    BY <1>3, <1>4, OpFields
  <2>2. output \in [Layers -> [Parts -> Data]] /\ result \in [Steps -> [Layers -> SUBSET Data]]
    BY <1>1 DEF Typed
  <2>3. \A l \in Layers : output[l]["now"] \in Data /\ output[l]["deferred"] \in Data
    BY <2>2 DEF Parts
  <2>4. {output[h.l]["now"]} \cup {output[p]["deferred"] : p \in h.prev} \in SUBSET Data
    BY <2>1, <2>3
  <2> QED BY <1>3, <2>1, <2>2, <2>4
<1>7. Typed'
  BY <1>1, <1>3, <1>4, <1>6 DEF Typed
<1> QED BY <1>5, <1>7 DEF DecodeInv

-----------------------------------------------------------------------------
(* The decode threads.                                                      *)

\* A thread's step leaves the order of the stream.
LEMMA StreamKept ==
  ASSUME StreamInv, UNCHANGED <<py, pending, stream>>
  PROVE  /\ StreamInv' /\ SameOutstanding
         /\ \A s, l : Past(s, l)' <=> Past(s, l)
         /\ \A i, t : EnqueueAt(i, t)' <=> EnqueueAt(i, t)
BY DEF StreamInv, EndOfStream, SyncCopy, Chain, SameOutstanding, Outstanding, Past, EnqueueAt

LEMMA TakeTaskInv ==
  ASSUME DecodeInv, NEW l \in Layers, TakeTask(l)
  PROVE  DecodeInv'
<1>1. Typed /\ StreamInv /\ TaskInv /\ FreshInv
  BY DEF DecodeInv
<1>2. PICK e : e = Head(queue[l])
  OBVIOUS
<1>3. /\ thread[l].at = "idle" /\ queue[l] # << >>
      /\ thread' = [thread EXCEPT ![l] = [at |-> "forward", tag |-> e.tag, slot |-> e.slot,
                                          seen |-> host[l][e.slot].input]]
      /\ queue' = [queue EXCEPT ![l] = Tail(@)]
      /\ UNCHANGED <<py, pending, stream, host, task, done, output, result, exit>>
  BY <1>2 DEF TakeTask
<1>4. PICK q \in Qlens, t \in Tag :
        queue[l] = <<[tag |-> t, slot |-> q]>> /\ t \notin done /\ Outstanding(l, q, t)
  BY <1>1, <1>3 DEF TaskInv
<1>5. e.tag = t /\ e.slot = q /\ Tail(queue[l]) = << >>
  <2>1. e = [tag |-> t, slot |-> q] /\ Tail(queue[l]) = << >>
    BY <1>2, <1>4
  <2> QED BY <2>1
<1>6. /\ queue \in [Layers -> Seq(Entry)] /\ thread \in [Layers -> ThreadState]
      /\ host \in [Layers -> [Slots -> Buffers]]
  BY <1>1 DEF Typed
<1>7. host[l][q].input \in Data /\ q \in Slots
  BY <1>6 DEF Buffers, Slots
<1> DEFINE f == [at |-> "forward", tag |-> t, slot |-> q, seen |-> host[l][q].input]
<1>8. f \in ThreadState /\ f.at = "forward" /\ f.tag = t /\ f.slot = q
  BY <1>7 DEF ThreadState, Data
<1>9. thread' = [thread EXCEPT ![l] = f]
  BY <1>3, <1>5
<1> HIDE DEF f
<1>10. /\ thread' \in [Layers -> ThreadState] /\ thread'[l] = f
       /\ \A m \in Layers : m # l => thread'[m] = thread[m]
  BY <1>6, <1>8, <1>9
<1>11. /\ queue' \in [Layers -> Seq(Entry)] /\ queue'[l] = << >>
       /\ \A m \in Layers : m # l => queue'[m] = queue[m]
  <2>1. queue' = [queue EXCEPT ![l] = << >>]
    BY <1>3, <1>5, <1>6
  <2> QED BY <1>6, <2>1
<1>12. StreamInv' /\ SameOutstanding
  BY <1>1, <1>3, StreamKept
<1>13. FreshInv'
  BY <1>1, <1>3, QuietFresh DEF Past
<1>14. \A m \in Layers : m # l => queue[m] = << >> /\ thread[m].at # "forward"
  BY <1>1, <1>4, OneOutstanding DEF TaskInv
<1>15. TaskInv'
  <2>1. \A m \in Layers : queue'[m] = << >>
    BY <1>11, <1>14
  <2>2. \A m \in Layers : thread'[m].at = "forward" => m = l
    BY <1>10, <1>14
  <2>3. thread'[l].tag = t /\ thread'[l].slot = q /\ t \notin done' /\ Outstanding(l, q, t)'
    BY <1>3, <1>4, <1>8, <1>10, <1>12 DEF SameOutstanding
  <2>4. \A m \in Layers, r \in Qlens, u \in Tag : Outstanding(m, r, u)' => task'[m][r] = u
    BY <1>1, <1>3, <1>12 DEF SameOutstanding, TaskInv
  <2> QED BY <2>1, <2>2, <2>3, <2>4 DEF TaskInv
<1>16. \A m \in Layers : thread'[m].at = "forward" => thread'[m].tag \in Tag
  BY <1>8, <1>10, <1>14
<1>17. Typed'
  BY <1>1, <1>3, <1>10, <1>11, <1>16 DEF Typed
<1> QED BY <1>12, <1>13, <1>15, <1>17 DEF DecodeInv

\* The task that a thread works on, and what its end changes.
LEMMA FinishTaskDone ==
  ASSUME DecodeInv, NEW l \in Layers, FinishTask(l)
  PROVE  \E q \in Qlens, t \in Tag :
           /\ thread[l].tag = t /\ thread[l].slot = q /\ Outstanding(l, q, t)
           /\ t \notin done /\ done' = done \cup {t}
           /\ host' = [host EXCEPT ![l][q].output =
                IF host[l][q].input = thread[l].seen THEN thread[l].seen ELSE None]
           /\ thread' = [thread EXCEPT ![l] = Idle]
           /\ \A u : Launched(u)' => Launched(u)
<1>1. Typed /\ StreamInv /\ TaskInv /\ FreshInv
  BY DEF DecodeInv
<1>2. /\ thread[l].at = "forward"
      /\ host' = [host EXCEPT ![l][thread[l].slot].output =
           IF host[l][thread[l].slot].input = thread[l].seen THEN thread[l].seen ELSE None]
      /\ done' = done \cup {thread[l].tag} /\ thread' = [thread EXCEPT ![l] = Idle]
      /\ UNCHANGED <<py, pending, stream, task, queue, output, result, exit>>
  BY DEF FinishTask
<1>3. PICK q \in Qlens, t \in Tag :
        thread[l].tag = t /\ thread[l].slot = q /\ t \notin done /\ Outstanding(l, q, t)
  BY <1>1, <1>2 DEF TaskInv
<1>4. SameOutstanding /\ \A i, u : EnqueueAt(i, u)' <=> EnqueueAt(i, u)
  BY <1>1, <1>2, StreamKept
<1>5. ASSUME NEW u, Launched(u)'
      PROVE  Launched(u)
  <2>1. CASE u \in done'
    BY <1>2, <1>3, <2>1 DEF Launched
  <2>2. CASE \E m \in Layers, r \in Qlens : Outstanding(m, r, u)'
    BY <1>4, <2>2 DEF SameOutstanding, Launched
  <2>3. CASE \E i \in 1 .. Len(stream') : EnqueueAt(i, u)'
    BY <1>2, <1>4, <2>3 DEF Launched
  <2> QED BY <1>5, <2>1, <2>2, <2>3 DEF Launched
<1> QED BY <1>2, <1>3, <1>5

LEMMA FinishTaskInv ==
  ASSUME DecodeInv, NEW l \in Layers, FinishTask(l)
  PROVE  DecodeInv'
<1>1. Typed /\ StreamInv /\ TaskInv /\ FreshInv
  BY DEF DecodeInv
<1>2. PICK q \in Qlens, t \in Tag :
           /\ thread[l].tag = t /\ thread[l].slot = q /\ Outstanding(l, q, t)
           /\ t \notin done /\ done' = done \cup {t}
           /\ host' = [host EXCEPT ![l][q].output =
                IF host[l][q].input = thread[l].seen THEN thread[l].seen ELSE None]
           /\ thread' = [thread EXCEPT ![l] = Idle]
           /\ \A u : Launched(u)' => Launched(u)
  BY FinishTaskDone
<1>3. /\ thread[l].at = "forward"
      /\ UNCHANGED <<py, pending, stream, task, queue, output, result, exit>>
  BY DEF FinishTask
<1>4. /\ StreamInv' /\ SameOutstanding /\ (\A i, u : EnqueueAt(i, u)' <=> EnqueueAt(i, u))
      /\ \A s, m : Past(s, m)' <=> Past(s, m)
  BY <1>1, <1>3, StreamKept
<1>5. /\ thread \in [Layers -> ThreadState] /\ host \in [Layers -> [Slots -> Buffers]]
      /\ done \in SUBSET Tag
  BY <1>1 DEF Typed
<1>6. Idle \in ThreadState /\ Idle.at = "idle"
  BY DEF Idle, ThreadState, Data, Slots
<1>7. /\ thread' \in [Layers -> ThreadState] /\ thread'[l].at = "idle"
      /\ \A m \in Layers : m # l => thread'[m] = thread[m]
  BY <1>2, <1>5, <1>6
<1>8. \A m \in Layers : queue[m] = << >> /\ (m # l => thread[m].at # "forward")
  <2>1. queue[l] = << >>
    BY <1>1, <1>3 DEF TaskInv
  <2>2. ASSUME NEW m \in Layers, m # l
        PROVE  queue[m] = << >> /\ thread[m].at # "forward"
    BY <1>1, <1>2, <2>2, HasOutstanding
  <2> QED BY <2>1, <2>2
<1>9. \A m \in Layers : queue'[m] = << >> /\ thread'[m].at # "forward"
  BY <1>3, <1>7, <1>8
<1>10. TaskInv'
  <2>1. \A m \in Layers, r \in Qlens, u \in Tag : Outstanding(m, r, u)' => task'[m][r] = u
    BY <1>1, <1>3, <1>4 DEF SameOutstanding, TaskInv
  <2> QED BY <1>9, <2>1 DEF TaskInv
<1>11. FreshInv'
  <2>1. \A u \in Tag : Launched(u)' => Past(u[1], u[2])'
    BY <1>1, <1>2, <1>4 DEF FreshInv
  <2>2. ASSUME NEW i \in 1 .. Len(stream), NEW u \in Tag, EnqueueAt(i, u)
        PROVE  /\ u \notin done'
               /\ \A m \in Layers, r \in Qlens : ~ Outstanding(m, r, u)
               /\ \A j \in 1 .. Len(stream) : EnqueueAt(j, u) => i = j
    BY <1>1, <1>2, <2>2 DEF FreshInv
  <2>3. stream' = stream
    BY <1>3
  <2> QED BY <1>4, <2>1, <2>2, <2>3 DEF FreshInv, SameOutstanding
<1>12. host' \in [Layers -> [Slots -> Buffers]]
  <2>1. (IF host[l][q].input = thread[l].seen THEN thread[l].seen ELSE None) \in Data
    BY <1>5 DEF ThreadState, Data
  <2>2. q \in Slots
    BY DEF Slots
  <2> QED BY <1>2, <1>5, <2>1, <2>2, BufferWritten
<1>13. done' \in SUBSET Tag /\ \A m \in Layers : thread'[m].at = "forward" => thread'[m].tag \in Tag
  BY <1>2, <1>5, <1>9
<1>14. Typed'
  BY <1>1, <1>3, <1>7, <1>12, <1>13 DEF Typed
<1> QED BY <1>4, <1>10, <1>11, <1>14 DEF DecodeInv

LEMMA ExitThreadInv ==
  ASSUME DecodeInv, NEW l \in Layers, ExitThread(l)
  PROVE  DecodeInv'
<1>1. Typed /\ StreamInv /\ TaskInv /\ FreshInv
  BY DEF DecodeInv
<1>2. /\ thread[l].at = "idle" /\ thread' = [thread EXCEPT ![l].at = "exited"]
      /\ UNCHANGED <<py, pending, stream, host, task, queue, done, output, result, exit>>
  BY DEF ExitThread
<1>3. thread \in [Layers -> ThreadState]
  BY <1>1 DEF Typed
<1>4. /\ thread' \in [Layers -> ThreadState] /\ thread'[l].at = "exited"
      /\ \A m \in Layers : m # l => thread'[m] = thread[m]
  BY <1>2, <1>3 DEF ThreadState
<1>5. StreamInv' /\ SameOutstanding
  BY <1>1, <1>2, StreamKept
<1>6. FreshInv'
  BY <1>1, <1>2, QuietFresh DEF Past
<1>7. \A m \in Layers : thread'[m].at = "forward" => (thread[m].at = "forward" /\ thread'[m] = thread[m])
  BY <1>2, <1>4
<1>8. TaskInv'
  <2>1. ASSUME NEW m \in Layers, queue'[m] # << >>
        PROVE  /\ thread'[m].at # "forward"
               /\ \E q \in Qlens, t \in Tag :
                    queue'[m] = <<[tag |-> t, slot |-> q]>> /\ t \notin done' /\ Outstanding(m, q, t)'
    BY <1>1, <1>2, <1>5, <1>7, <2>1 DEF TaskInv, SameOutstanding
  <2>2. ASSUME NEW m \in Layers, thread'[m].at = "forward"
        PROVE  \E q \in Qlens, t \in Tag :
                 thread'[m].tag = t /\ thread'[m].slot = q /\ t \notin done' /\ Outstanding(m, q, t)'
    BY <1>1, <1>2, <1>5, <1>7, <2>2 DEF TaskInv, SameOutstanding
  <2>3. \A m \in Layers, r \in Qlens, u \in Tag : Outstanding(m, r, u)' => task'[m][r] = u
    BY <1>1, <1>2, <1>5 DEF TaskInv, SameOutstanding
  <2> QED BY <2>1, <2>2, <2>3 DEF TaskInv
<1>9. \A m \in Layers : thread'[m].at = "forward" => thread'[m].tag \in Tag
  BY <1>1, <1>7 DEF Typed
<1>10. Typed'
  BY <1>1, <1>2, <1>4, <1>9 DEF Typed
<1> QED BY <1>5, <1>6, <1>8, <1>10 DEF DecodeInv

-----------------------------------------------------------------------------
(* The invariant, and what follows for any number of hidden layers.         *)

LEMMA DecodeInit ==
  ASSUME Init
  PROVE  DecodeInv
<1>1. 0 \in Layers /\ SyncSlot \in Slots /\ None \in Data
  BY DecodeAssumption DEF Layers, Slots, Data
<1>2. /\ py.at = "step" /\ py.step = 0 /\ pending = {} /\ stream = << >> /\ done = {}
      /\ queue = [l \in Layers |-> << >>] /\ thread = [l \in Layers |-> Idle]
  BY DEF Init
<1>3. Len(stream) = 0 /\ \A l, q, t : ~ Outstanding(l, q, t)
  BY <1>2 DEF Outstanding
<1>4. \A l \in Layers : queue[l] = << >> /\ thread[l].at = "idle"
  BY <1>2 DEF Idle
<1>5. TaskInv
  BY <1>3, <1>4 DEF TaskInv
<1>6. \A t : ~ Launched(t)
  BY <1>2, <1>3 DEF Launched
<1>7. FreshInv
  BY <1>3, <1>6 DEF FreshInv
<1>8. StreamInv
  BY <1>2, <1>3 DEF StreamInv, Chain
<1>9. py \in PyState
  BY <1>1, DecodeAssumption DEF Init, PyState
<1>10. host \in [Layers -> [Slots -> Buffers]]
  BY <1>1 DEF Init, Buffers
<1>11. task \in [Layers -> [Qlens -> Data]] /\ output \in [Layers -> [Parts -> Data]]
  BY <1>1 DEF Init, Parts
<1>12. queue \in [Layers -> Seq(Entry)] /\ stream \in Seq(Ops)
  BY <1>2
<1>13. Idle \in ThreadState
  BY <1>1 DEF Idle, ThreadState
<1>14. thread \in [Layers -> ThreadState]
  BY <1>2, <1>13
<1>15. result \in [Steps -> [Layers -> SUBSET Data]] /\ exit \in [Layers -> BOOLEAN]
  BY DEF Init
<1>16. Typed
  BY <1>2, <1>4, <1>9, <1>10, <1>11, <1>12, <1>14, <1>15 DEF Typed
<1> QED BY <1>5, <1>7, <1>8, <1>16 DEF DecodeInv

LEMMA DecodeStutter ==
  ASSUME DecodeInv, UNCHANGED vars
  PROVE  DecodeInv'
<1>1. Typed /\ StreamInv /\ TaskInv /\ FreshInv
  BY DEF DecodeInv
<1>2. UNCHANGED <<py, pending, stream, host, task, queue, thread, done, output, result, exit>>
  BY DEF vars
<1>3. StreamInv' /\ SameOutstanding
  BY <1>1, <1>2, StreamKept
<1>4. FreshInv'
  BY <1>1, <1>2, QuietFresh DEF Past
<1>5. TaskInv'
  BY <1>1, <1>2, <1>3, SameTasks
<1>6. Typed'
  BY <1>1, <1>2 DEF Typed
<1> QED BY <1>3, <1>4, <1>5, <1>6 DEF DecodeInv

LEMMA DecodeStep ==
  ASSUME DecodeInv, [Next]_vars
  PROVE  DecodeInv'
<1>1. CASE \E q \in Qlens, sync \in SyncSteps : StartStep(q, sync)
  BY <1>1, StartStepInv
<1>2. CASE PyStep
  BY <1>2, LayerCallInv, SyncCallInv, SyncForwardInv, SyncReturnInv DEF PyStep
<1>3. CASE StreamStep
  BY <1>3, StreamCopyInInv, StreamEnqueueInv, StreamWaitInv, StreamCopyOutInv, StreamMergeInv
  DEF StreamStep
<1>4. CASE \E l \in Layers : Destroy(l) \/ ThreadStep(l)
  BY <1>4, DestroyInv, TakeTaskInv, FinishTaskInv, ExitThreadInv DEF ThreadStep
<1>5. CASE UNCHANGED vars
  BY <1>5, DecodeStutter
<1> QED BY <1>1, <1>2, <1>3, <1>4, <1>5 DEF Next

\* The invariant holds: the stream is in order, at most one task is outstanding
\* and every task has a tag of its own.
THEOREM DecodeInvariant == Spec => []DecodeInv
BY DecodeInit, DecodeStep, PTL DEF Spec

\* TypeOK of MoeDecode: the types, and that no MOE ever has more than one task
\* in its decode_tasks_.
THEOREM DecodeTypeCorrect == Spec => []TypeOK
<1>1. DecodeInv => TypeOK
  <2> SUFFICES ASSUME DecodeInv
               PROVE  TypeOK
    OBVIOUS
  <2>1. Typed /\ TaskInv
    BY DEF DecodeInv
  <2>2. /\ py.at \in {"step", "layer", "sync", "forward"}
        /\ py.step \in 0 .. MaxSteps /\ py.layer \in Layers /\ pending \subseteq Call
    BY <2>1, PyTypes
  <2>3. /\ host \in [Layers -> [Slots -> Buffers]]
        /\ task \in [Layers -> [Qlens -> Data]]
        /\ done \subseteq Tag /\ exit \in [Layers -> BOOLEAN]
        /\ result \in [Steps -> [Layers -> SUBSET Data]]
        /\ thread \in [Layers -> ThreadState] /\ queue \in [Layers -> Seq(Entry)]
    BY <2>1 DEF Typed
  <2>4. \A l \in Layers : Len(queue[l]) <= 1
    <3> SUFFICES ASSUME NEW l \in Layers
                 PROVE  Len(queue[l]) <= 1
      OBVIOUS
    <3>1. CASE queue[l] = << >>
      BY <3>1
    <3>2. ASSUME NEW e, queue[l] = <<e>>
          PROVE  Len(queue[l]) <= 1
      BY <3>2
    <3> QED BY <2>1, <3>1, <3>2 DEF TaskInv
  <2>5. \A l \in Layers : thread[l].at \in {"idle", "forward", "exited"}
    BY <2>3 DEF ThreadState
  <2>6. \A s \in Steps, l \in Layers : result[s][l] \subseteq Tag \cup {None}
    BY <2>3 DEF Data
  <2> QED BY <2>2, <2>3, <2>4, <2>5, <2>6 DEF TypeOK, Call, Buffers, Data
<1> QED BY <1>1, DecodeInvariant, PTL

\* BackendExclusive: at most one thread is in forward, of the decode threads and
\* the Python thread, with any setting of the deferred experts, and even if the
\* last LK layer defers experts to the next step.
THEOREM DecodeExclusive == Spec => []BackendExclusive
<1>1. DecodeInv => BackendExclusive
  <2> SUFFICES ASSUME DecodeInv
               PROVE  BackendExclusive
    OBVIOUS
  <2>1. Typed /\ TaskInv /\ StreamInv
    BY DEF DecodeInv
  <2>2. ASSUME NEW l \in Layers, NEW m \in Layers,
               thread[l].at = "forward", thread[m].at = "forward"
        PROVE  l = m
    <3>1. PICK q \in Qlens, t \in Tag : Outstanding(l, q, t)
      BY <2>1, <2>2 DEF TaskInv
    <3> QED BY <2>1, <2>2, <3>1, HasOutstanding
  <2>3. ASSUME py.at = "forward", NEW l \in Layers
        PROVE  thread[l].at # "forward"
    <3>1. stream = << >> /\ pending = {}
      BY <2>1, <2>3 DEF StreamInv
    <3>2. \A q, t : ~ Outstanding(l, q, t)
      BY <3>1 DEF Outstanding
    <3> QED BY <2>1, <3>2 DEF TaskInv
  <2> QED BY <2>2, <2>3 DEF BackendExclusive
<1> QED BY <1>1, DecodeInvariant, PTL

-----------------------------------------------------------------------------
(* The data, for a model whose last layer has an LK MOE: as that layer       *)
(* defers no experts, no call stays pending from one step to the next.       *)

\* The deferred call of the layer before.
Before(s, l) == <<s, l - 1, "deferred">>

\* A pending call is of the layer before, in the same step, which is not a
\* synchronous one.
PendingInv ==
  /\ \A d \in pending :
       py.at = "layer" /\ ~ py.sync /\ d.step = py.step /\ d.layer = py.layer - 1
  /\ py.prev = {}
  /\ (py.at # "step" /\ pending = {}) => ~ Launched(Before(py.step, py.layer))

AtHead(o) == stream # << >> /\ stream[1] = o

\* What the buffers hold when the operation at the head is to use them, and
\* while a task is outstanding.
BufferInv ==
  /\ \A l \in Layers, q \in Slots, t \in Tag :
       /\ AtHead(Enqueue(l, q, t)) => host[l][q].input = t
       /\ AtHead(CopyOut(l, q, t)) =>
            (host[l][q].output = t /\ (t[3] = "deferred" => t \in done))
  /\ \A l \in Layers, s \in Steps, prev \in SUBSET Layers :
       AtHead(Merge(l, s, prev)) => output[l]["now"] = <<s, l, "now">>
  /\ \A l \in Layers, q \in Qlens, t \in Tag : Outstanding(l, q, t) =>
       /\ host[l][q].input = t
       /\ thread[l].at = "forward" => thread[l].seen = t
       /\ t \in done => host[l][q].output = t
  /\ (py.at = "forward" \/ (py.at = "sync" /\ stream = << >>)) =>
       host[py.layer][SyncSlot].input = <<py.step, py.layer, "now">>

\* The output of the call before the merge at place k is on the GPU already, or
\* is copied there five operations before.
Brought(k, s, l) ==
  IF k <= 5 THEN output[l - 1]["deferred"] = Before(s, l) /\ Before(s, l) \in done
  ELSE \E q \in Slots : stream[k - 5] = CopyOut(l - 1, q, Before(s, l))

\* A merge takes the deferred call of the layer before, or there is none.
MergeInv ==
  \A k \in 1 .. Len(stream), l \in Layers, s \in Steps, prev \in SUBSET Layers :
    stream[k] = Merge(l, s, prev) =>
      /\ Past(s, l)
      /\ \/ prev = {} /\ ~ Launched(Before(s, l))
         \/ prev = {l - 1} /\ Brought(k, s, l)

ResultInv ==
  \A s \in Steps, l \in Layers : result[s][l] # {} =>
    /\ Past(s, l)
    /\ (Before(s, l) \in done \/ ~ Launched(Before(s, l)))
    /\ result[s][l] = {<<s, l, "now">>} \cup (done \cap {Before(s, l)})

DataInv == PendingInv /\ BufferInv /\ MergeInv /\ ResultInv

-----------------------------------------------------------------------------
(* Facts about the operations and the tags.                                 *)

LEMMA OpIs ==
  ASSUME NEW a, NEW l, NEW q, NEW t, NEW b, NEW m, NEW r, NEW u,
         Op(a, l, q, t) = Op(b, m, r, u)
  PROVE  a = b /\ l = m /\ q = r /\ t = u
<1>1. /\ Op(a, l, q, t).op = a /\ Op(a, l, q, t).l = l
      /\ Op(a, l, q, t).slot = q /\ Op(a, l, q, t).tag = t
      /\ Op(b, m, r, u).op = b /\ Op(b, m, r, u).l = m
      /\ Op(b, m, r, u).slot = r /\ Op(b, m, r, u).tag = u
  BY DEF Op
<1> QED BY <1>1

LEMMA MergeIs ==
  ASSUME NEW l, NEW s, NEW p, NEW m, NEW r, NEW u, Merge(l, s, p) = Merge(m, r, u)
  PROVE  l = m /\ s = r /\ p = u
<1>1. /\ Merge(l, s, p).l = l /\ Merge(l, s, p).step = s /\ Merge(l, s, p).prev = p
      /\ Merge(m, r, u).l = m /\ Merge(m, r, u).step = r /\ Merge(m, r, u).prev = u
  BY DEF Merge
<1> QED BY <1>1

\* The kinds of operations, and the fields of a merge.
LEMMA OpKinds ==
  ASSUME NEW l, NEW q, NEW t
  PROVE  /\ CopyIn(l, q, t).op = "d2h" /\ Enqueue(l, q, t).op = "enqueue"
         /\ Wait(l, q, t).op = "wait" /\ CopyOut(l, q, t).op = "h2d"
         /\ Merge(l, q, t).op = "merge" /\ Merge(l, q, t).l = l /\ Merge(l, q, t).step = q
         /\ CopyOut(l, q, t).l = l /\ CopyOut(l, q, t).slot = q /\ CopyOut(l, q, t).tag = t
         /\ CopyIn(l, q, t).l = l /\ CopyIn(l, q, t).slot = q /\ CopyIn(l, q, t).tag = t
         /\ Enqueue(l, q, t).l = l /\ Enqueue(l, q, t).slot = q /\ Enqueue(l, q, t).tag = t
         /\ Wait(l, q, t).l = l /\ Wait(l, q, t).slot = q /\ Wait(l, q, t).tag = t
BY DEF CopyIn, Enqueue, Wait, CopyOut, Merge, Op

\* Only the tags of calls are launched.
LEMMA LaunchedTag ==
  ASSUME Typed, NEW t, Launched(t)
  PROVE  t \in Tag
<1>1. CASE t \in done
  BY <1>1 DEF Typed
<1>2. ASSUME NEW l \in Layers, NEW q \in Qlens, Outstanding(l, q, t)
      PROVE  t \in Tag
  <2>1. CASE stream # << >> /\ stream[1] = Wait(l, q, t)
    <3>1. stream[1] \in Ops
      BY <2>1, PyTypes, Taken
    <3>2. stream[1].op = "wait" /\ stream[1].tag = t
      BY <2>1, OpKinds
    <3> QED BY <3>1, <3>2, OpFields
  <2>2. CASE \E d \in pending : t = Deferred(d)
    BY <2>2, PyTypes, DeferredTag
  <2> QED BY <1>2, <2>1, <2>2 DEF Outstanding
<1>3. ASSUME NEW i \in 1 .. Len(stream), EnqueueAt(i, t)
      PROVE  t \in Tag
  <2>1. stream[i] \in Ops
    BY PyTypes
  <2> QED BY <1>3, <2>1, OpFields DEF EnqueueAt
<1> QED BY <1>1, <1>2, <1>3 DEF Launched

\* What happened stays so, behind the Python thread.
BehindKept ==
  \A s \in Steps, l \in Layers :
    /\ Past(s, l) => Past(s, l)'
    /\ Past(s, l) => (Launched(Before(s, l))' => Launched(Before(s, l)))

LEMMA ResultKept ==
  ASSUME ResultInv, BehindKept, UNCHANGED <<result, done>>
  PROVE  ResultInv'
<1> SUFFICES ASSUME NEW s \in Steps, NEW l \in Layers, result'[s][l] # {}
             PROVE  /\ Past(s, l)'
                    /\ (Before(s, l) \in done' \/ ~ Launched(Before(s, l))')
                    /\ result'[s][l] = {<<s, l, "now">>} \cup (done' \cap {Before(s, l)})
  BY DEF ResultInv, Before
<1>1. /\ Past(s, l)
      /\ (Before(s, l) \in done \/ ~ Launched(Before(s, l)))
      /\ result[s][l] = {<<s, l, "now">>} \cup (done \cap {Before(s, l)})
  BY DEF ResultInv
<1> QED BY <1>1 DEF BehindKept

\* A step of a thread, or Python's, that puts nothing on the stream.
LEMMA MergeKept ==
  ASSUME MergeInv, BehindKept, UNCHANGED <<stream, output>>, done \subseteq done'
  PROVE  MergeInv'
<1> SUFFICES ASSUME NEW k \in 1 .. Len(stream), NEW l \in Layers, NEW s \in Steps,
                    NEW prev \in SUBSET Layers, stream[k] = Merge(l, s, prev)
             PROVE  /\ Past(s, l)'
                    /\ \/ prev = {} /\ ~ Launched(Before(s, l))'
                       \/ prev = {l - 1} /\ Brought(k, s, l)'
  BY DEF MergeInv, Before
<1>1. /\ Past(s, l)
      /\ \/ prev = {} /\ ~ Launched(Before(s, l))
         \/ prev = {l - 1} /\ Brought(k, s, l)
  BY DEF MergeInv
<1>2. Brought(k, s, l) => Brought(k, s, l)'
  BY DEF Brought, Before
<1> QED BY <1>1, <1>2 DEF BehindKept

-----------------------------------------------------------------------------
(* The data, when Python puts operations on the stream.                     *)

LEMMA PushedBehind ==
  ASSUME Typed, StreamInv, NEW o, NEW a, NEW z, NEW T, Pushed(o, a, z, T), done' = done,
         py.at # "step", \A t \in T : t[1] = py.step /\ t[2] = py.layer
  PROVE  BehindKept
<1>1. py.step \in Nat /\ py.layer \in Nat /\ Layers \subseteq Nat /\ Steps \subseteq Nat
  BY PyTypes
<1> SUFFICES ASSUME NEW s \in Steps, NEW l \in Layers, Past(s, l)
             PROVE  Past(s, l)' /\ (Launched(Before(s, l))' => Launched(Before(s, l)))
  BY DEF BehindKept
<1>2. Past(s, l)'
  <2>1. PICK t \in Tag : t[1] = s /\ t[2] = l
    <3>1. <<s, l, "now">> \in Tag
      BY DEF Tag
    <3> QED BY <3>1
  <2> QED BY <2>1 DEF Pushed
<1>3. ASSUME Launched(Before(s, l))'
      PROVE  Launched(Before(s, l))
  <2>1. PICK t : t = Before(s, l)
    OBVIOUS
  <2>2. t = <<s, l - 1, "deferred">> /\ t[1] = s /\ t[2] = l - 1
    BY <2>1 DEF Before
  <2>3. Launched(t)'
    BY <1>3, <2>1 DEF Before
  <2>4. t \notin T
    <3> SUFFICES ASSUME t \in T
                 PROVE  FALSE
      OBVIOUS
    <3>1. s = py.step /\ l - 1 = py.layer
      BY <2>2
    <3> QED BY <1>1, <3>1 DEF Past
  <2>5. Launched(t)
    BY <2>3, <2>4, PushedLaunched
  <2> QED BY <2>1, <2>5
<1> QED BY <1>2, <1>3

\* The merges among the operations that are pushed are right.
MergesRight(o) ==
  \A j \in 1 .. Len(o), l \in Layers, s \in Steps, prev \in SUBSET Layers :
    o[j] = Merge(l, s, prev) =>
      /\ Past(s, l)'
      /\ \/ prev = {} /\ ~ Launched(Before(s, l))'
         \/ /\ prev = {l - 1} /\ j > 5
            /\ \E q \in Slots : o[j - 5] = CopyOut(l - 1, q, Before(s, l))

LEMMA PushedMerges ==
  ASSUME Typed, MergeInv, BehindKept, UNCHANGED <<output, done>>,
         NEW o \in Seq(Ops), stream' = stream \o o, MergesRight(o)
  PROVE  MergeInv'
<1>1. /\ Len(stream') = Len(stream) + Len(o) /\ Len(stream) \in Nat /\ Len(o) \in Nat
      /\ \A i \in 1 .. Len(stream) : stream'[i] = stream[i]
      /\ \A i \in 1 .. Len(o) : stream'[Len(stream) + i] = o[i]
      /\ \A i \in 1 .. (Len(stream) + Len(o)) :
           \/ i \in 1 .. Len(stream) /\ stream'[i] = stream[i]
           \/ i - Len(stream) \in 1 .. Len(o) /\ stream'[i] = o[i - Len(stream)]
  BY PyTypes, Joined
<1> SUFFICES ASSUME NEW k \in 1 .. Len(stream'), NEW l \in Layers, NEW s \in Steps,
                    NEW prev \in SUBSET Layers, stream'[k] = Merge(l, s, prev)
             PROVE  /\ Past(s, l)'
                    /\ \/ prev = {} /\ ~ Launched(Before(s, l))'
                       \/ prev = {l - 1} /\ Brought(k, s, l)'
  BY DEF MergeInv, Before
<1>2. CASE k \in 1 .. Len(stream) /\ stream'[k] = stream[k]
  <2>1. /\ Past(s, l)
        /\ \/ prev = {} /\ ~ Launched(Before(s, l))
           \/ prev = {l - 1} /\ Brought(k, s, l)
    BY <1>2 DEF MergeInv
  <2>2. Brought(k, s, l) => Brought(k, s, l)'
    <3>1. CASE k <= 5
      BY <3>1 DEF Brought, Before
    <3>2. CASE k > 5
      <4>1. k - 5 \in 1 .. Len(stream) /\ ~ k <= 5
        BY <1>1, <1>2, <3>2
      <4>2. stream'[k - 5] = stream[k - 5]
        BY <1>1, <4>1
      <4> QED BY <4>1, <4>2 DEF Brought, Before
    <3> QED BY <1>1, <3>1, <3>2
  <2> QED BY <2>1, <2>2 DEF BehindKept
<1>3. CASE k - Len(stream) \in 1 .. Len(o) /\ stream'[k] = o[k - Len(stream)]
  <2>1. PICK j \in 1 .. Len(o) : j = k - Len(stream)
    BY <1>3
  <2>2. /\ Past(s, l)'
        /\ \/ prev = {} /\ ~ Launched(Before(s, l))'
           \/ /\ prev = {l - 1} /\ j > 5
              /\ \E q \in Slots : o[j - 5] = CopyOut(l - 1, q, Before(s, l))
    <3>1. o[j] = Merge(l, s, prev)
      BY <1>3, <2>1
    <3> QED BY <3>1, Zenon DEF MergesRight
  <2>3. ASSUME j > 5, NEW q \in Slots, o[j - 5] = CopyOut(l - 1, q, Before(s, l))
        PROVE  Brought(k, s, l)'
    <3>1. j - 5 \in 1 .. Len(o) /\ Len(stream) + (j - 5) = k - 5 /\ ~ k <= 5
      BY <1>1, <2>1, <2>3
    <3>2. stream'[k - 5] = CopyOut(l - 1, q, Before(s, l))
      BY <1>1, <2>3, <3>1
    <3> QED BY <3>1, <3>2 DEF Brought, Before
  <2> QED BY <2>2, <2>3
<1> QED BY <1>1, <1>2, <1>3

LEMMA PushedBuffers ==
  ASSUME Typed, StreamInv, BufferInv, NEW o, NEW a, NEW z, NEW T, Pushed(o, a, z, T),
         UNCHANGED <<host, output, thread, done>>,
         stream = << >> => a.op \in {"d2h", "wait"}, py'.at # "forward"
  PROVE  BufferInv'
<1>1. /\ stream' # << >> /\ (stream = << >> => stream'[1] = a)
      /\ (stream # << >> => stream'[1] = stream[1])
  BY PushedStream
<1>2. ASSUME NEW e, e.op \in {"enqueue", "h2d", "merge"}, AtHead(e)'
      PROVE  AtHead(e)
  BY <1>1, <1>2 DEF AtHead
<1>3. SameOutstanding
  BY PushedOutstanding
<1>4. ASSUME NEW l \in Layers, NEW q \in Slots, NEW t \in Tag
      PROVE  /\ AtHead(Enqueue(l, q, t))' => host'[l][q].input = t
             /\ AtHead(CopyOut(l, q, t))' =>
                  (host'[l][q].output = t /\ (t[3] = "deferred" => t \in done'))
  <2>1. Enqueue(l, q, t).op = "enqueue" /\ CopyOut(l, q, t).op = "h2d"
    BY OpKinds
  <2>2. PICK e, c : e = Enqueue(l, q, t) /\ c = CopyOut(l, q, t)
    OBVIOUS
  <2>3. (AtHead(e)' => AtHead(e)) /\ (AtHead(c)' => AtHead(c))
    BY <1>2, <2>1, <2>2
  <2>4. AtHead(Enqueue(l, q, t))' => AtHead(Enqueue(l, q, t))
    BY <2>2, <2>3 DEF Enqueue, Op
  <2>5. AtHead(CopyOut(l, q, t))' => AtHead(CopyOut(l, q, t))
    BY <2>2, <2>3 DEF CopyOut, Op
  <2> QED BY <2>4, <2>5 DEF BufferInv
<1>5. ASSUME NEW l \in Layers, NEW s \in Steps, NEW prev \in SUBSET Layers,
             AtHead(Merge(l, s, prev))'
      PROVE  output'[l]["now"] = <<s, l, "now">>
  <2>1. PICK e : e = Merge(l, s, prev) /\ e.op = "merge"
    BY OpKinds
  <2>2. AtHead(e)
    BY <1>2, <1>5, <2>1 DEF Merge
  <2> QED BY <2>1, <2>2 DEF BufferInv
<1>6. ASSUME NEW l \in Layers, NEW q \in Qlens, NEW t \in Tag, Outstanding(l, q, t)'
      PROVE  /\ host'[l][q].input = t
             /\ thread'[l].at = "forward" => thread'[l].seen = t
             /\ t \in done' => host'[l][q].output = t
  BY <1>3, <1>6 DEF SameOutstanding, BufferInv
<1> QED BY <1>1, <1>4, <1>5, <1>6 DEF BufferInv
\* The only merge of a call, and what is five operations before it.
NoMerges(o) == o \in Seq(Ops) /\ \A i \in 1 .. Len(o) : o[i].op # "merge"

LEMMA NoMergesJoined ==
  ASSUME NEW s, NEW t, NoMerges(s), NoMerges(t)
  PROVE  NoMerges(s \o t)
<1>1. s \in Seq(Ops) /\ t \in Seq(Ops)
  BY DEF NoMerges
<1>2. /\ s \o t \in Seq(Ops) /\ Len(s \o t) = Len(s) + Len(t)
      /\ \A i \in 1 .. (Len(s) + Len(t)) :
           \/ i \in 1 .. Len(s) /\ (s \o t)[i] = s[i]
           \/ i - Len(s) \in 1 .. Len(t) /\ (s \o t)[i] = t[i - Len(s)]
  BY <1>1, Joined
<1> QED BY <1>2 DEF NoMerges

LEMMA TwoNoMerges ==
  ASSUME NEW a \in Ops, NEW b \in Ops, a.op # "merge", b.op # "merge"
  PROVE  NoMerges(<<a, b>>) /\ Len(<<a, b>>) = 2
<1>1. \A i \in 1 .. 2 : i = 1 \/ i = 2
  OBVIOUS
<1> QED BY <1>1 DEF NoMerges

LEMMA DecodeNoMerges ==
  ASSUME NEW l \in Layers, NEW q \in Qlens, NEW t \in Tag
  PROVE  /\ NoMerges(NowaitOps(l, q, t)) /\ NoMerges(WaitOps(l, q, t))
         /\ NoMerges(DecodeOps(l, q, t)) /\ Len(DecodeOps(l, q, t)) = 4
         /\ Len(WaitOps(l, q, t)) = 2 /\ WaitOps(l, q, t)[2] = CopyOut(l, q, t)
<1>1. /\ CopyIn(l, q, t) \in Ops /\ Enqueue(l, q, t) \in Ops
      /\ Wait(l, q, t) \in Ops /\ CopyOut(l, q, t) \in Ops
  BY OpTypes DEF Slots
<1>2. /\ CopyIn(l, q, t).op # "merge" /\ Enqueue(l, q, t).op # "merge"
      /\ Wait(l, q, t).op # "merge" /\ CopyOut(l, q, t).op # "merge"
  BY OpKinds
<1>3. /\ NoMerges(NowaitOps(l, q, t)) /\ NoMerges(WaitOps(l, q, t))
      /\ Len(NowaitOps(l, q, t)) = 2 /\ Len(WaitOps(l, q, t)) = 2
      /\ WaitOps(l, q, t)[2] = CopyOut(l, q, t)
  BY <1>1, <1>2, TwoNoMerges DEF NowaitOps, WaitOps
<1>4. Len(NowaitOps(l, q, t) \o WaitOps(l, q, t)) = 4
  BY <1>3, Joined DEF NoMerges
<1> QED BY <1>3, <1>4, NoMergesJoined DEF DecodeOps

LayersOf(p) == {d.layer : d \in p}

LEMMA LayerMerges ==
  ASSUME NEW s \in Steps, NEW l \in Layers, NEW q \in Qlens, NEW p \in SUBSET Call,
         p = {} \/ \E d \in Call : p = {d}, NEW defers \in BOOLEAN,
         NEW o, o = LayerOps(s, l, q, p, defers), NEW j \in 1 .. Len(o), o[j].op = "merge"
  PROVE  /\ o[j] = Merge(l, s, LayersOf(p))
         /\ \A d \in p : j > 5 /\ o[j - 5] = CopyOut(d.layer, d.qlen, Deferred(d))
<1> DEFINE P == PendingOps(p)
           D == DecodeOps(l, q, <<s, l, "now">>)
           m == Merge(l, s, {d.layer : d \in p})
           R == IF defers THEN NowaitOps(l, q, <<s, l, "deferred">>) ELSE << >>
           X == P \o D
           Y == X \o <<m>>
<1>1. <<s, l, "now">> \in Tag /\ <<s, l, "deferred">> \in Tag
  BY DEF Tag
<1>2. NoMerges(D) /\ Len(D) = 4
  BY <1>1, DecodeNoMerges
<1>3. NoMerges(R)
  <2>1. NoMerges(<< >>)
    BY DEF NoMerges
  <2> QED BY <1>1, <2>1, DecodeNoMerges
<1>4. /\ NoMerges(P)
      /\ \A d \in p : Len(P) = 2 /\ P[2] = CopyOut(d.layer, d.qlen, Deferred(d))
  <2>1. CASE p = {}
    BY <2>1 DEF NoMerges, PendingOps
  <2>2. ASSUME NEW d \in Call, p = {d}
        PROVE  NoMerges(P) /\ Len(P) = 2 /\ P[2] = CopyOut(d.layer, d.qlen, Deferred(d))
    <3>1. (CHOOSE e \in {d} : TRUE) = d /\ {d} # {}
      OBVIOUS
    <3>2. P = WaitOps(d.layer, d.qlen, Deferred(d))
      BY <2>2, <3>1 DEF PendingOps, Deferred
    <3> QED BY <3>2, DeferredTag, DecodeNoMerges
  <2> QED BY <2>1, <2>2
<1>5. {d.layer : d \in p} \in SUBSET Layers
  BY DeferredTag
<1>6. m \in Ops
  BY <1>1, <1>5, OpTypes
<1>7. o = Y \o R
  BY DEF LayerOps
<1> HIDE DEF P, D, R, m
<1>8. NoMerges(X) /\ X \in Seq(Ops) /\ Len(X) = Len(P) + 4 /\ Len(P) \in Nat
      /\ \A i \in 1 .. Len(P) : X[i] = P[i]
  <2>1. P \in Seq(Ops) /\ D \in Seq(Ops)
    BY <1>2, <1>4 DEF NoMerges
  <2>2. NoMerges(P \o D) /\ P \o D \in Seq(Ops)
    BY <1>2, <1>4, NoMergesJoined DEF NoMerges
  <2>3. Len(P \o D) = Len(P) + Len(D) /\ Len(P) \in Nat /\ \A i \in 1 .. Len(P) : (P \o D)[i] = P[i]
    BY <2>1, Joined
  <2> QED BY <1>2, <2>2, <2>3
<1> HIDE DEF X
<1>9. /\ Y \in Seq(Ops) /\ Len(Y) = Len(X) + 1 /\ Y[Len(X) + 1] = m
      /\ \A i \in 1 .. Len(X) : Y[i] = X[i]
  <2>1. <<m>> \in Seq(Ops) /\ Len(<<m>>) = 1 /\ <<m>>[1] = m /\ 1 \in 1 .. 1
    BY <1>6
  <2> QED BY <1>8, <2>1, Joined
<1> HIDE DEF Y
<1>10. /\ \A i \in 1 .. Len(Y) : o[i] = Y[i]
       /\ \/ j \in 1 .. Len(Y) /\ o[j] = Y[j]
          \/ j - Len(Y) \in 1 .. Len(R) /\ o[j] = R[j - Len(Y)]
  <2>1. R \in Seq(Ops)
    BY <1>3 DEF NoMerges
  <2>2. Len(o) = Len(Y) + Len(R)
    <3>1. Len(Y \o R) = Len(Y) + Len(R)
      BY <1>9, <2>1
    <3> QED BY <1>7, <3>1
  <2> QED BY <1>7, <1>9, <2>1, <2>2, Joined
<1>11. j = Len(X) + 1 /\ o[j] = m
  <2>1. CASE j \in 1 .. Len(Y) /\ o[j] = Y[j]
    <3>1. j \notin 1 .. Len(X)
      BY <1>8, <1>9, <2>1 DEF NoMerges
    <3> QED BY <1>8, <1>9, <2>1, <3>1
  <2>2. CASE j - Len(Y) \in 1 .. Len(R) /\ o[j] = R[j - Len(Y)]
    BY <1>3, <2>2 DEF NoMerges
  <2> QED BY <1>10, <2>1, <2>2
<1>12. ASSUME NEW d \in p
       PROVE  j > 5 /\ o[j - 5] = CopyOut(d.layer, d.qlen, Deferred(d))
  <2>1. Len(P) = 2 /\ P[2] = CopyOut(d.layer, d.qlen, Deferred(d)) /\ j = 7
    BY <1>4, <1>8, <1>11, <1>12
  <2>2. 2 \in 1 .. Len(P) /\ 2 \in 1 .. Len(X) /\ 2 \in 1 .. Len(Y) /\ j - 5 = 2 /\ j > 5
    BY <1>8, <1>9, <2>1
  <2> QED BY <1>8, <1>9, <1>10, <2>1, <2>2
<1> QED BY <1>11, <1>12 DEF m, LayersOf

LEMMA LayerCallData ==
  ASSUME num_hidden_layers = NumLayers, DecodeInv, DataInv, LayerCall
  PROVE  DataInv'
<1>1. Typed /\ StreamInv /\ TaskInv /\ FreshInv /\ PendingInv /\ BufferInv /\ MergeInv /\ ResultInv
  BY DEF DecodeInv, DataInv
<1>2. PICK s, l, q, defers, o, a, z, T :
           /\ s \in Steps /\ l \in Layers /\ q \in Qlens /\ defers \in BOOLEAN
           /\ s = py.step /\ l = py.layer /\ q = py.qlen
           /\ defers = Defers(py.layer, py.qlen, py.sync)
           /\ o = LayerOps(s, l, q, pending, defers)
           /\ Pushed(o, a, z, T) /\ T = Own(s, l, defers)
           /\ CallLast(s, l, q, pending, defers, z)
           /\ pending' = IF defers THEN {[step |-> s, layer |-> l, qlen |-> q]} ELSE {}
  BY <1>1, LayerCallPushes
<1> s \in Steps /\ l \in Layers /\ q \in Qlens /\ defers \in BOOLEAN
  BY <1>2
<1>3. /\ py.at = "layer" /\ ~ py.sync /\ py' = NextLayer
      /\ UNCHANGED <<host, task, queue, thread, done, output, result, exit>>
  BY DEF LayerCall
<1>4. \A t \in T : t[1] = py.step /\ t[2] = py.layer
  BY <1>2 DEF Own
<1>5. BehindKept
  BY <1>1, <1>2, <1>3, <1>4, PushedBehind
<1>6. ResultInv'
  BY <1>1, <1>3, <1>5, ResultKept
<1>7. /\ py'.step = py.step /\ py'.prev = {} /\ py'.sync = py.sync
      /\ \/ py'.at = "step" /\ py'.layer = py.layer /\ py.layer + 1 = NumLayers
         \/ py'.at = "layer" /\ py'.layer = py.layer + 1
  BY <1>1, <1>3, NextLayerIs
<1>8. /\ pending \in SUBSET Call /\ (pending = {} \/ \E d \in Call : pending = {d})
      /\ Layers \subseteq Nat /\ Steps \subseteq Nat /\ py.layer \in Nat
  BY <1>1, PyTypes
<1>9. BufferInv'
  <2>1. stream = << >> => a.op \in {"d2h", "wait"}
    <3>1. ASSUME NEW d \in pending
          PROVE  a.op = "wait"
      <4>1. a = WaitFor(d)
        BY <1>2 DEF Pushed
      <4> QED BY <4>1, OpKinds DEF WaitFor
    <3>2. CASE pending = {}
      <4>1. PICK b, y : Piece(o, b, y) /\ CallFirst(s, l, q, pending, b)
        BY <1>2, <1>8, LayerPiece
      <4>2. a = b
        BY <1>2, <4>1 DEF Pushed, Piece
      <4>3. a.op = "d2h"
        BY <3>2, <4>1, <4>2, OpKinds DEF CallFirst
      <4> QED BY <4>3
    <3> QED BY <3>1, <3>2
  <2>2. UNCHANGED <<host, output, thread, done>> /\ py'.at # "forward"
    BY <1>3, <1>7
  <2> QED BY <1>1, <1>2, <2>1, <2>2, PushedBuffers
<1>10. defers => l # NumLayers - 1
  <2>1. MaxDeferred(NumLayers - 1) = 0
    BY DEF MaxDeferred
  <2>2. defers => MaxDeferred(l) > 0
    BY <1>2 DEF Defers
  <2> QED BY <2>1, <2>2
<1>11. Past(s, l)' /\ ~ Past(py.step, py.layer)
  BY <1>1, <1>2, <1>3, ReturnPast
<1>12. PendingInv'
  <2>1. CASE defers
    <3>1. pending' = {[step |-> s, layer |-> l, qlen |-> q]}
      BY <1>2, <2>1
    <3>2. \A d \in pending' : d.step = s /\ d.layer = l
      BY <3>1
    <3>3. py'.at = "layer" /\ py'.layer = l + 1 /\ l = py'.layer - 1
      BY <1>2, <1>7, <1>8, <1>10, <2>1
    <3>4. pending' # {}
      BY <3>1
    <3> QED BY <1>2, <1>3, <1>7, <3>2, <3>3, <3>4 DEF PendingInv
  <2>2. CASE ~ defers
    <3>1. pending' = {}
      BY <1>2, <2>2
    <3>2. ASSUME py'.at # "step"
          PROVE  ~ Launched(Before(py.step, py.layer))'
      <4>1. PICK t : t = <<s, l, "deferred">>
        OBVIOUS
      <4>2. t \in Tag /\ t \notin T /\ t[1] = s /\ t[2] = l
        BY <1>2, <2>2, <4>1 DEF Own, Tag
      <4>3. ~ Launched(t)
        BY <1>1, <1>2, <1>11, <4>1, <4>2 DEF FreshInv
      <4>4. ~ Launched(t)'
        BY <1>1, <1>2, <1>3, <4>2, <4>3, PushedLaunched
      <4>5. py'.step = s /\ py'.layer - 1 = l
        BY <1>2, <1>7, <1>8, <3>2
      <4>6. Before(py.step, py.layer)' = t
        BY <4>1, <4>5 DEF Before
      <4> QED BY <4>4, <4>6 DEF Launched, Outstanding, EnqueueAt, Before
    <3> QED BY <1>7, <3>1, <3>2 DEF PendingInv
  <2> QED BY <2>1, <2>2
<1>13. MergesRight(o)
  <2> SUFFICES ASSUME NEW j \in 1 .. Len(o), NEW m \in Layers, NEW r \in Steps,
                      NEW prev \in SUBSET Layers, o[j] = Merge(m, r, prev)
               PROVE  /\ Past(r, m)'
                      /\ \/ prev = {} /\ ~ Launched(Before(r, m))'
                         \/ /\ prev = {m - 1} /\ j > 5
                            /\ \E x \in Slots : o[j - 5] = CopyOut(m - 1, x, Before(r, m))
    BY DEF MergesRight, Before
  <2>1. o[j].op = "merge"
    BY OpKinds
  <2>2. PICK p : p = pending
    OBVIOUS
  <2>3. /\ o[j] = Merge(l, s, LayersOf(p))
        /\ \A d \in p : j > 5 /\ o[j - 5] = CopyOut(d.layer, d.qlen, Deferred(d))
    <3>1. /\ o = LayerOps(s, l, q, p, defers) /\ p \in SUBSET Call
          /\ (p = {} \/ \E d \in Call : p = {d})
      BY <1>2, <1>8, <2>2
    <3> QED BY <2>1, <3>1, LayerMerges
  <2>4. m = l /\ r = s /\ prev = LayersOf(p)
    <3>1. Merge(m, r, prev) = Merge(l, s, LayersOf(p))
      BY <2>3
    <3> QED BY <3>1, MergeIs
  <2>5. CASE pending = {}
    <3>1. prev = {}
      BY <2>2, <2>4, <2>5 DEF LayersOf
    <3>2. PICK t : t = Before(s, l)
      OBVIOUS
    <3>3. ~ Launched(t)
      BY <1>1, <1>2, <1>3, <2>5, <3>2 DEF PendingInv
    <3>4. t \notin T
      BY <1>2, <1>8, <3>2 DEF Own, Before
    <3>5. ~ Launched(t)'
      BY <1>1, <1>2, <1>3, <3>3, <3>4, PushedLaunched
    <3> QED BY <1>11, <2>4, <3>1, <3>2, <3>5 DEF Before
  <2>6. ASSUME NEW d \in Call, pending = {d}
        PROVE  /\ prev = {m - 1} /\ j > 5
               /\ \E x \in Slots : o[j - 5] = CopyOut(m - 1, x, Before(r, m))
    <3>1. d.step = s /\ d.layer = l - 1
      BY <1>1, <1>2, <2>6 DEF PendingInv
    <3>2. prev = {m - 1}
      BY <2>2, <2>4, <2>6, <3>1 DEF LayersOf
    <3>3. Deferred(d) = Before(r, m) /\ d.qlen \in Slots
      BY <2>4, <3>1, DeferredTag DEF Deferred, Before, Slots
    <3>4. j > 5 /\ o[j - 5] = CopyOut(m - 1, d.qlen, Before(r, m))
      BY <2>2, <2>3, <2>4, <2>6, <3>1, <3>3
    <3> QED BY <3>2, <3>3, <3>4
  <2>7. Past(r, m)'
    BY <1>11, <2>4
  <2> QED BY <1>8, <2>5, <2>6, <2>7
<1>14. MergeInv'
  <2>1. o \in Seq(Ops) /\ stream' = stream \o o
    BY <1>2 DEF Pushed, Piece
  <2> QED BY <1>1, <1>3, <1>5, <1>13, <2>1, PushedMerges
<1> QED BY <1>6, <1>9, <1>12, <1>14 DEF DataInv
LEMMA SyncCallData ==
  ASSUME DecodeInv, DataInv, SyncCall
  PROVE  DataInv'
<1>1. Typed /\ StreamInv /\ TaskInv /\ FreshInv /\ PendingInv /\ BufferInv /\ MergeInv /\ ResultInv
  BY DEF DecodeInv, DataInv
<1>2. /\ py.at = "layer" /\ py.sync /\ pending' = {}
      /\ py' = [py EXCEPT !.at = "sync", !.prev = {d.layer : d \in pending}]
      /\ stream' = stream \o PendingOps(pending)
                   \o <<CopyIn(py.layer, SyncSlot, <<py.step, py.layer, "now">>)>>
      /\ UNCHANGED <<host, task, queue, thread, done, output, result, exit>>
  BY DEF SyncCall
<1>3. pending = {}
  BY <1>1, <1>2 DEF PendingInv
<1>4. PICK s, l, o, a, z, T :
           /\ s \in Steps /\ l \in Layers
           /\ s = py.step /\ l = py.layer /\ Pushed(o, a, z, T) /\ T = {}
           /\ z = CopyIn(l, SyncSlot, <<s, l, "now">>)
  BY <1>1, SyncCallPushes
<1> s \in Steps /\ l \in Layers
  BY <1>4
<1>5. PICK c : c = CopyIn(l, SyncSlot, <<s, l, "now">>) /\ c.op = "d2h"
  BY OpKinds
<1>6. stream \in Seq(Ops) /\ c \in Ops
  BY <1>1, <1>5, PyTypes, OpTypes DEF Tag, Slots
<1>7. stream' = stream \o <<c>> /\ <<c>> \in Seq(Ops) /\ Len(<<c>>) = 1 /\ <<c>>[1] = c
  <2>1. PendingOps(pending) = << >>
    BY <1>3 DEF PendingOps
  <2>2. stream \o << >> = stream
    BY <1>6
  <2> QED BY <1>2, <1>4, <1>5, <1>6, <2>1, <2>2
<1>8. stream = << >> => a.op \in {"d2h", "wait"}
  <2>1. ASSUME stream = << >>
        PROVE  a = c
    <3>1. stream' = <<c>>
      BY <1>6, <1>7, <2>1
    <3>2. stream'[1] = a
      BY <1>1, <1>4, <2>1, PushedStream
    <3> QED BY <1>7, <3>1, <3>2
  <2> QED BY <1>5, <2>1
<1>9. /\ py'.at = "sync" /\ py'.prev = {} /\ py'.step = py.step /\ py'.layer = py.layer
  <2>1. py \in PyState /\ {d.layer : d \in pending} = {}
    BY <1>1, <1>3, PyTypes
  <2> QED BY <1>2, <2>1 DEF PyState
<1>10. BufferInv'
  <2>1. UNCHANGED <<host, output, thread, done>> /\ py'.at # "forward"
    BY <1>2, <1>9
  <2> QED BY <1>1, <1>4, <1>8, <2>1, PushedBuffers
<1>11. BehindKept
  BY <1>1, <1>2, <1>4, PushedBehind
<1>12. ResultInv'
  BY <1>1, <1>2, <1>11, ResultKept
<1>13. MergesRight(<<c>>)
  <2>1. \A j \in 1 .. 1 : j = 1
    OBVIOUS
  <2>2. \A j \in 1 .. Len(<<c>>) : <<c>>[j].op = "d2h"
    BY <1>5, <1>7, <2>1
  <2>3. \A l1, s1, p1 : Merge(l1, s1, p1).op = "merge"
    BY OpKinds
  <2>4. \A j \in 1 .. Len(<<c>>) : \A l1, s1, p1 : <<c>>[j] # Merge(l1, s1, p1)
    BY <2>2, <2>3
  <2> QED BY <2>4 DEF MergesRight
<1>14. MergeInv'
  BY <1>1, <1>2, <1>7, <1>11, <1>13, PushedMerges
<1>15. PendingInv'
  <2>1. PICK t : t = Before(s, l)
    OBVIOUS
  <2>2. ~ Launched(t)
    BY <1>1, <1>2, <1>3, <1>4, <2>1 DEF PendingInv
  <2>3. ~ Launched(t)'
    BY <1>1, <1>2, <1>4, <2>2, PushedLaunched
  <2>4. Before(py.step, py.layer)' = t
    BY <1>4, <1>9, <2>1 DEF Before
  <2>5. ~ Launched(Before(py.step, py.layer))'
    BY <2>3, <2>4 DEF Launched, Outstanding, EnqueueAt
  <2> QED BY <1>2, <1>9, <2>5 DEF PendingInv
<1> QED BY <1>10, <1>12, <1>14, <1>15 DEF DataInv

LEMMA SyncReturnData ==
  ASSUME DecodeInv, DataInv, SyncReturn
  PROVE  DataInv'
<1>1. Typed /\ StreamInv /\ TaskInv /\ FreshInv /\ PendingInv /\ BufferInv /\ MergeInv /\ ResultInv
  BY DEF DecodeInv, DataInv
<1>2. /\ py.at = "forward" /\ py' = NextLayer
      /\ UNCHANGED <<pending, task, queue, thread, done, output, result, exit>>
      /\ host' = [host EXCEPT ![py.layer][SyncSlot].output = host[py.layer][SyncSlot].input]
  BY DEF SyncReturn
<1>3. pending = {} /\ stream = << >> /\ py.prev = {}
  BY <1>1, <1>2 DEF StreamInv, PendingInv
<1>4. PICK s, l, o, a, z, T :
           /\ s \in Steps /\ l \in Layers
           /\ s = py.step /\ l = py.layer /\ Pushed(o, a, z, T) /\ T = {}
           /\ o = <<a, z>> /\ a = CopyOut(l, SyncSlot, <<s, l, "now">>)
           /\ z = Merge(l, s, py.prev)
  BY <1>1, SyncReturnPushes
<1> s \in Steps /\ l \in Layers
  BY <1>4
<1>5. /\ py'.step = py.step /\ py'.prev = {}
      /\ \/ py'.at = "step" /\ py'.layer = py.layer /\ py.layer + 1 = NumLayers
         \/ py'.at = "layer" /\ py'.layer = py.layer + 1
  BY <1>1, <1>2, NextLayerIs
<1>6. Past(s, l)' /\ ~ Past(py.step, py.layer)
  BY <1>1, <1>2, <1>4, ReturnPast
<1>7. BehindKept
  BY <1>1, <1>2, <1>4, PushedBehind
<1>8. ResultInv'
  BY <1>1, <1>2, <1>7, ResultKept
<1>9. PendingInv'
  <2>1. ASSUME py'.at # "step"
        PROVE  ~ Launched(Before(py.step, py.layer))'
    <3>1. PICK t : t = <<s, l, "deferred">>
      OBVIOUS
    <3>2. t \in Tag /\ t[1] = s /\ t[2] = l
      BY <3>1 DEF Tag
    <3>3. ~ Launched(t)
      BY <1>1, <1>4, <1>6, <3>2 DEF FreshInv
    <3>4. ~ Launched(t)'
      BY <1>1, <1>2, <1>4, <3>3, PushedLaunched
    <3>5. py'.step = s /\ py'.layer - 1 = l
      BY <1>1, <1>4, <1>5, <2>1, PyTypes
    <3>6. Before(py.step, py.layer)' = t
      BY <3>1, <3>5 DEF Before
    <3> QED BY <3>4, <3>6 DEF Launched, Outstanding, EnqueueAt
  <2> QED BY <1>2, <1>3, <1>5, <2>1 DEF PendingInv
<1>10. MergesRight(o)
  <2> SUFFICES ASSUME NEW j \in 1 .. Len(o), NEW m \in Layers, NEW r \in Steps,
                      NEW prev \in SUBSET Layers, o[j] = Merge(m, r, prev)
               PROVE  Past(r, m)' /\ prev = {} /\ ~ Launched(Before(r, m))'
    BY DEF MergesRight, Before
  <2>1. Len(o) = 2 /\ o[1] = a /\ o[2] = z
    BY <1>4
  <2>2. j = 1 \/ j = 2
    BY <2>1
  <2>3. Merge(m, r, prev).op = "merge" /\ a.op = "h2d"
    BY <1>4, OpKinds
  <2>4. Merge(m, r, prev) = Merge(l, s, {})
    BY <1>3, <1>4, <2>1, <2>2, <2>3
  <2>5. m = l /\ r = s /\ prev = {}
    BY <2>4, MergeIs
  <2>6. PICK t : t = Before(s, l)
    OBVIOUS
  <2>7. ~ Launched(t)
    BY <1>1, <1>2, <1>3, <1>4, <2>6 DEF PendingInv
  <2>8. ~ Launched(t)'
    BY <1>1, <1>2, <1>4, <2>7, PushedLaunched
  <2> QED BY <1>6, <2>5, <2>6, <2>8 DEF Before
<1>11. MergeInv'
  <2>1. o \in Seq(Ops) /\ stream' = stream \o o
    BY <1>4 DEF Pushed, Piece
  <2> QED BY <1>1, <1>2, <1>7, <1>10, <2>1, PushedMerges
<1>12. BufferInv'
  <2>1. stream' # << >> /\ stream'[1] = a
    BY <1>1, <1>3, <1>4, PushedStream
  <2>2. \A m, q, t : ~ Outstanding(m, q, t)'
    <3>1. \A m, q, t : Wait(m, q, t).op = "wait"
      BY OpKinds
    <3>2. a.op = "h2d"
      BY <1>4, OpKinds
    <3> QED BY <2>1, <3>1, <3>2 DEF Outstanding
  <2>3. host'[l][SyncSlot].output = <<s, l, "now">>
    <3>1. host \in [Layers -> [Slots -> Buffers]] /\ SyncSlot \in Slots
      BY <1>1 DEF Typed, Slots
    <3>2. host[l][SyncSlot].input = <<s, l, "now">>
      BY <1>1, <1>2, <1>4 DEF BufferInv
    <3>3. [host EXCEPT ![l][SyncSlot].output = <<s, l, "now">>][l][SyncSlot].output = <<s, l, "now">>
      BY <3>1 DEF Buffers
    <3> QED BY <1>2, <1>4, <3>2, <3>3
  <2>4. ASSUME NEW m \in Layers, NEW q \in Slots, NEW t \in Tag
        PROVE  /\ ~ AtHead(Enqueue(m, q, t))'
               /\ AtHead(CopyOut(m, q, t))' =>
                    (host'[m][q].output = t /\ (t[3] = "deferred" => t \in done'))
    <3>1. Enqueue(m, q, t).op = "enqueue" /\ a.op = "h2d"
      BY <1>4, OpKinds
    <3>2. ~ AtHead(Enqueue(m, q, t))'
      BY <2>1, <3>1 DEF AtHead
    <3>3. ASSUME AtHead(CopyOut(m, q, t))'
          PROVE  host'[m][q].output = t /\ t[3] = "now"
      <4>1. CopyOut(m, q, t) = CopyOut(l, SyncSlot, <<s, l, "now">>)
        BY <1>4, <2>1, <3>3 DEF AtHead
      <4>2. m = l /\ q = SyncSlot /\ t = <<s, l, "now">>
        BY <4>1, OpIs DEF CopyOut
      <4> QED BY <2>3, <4>2
    <3> QED BY <3>2, <3>3
  <2>5. ASSUME NEW m \in Layers, NEW r \in Steps, NEW prev \in SUBSET Layers
        PROVE  ~ AtHead(Merge(m, r, prev))'
    BY <1>4, <2>1, OpKinds DEF AtHead
  <2> QED BY <1>5, <2>1, <2>2, <2>4, <2>5 DEF BufferInv
<1> QED BY <1>8, <1>9, <1>11, <1>12 DEF DataInv

\* A step of Python that puts nothing on the stream.
LEMMA QuietBuffers ==
  ASSUME BufferInv, UNCHANGED <<stream, pending, host, output, thread, done>>,
         (py'.at = "forward" \/ (py'.at = "sync" /\ stream = << >>)) =>
           host[py'.layer][SyncSlot].input = <<py'.step, py'.layer, "now">>
  PROVE  BufferInv'
<1>1. \A e : AtHead(e)' <=> AtHead(e)
  BY DEF AtHead
<1>2. \A l, q, t : Outstanding(l, q, t)' <=> Outstanding(l, q, t)
  BY DEF Outstanding
<1>3. ASSUME NEW l \in Layers, NEW q \in Slots, NEW t \in Tag
      PROVE  /\ AtHead(Enqueue(l, q, t))' => host'[l][q].input = t
             /\ AtHead(CopyOut(l, q, t))' =>
                  (host'[l][q].output = t /\ (t[3] = "deferred" => t \in done'))
  BY DEF BufferInv, AtHead
<1>4. ASSUME NEW l \in Layers, NEW s \in Steps, NEW prev \in SUBSET Layers,
             AtHead(Merge(l, s, prev))'
      PROVE  output'[l]["now"] = <<s, l, "now">>
  BY <1>4 DEF BufferInv, AtHead
<1>5. ASSUME NEW l \in Layers, NEW q \in Qlens, NEW t \in Tag, Outstanding(l, q, t)'
      PROVE  /\ host'[l][q].input = t
             /\ thread'[l].at = "forward" => thread'[l].seen = t
             /\ t \in done' => host'[l][q].output = t
  BY <1>2, <1>5 DEF BufferInv
<1> QED BY <1>3, <1>4, <1>5 DEF BufferInv

LEMMA StartStepData ==
  ASSUME DecodeInv, DataInv, NEW q \in Qlens, NEW sync \in SyncSteps, StartStep(q, sync)
  PROVE  DataInv'
<1>1. Typed /\ StreamInv /\ TaskInv /\ FreshInv /\ PendingInv /\ BufferInv /\ MergeInv /\ ResultInv
  BY DEF DecodeInv, DataInv
<1>2. /\ py.at = "step"
      /\ UNCHANGED <<pending, stream, host, task, queue, thread, done, output, result, exit>>
      /\ py' = [at |-> "layer", step |-> py.step + 1, layer |-> 0, qlen |-> q,
                sync |-> sync, prev |-> {}]
  BY DEF StartStep
<1>3. py'.at = "layer" /\ py'.prev = {} /\ py'.layer = 0
  BY <1>2
<1>4. pending' = {}
  BY <1>1, <1>2 DEF PendingInv
<1>5. /\ \A s \in Nat, l \in Int : Past(s, l) => Past(s, l)'
      /\ DecodeInv'
  BY StartStepInv
<1>6. Layers \subseteq Nat /\ Steps \subseteq Nat
  BY <1>1, PyTypes
<1>7. \A t : Launched(t)' => Launched(t)
  BY <1>2 DEF Launched, Outstanding, EnqueueAt
<1>8. BehindKept
  BY <1>5, <1>6, <1>7 DEF BehindKept, Before
<1>9. ResultInv' /\ MergeInv'
  BY <1>1, <1>2, <1>8, ResultKept, MergeKept
<1>10. BufferInv'
  BY <1>1, <1>2, <1>3, QuietBuffers
<1>11. ~ Launched(Before(py.step, py.layer))'
  <2>1. PICK t : t = <<py.step + 1, -1, "deferred">>
    OBVIOUS
  <2>2. t \notin Tag
    BY <1>6, <2>1 DEF Tag
  <2>3. ~ Launched(t)'
    BY <1>1, <1>7, <2>2, LaunchedTag
  <2>4. Before(py.step, py.layer)' = t
    BY <1>2, <2>1 DEF Before
  <2> QED BY <2>3, <2>4 DEF Launched, Outstanding, EnqueueAt
<1>12. PendingInv'
  BY <1>3, <1>4, <1>11 DEF PendingInv
<1> QED BY <1>9, <1>10, <1>12 DEF DataInv

\* A step that leaves Python's layer, the stream, and what is pending.
LEMMA QuietPending ==
  ASSUME PendingInv, pending' = pending, \A t : Launched(t)' => Launched(t),
         py'.step = py.step, py'.layer = py.layer, py'.prev = py.prev, py'.sync = py.sync,
         py'.at = py.at \/ (pending = {} /\ py.at # "step")
  PROVE  PendingInv'
<1>1. ASSUME py'.at # "step", pending' = {}
      PROVE  ~ Launched(Before(py.step, py.layer))'
  <2>1. PICK t : t = Before(py.step, py.layer)
    OBVIOUS
  <2>2. ~ Launched(t)
    BY <1>1, <2>1 DEF PendingInv
  <2>3. ~ Launched(t)' /\ Before(py.step, py.layer)' = t
    BY <2>1, <2>2 DEF Before
  <2> QED BY <2>3 DEF Launched, Outstanding, EnqueueAt
<1>2. \A d \in pending' :
        py'.at = "layer" /\ ~ py'.sync /\ d.step = py'.step /\ d.layer = py'.layer - 1
  BY DEF PendingInv
<1>3. py'.prev = {}
  BY DEF PendingInv
<1> QED BY <1>1, <1>2, <1>3 DEF PendingInv

LEMMA SyncForwardData ==
  ASSUME DecodeInv, DataInv, SyncForward
  PROVE  DataInv'
<1>1. Typed /\ StreamInv /\ TaskInv /\ FreshInv /\ PendingInv /\ BufferInv /\ MergeInv /\ ResultInv
  BY DEF DecodeInv, DataInv
<1>2. /\ py.at = "sync" /\ stream = << >> /\ py' = [py EXCEPT !.at = "forward"]
      /\ UNCHANGED <<pending, stream, host, task, queue, thread, done, output, result, exit>>
  BY DEF SyncForward
<1>3. /\ py'.at = "forward" /\ py'.step = py.step /\ py'.layer = py.layer /\ py'.prev = py.prev
      /\ py'.sync = py.sync
  BY <1>1, <1>2, PyTypes DEF PyState
<1>4. \A t : Launched(t)' => Launched(t)
  BY <1>2 DEF Launched, Outstanding, EnqueueAt
<1>5. BehindKept
  BY <1>2, <1>3, <1>4 DEF BehindKept, Before, Past
<1>6. ResultInv' /\ MergeInv'
  BY <1>1, <1>2, <1>5, ResultKept, MergeKept
<1>7. BufferInv'
  <2>1. host[py'.layer][SyncSlot].input = <<py'.step, py'.layer, "now">>
    BY <1>1, <1>2, <1>3 DEF BufferInv
  <2> QED BY <1>1, <1>2, <2>1, QuietBuffers
<1>8. pending = {}
  BY <1>1, <1>2 DEF StreamInv
<1>9. PendingInv'
  BY <1>1, <1>2, <1>3, <1>4, <1>8, QuietPending
<1> QED BY <1>6, <1>7, <1>9 DEF DataInv

\* Steps that leave all that the data is about: ~MOE, and a thread that returns.
LEMMA QuietData ==
  ASSUME DecodeInv, DataInv,
         UNCHANGED <<py, pending, stream, host, done, output, result>>,
         \A l \in Layers : thread'[l].at = "forward" =>
           (thread[l].at = "forward" /\ thread'[l].seen = thread[l].seen)
  PROVE  DataInv'
<1>1. PendingInv /\ BufferInv /\ MergeInv /\ ResultInv
  BY DEF DataInv
<1>2. \A t : Launched(t)' => Launched(t)
  BY DEF Launched, Outstanding, EnqueueAt
<1>3. BehindKept
  BY <1>2 DEF BehindKept, Before, Past
<1>4. ResultInv' /\ MergeInv' /\ PendingInv'
  BY <1>1, <1>2, <1>3, ResultKept, MergeKept, QuietPending
<1>5. \A l, q, t : Outstanding(l, q, t)' <=> Outstanding(l, q, t)
  BY DEF Outstanding
<1>6. ASSUME NEW l \in Layers, NEW q \in Slots, NEW t \in Tag
      PROVE  /\ AtHead(Enqueue(l, q, t))' => host'[l][q].input = t
             /\ AtHead(CopyOut(l, q, t))' =>
                  (host'[l][q].output = t /\ (t[3] = "deferred" => t \in done'))
  BY <1>1 DEF BufferInv, AtHead
<1>7. ASSUME NEW l \in Layers, NEW s \in Steps, NEW prev \in SUBSET Layers,
             AtHead(Merge(l, s, prev))'
      PROVE  output'[l]["now"] = <<s, l, "now">>
  BY <1>1, <1>7 DEF BufferInv, AtHead
<1>8. ASSUME NEW l \in Layers, NEW q \in Qlens, NEW t \in Tag, Outstanding(l, q, t)'
      PROVE  /\ host'[l][q].input = t
             /\ thread'[l].at = "forward" => thread'[l].seen = t
             /\ t \in done' => host'[l][q].output = t
  BY <1>1, <1>5, <1>8 DEF BufferInv
<1>9. (py'.at = "forward" \/ (py'.at = "sync" /\ stream' = << >>)) =>
        host'[py'.layer][SyncSlot].input = <<py'.step, py'.layer, "now">>
  BY <1>1 DEF BufferInv
<1>10. BufferInv'
  BY <1>6, <1>7, <1>8, <1>9 DEF BufferInv
<1> QED BY <1>4, <1>10 DEF DataInv

-----------------------------------------------------------------------------
(* The data, when the stream goes on.                                       *)

\* What an operation follows that comes to the head.
LEMMA PoppedHead ==
  ASSUME Typed, StreamInv, Popped
  PROVE  /\ \A l, q, t : AtHead(Enqueue(l, q, t))' => stream[1] = CopyIn(l, q, t)
         /\ \A l, q, t : AtHead(CopyOut(l, q, t))' => stream[1] = Wait(l, q, t)
         /\ \A l, s, prev : AtHead(Merge(l, s, prev))' =>
              \E q \in Slots : stream[1] = CopyOut(l, q, <<s, l, "now">>)
<1>1. \A e : AtHead(e)' => Follows(stream[1], e)
  BY PoppedStream DEF AtHead
<1>2. ASSUME NEW l, NEW q, NEW t, AtHead(Enqueue(l, q, t))'
      PROVE  stream[1] = CopyIn(l, q, t)
  <2>1. Follows(stream[1], Enqueue(l, q, t))
    BY <1>1, <1>2 DEF AtHead, Enqueue, Op
  <2> QED BY <2>1, OpKinds DEF Follows
<1>3. ASSUME NEW l, NEW q, NEW t, AtHead(CopyOut(l, q, t))'
      PROVE  stream[1] = Wait(l, q, t)
  <2>1. Follows(stream[1], CopyOut(l, q, t))
    BY <1>1, <1>3 DEF AtHead, CopyOut, Op
  <2> QED BY <2>1, OpKinds DEF Follows
<1>4. ASSUME NEW l, NEW s, NEW prev, AtHead(Merge(l, s, prev))'
      PROVE  \E q \in Slots : stream[1] = CopyOut(l, q, <<s, l, "now">>)
  <2>1. Follows(stream[1], Merge(l, s, prev))
    BY <1>1, <1>4 DEF AtHead, Merge
  <2> QED BY <2>1, OpKinds DEF Follows
<1> QED BY <1>2, <1>3, <1>4

\* After the last operation nothing waits for the stream but a synchronous call
\* for its copy, or a pending call.
LEMMA PoppedLast ==
  ASSUME Typed, StreamInv, Popped, stream' = << >>, py.at \in {"sync", "forward"}
  PROVE  py.at = "sync" /\ stream[1] = SyncCopy
<1>1. EndOfStream(stream[1])
  BY PoppedStream
<1>2. py.at # "forward"
  BY DEF StreamInv, Popped
<1> QED BY <1>1, <1>2 DEF EndOfStream

LEMMA PoppedBehind ==
  ASSUME Typed, StreamInv, Popped, done' = done
  PROVE  BehindKept /\ \A t : Launched(t)' => Launched(t)
<1>1. \A t : Launched(t)' => Launched(t)
  BY PoppedLaunched
<1>2. py' = py
  BY DEF Popped
<1> QED BY <1>1, <1>2 DEF BehindKept, Before, Past

\* What a merge up to six operations ahead takes is on the GPU after the step.
BroughtAhead ==
  \A k \in 2 .. 6, l \in Layers, s \in Steps :
    (k <= Len(stream) /\ stream[k] = Merge(l, s, {l - 1}) /\ Brought(k, s, l)) =>
      (output'[l - 1]["deferred"] = Before(s, l) /\ Before(s, l) \in done)

LEMMA PoppedMerges ==
  ASSUME Typed, StreamInv, Popped, MergeInv, done' = done, BroughtAhead
  PROVE  MergeInv'
<1>1. /\ Len(stream) \in Nat \ {0} /\ Len(stream') = Len(stream) - 1
      /\ \A i \in 1 .. Len(stream') : i + 1 \in 1 .. Len(stream) /\ stream'[i] = stream[i + 1]
  BY PoppedAt
<1>2. BehindKept
  BY PoppedBehind
<1> SUFFICES ASSUME NEW k \in 1 .. Len(stream'), NEW l \in Layers, NEW s \in Steps,
                    NEW prev \in SUBSET Layers, stream'[k] = Merge(l, s, prev)
             PROVE  /\ Past(s, l)'
                    /\ \/ prev = {} /\ ~ Launched(Before(s, l))'
                       \/ prev = {l - 1} /\ Brought(k, s, l)'
  BY DEF MergeInv, Before
<1>3. k + 1 \in 1 .. Len(stream) /\ stream[k + 1] = Merge(l, s, prev)
  BY <1>1
<1>4. /\ Past(s, l)
      /\ \/ prev = {} /\ ~ Launched(Before(s, l))
         \/ prev = {l - 1} /\ Brought(k + 1, s, l)
  BY <1>3 DEF MergeInv
<1>5. Past(s, l)' /\ (Launched(Before(s, l))' => Launched(Before(s, l)))
  BY <1>2, <1>4 DEF BehindKept
<1>6. ASSUME prev = {l - 1}, Brought(k + 1, s, l)
      PROVE  Brought(k, s, l)'
  <2>1. CASE k <= 5
    <3>1. k + 1 \in 2 .. 6 /\ k + 1 <= Len(stream)
      BY <1>3, <2>1
    <3>2. output'[l - 1]["deferred"] = Before(s, l) /\ Before(s, l) \in done
      BY <1>3, <1>6, <3>1 DEF BroughtAhead
    <3> QED BY <2>1, <3>2 DEF Brought, Before
  <2>2. CASE k > 5
    <3>1. ~ k <= 5 /\ ~ k + 1 <= 5 /\ k - 5 \in 1 .. Len(stream') /\ (k + 1) - 5 = (k - 5) + 1
      BY <1>1, <2>2
    <3>2. PICK q \in Slots : stream[(k + 1) - 5] = CopyOut(l - 1, q, Before(s, l))
      BY <1>6, <3>1 DEF Brought
    <3>3. stream'[k - 5] = CopyOut(l - 1, q, Before(s, l))
      BY <1>1, <3>1, <3>2
    <3> QED BY <3>1, <3>3 DEF Brought, Before
  <2> QED BY <1>1, <2>1, <2>2
<1> QED BY <1>4, <1>5, <1>6

\* It is there before the step, unless the operation at the head brings it.
LEMMA AheadKept ==
  ASSUME stream[1].op # "h2d", output' = output
  PROVE  BroughtAhead
<1> SUFFICES ASSUME NEW k \in 2 .. 6, NEW l \in Layers, NEW s \in Steps, Brought(k, s, l)
             PROVE  output'[l - 1]["deferred"] = Before(s, l) /\ Before(s, l) \in done
  BY DEF BroughtAhead
<1>1. CASE k <= 5
  BY <1>1 DEF Brought
<1>2. CASE k = 6
  <2>1. ~ k <= 5 /\ k - 5 = 1
    BY <1>2
  <2>2. PICK q \in Slots : stream[1] = CopyOut(l - 1, q, Before(s, l))
    BY <2>1 DEF Brought
  <2> QED BY <2>2, OpKinds
<1> QED BY <1>1, <1>2

\* A copy to the GPU is right before the merge, or five operations before it.
LEMMA BeforeMerge ==
  ASSUME Typed, StreamInv, stream # << >>, stream[1].op = "h2d", NEW k \in 2 .. 5,
         k <= Len(stream), NEW l, NEW s, NEW prev, stream[k] = Merge(l, s, prev)
  PROVE  \E q \in Slots : stream[1] = CopyOut(l, q, <<s, l, "now">>)
<1>1. \A i \in 1 .. (Len(stream) - 1) : Follows(stream[i], stream[i + 1])
  BY DEF StreamInv, Chain
<1>2. Len(stream) \in Nat
  BY PyTypes
<1>3. ASSUME NEW i \in 2 .. 5, i <= Len(stream)
      PROVE  Follows(stream[i - 1], stream[i])
  <2>1. i - 1 \in 1 .. (Len(stream) - 1) /\ (i - 1) + 1 = i
    BY <1>2, <1>3
  <2>2. Follows(stream[i - 1], stream[(i - 1) + 1])
    BY <1>1, <2>1
  <2> QED BY <2>1, <2>2
<1>4. PICK q \in Slots : stream[k - 1] = CopyOut(l, q, <<s, l, "now">>)
  <2>1. Follows(stream[k - 1], Merge(l, s, prev))
    BY <1>3
  <2> QED BY <2>1, OpKinds DEF Follows
<1>5. CASE k = 2
  <2>1. k - 1 = 1
    BY <1>5
  <2> QED BY <1>4, <2>1
<1>6. CASE k >= 3
  <2> DEFINE t == <<s, l, "now">>
  <2>1. k - 1 \in 2 .. 5 /\ k - 1 <= Len(stream) /\ (k - 1) - 1 = k - 2
    BY <1>2, <1>6
  <2>2. Follows(stream[k - 2], stream[k - 1])
    BY <1>3, <2>1
  <2>3. stream[k - 2] = Wait(l, q, t)
    BY <1>4, <2>2, OpKinds DEF Follows
  <2>4. k # 3
    <3>1. k = 3 => k - 2 = 1
      OBVIOUS
    <3> QED BY <2>3, <3>1, OpKinds
  <2>5. k - 2 \in 2 .. 5 /\ k - 2 <= Len(stream) /\ (k - 2) - 1 = k - 3
    BY <1>2, <1>6, <2>4
  <2>6. Follows(stream[k - 3], stream[k - 2])
    BY <1>3, <2>5
  <2>7. stream[k - 3] = Enqueue(l, q, t)
    BY <2>3, <2>6, OpKinds DEF Follows
  <2>8. k # 4
    <3>1. k = 4 => k - 3 = 1
      OBVIOUS
    <3> QED BY <2>7, <3>1, OpKinds
  <2>9. k - 3 \in 2 .. 5 /\ k - 3 <= Len(stream) /\ (k - 3) - 1 = 1
    BY <1>2, <1>6, <2>4, <2>8
  <2>10. Follows(stream[1], stream[k - 3])
    BY <1>3, <2>9
  <2>11. stream[1] = CopyIn(l, q, t)
    BY <2>7, <2>10, OpKinds DEF Follows
  <2> QED BY <2>11, OpKinds
<1> QED BY <1>2, <1>5, <1>6

LEMMA StreamCopyInData ==
  ASSUME DecodeInv, DataInv, StreamCopyIn
  PROVE  DataInv'
<1>1. Typed /\ StreamInv /\ TaskInv /\ FreshInv /\ PendingInv /\ BufferInv /\ MergeInv /\ ResultInv
  BY DEF DecodeInv, DataInv
<1>2. PICK h : h = Head(stream)
  OBVIOUS
<1>3. /\ Popped /\ h.op = "d2h"
      /\ host' = [host EXCEPT ![h.l][h.slot].input = h.tag]
      /\ UNCHANGED <<py, pending, task, queue, thread, done, output, result, exit>>
  BY <1>2 DEF StreamCopyIn, StreamOp, Popped
<1>4. h = stream[1] /\ h \in Ops
  BY <1>1, <1>2, <1>3, PoppedAt
<1>5. BehindKept /\ (\A t : Launched(t)' => Launched(t)) /\ done' = done
  BY <1>1, <1>3, PoppedBehind
<1>6. ResultInv' /\ PendingInv'
  BY <1>1, <1>3, <1>5, ResultKept, QuietPending
<1>7. MergeInv'
  BY <1>1, <1>3, <1>4, <1>5, AheadKept, PoppedMerges
<1>8. host'[h.l][h.slot].input = h.tag
  <2>1. h.l \in Layers /\ h.slot \in Slots
    BY <1>3, <1>4, OpFields
  <2>2. host \in [Layers -> [Slots -> Buffers]]
    BY <1>1 DEF Typed
  <2> QED BY <1>3, <2>1, <2>2, BufferRead
<1>9. \A l, q, t : ~ Outstanding(l, q, t)'
  BY <1>1, <1>3, <1>4, PoppedNone
<1>10. ASSUME NEW l \in Layers, NEW q \in Slots, NEW t \in Tag
       PROVE  /\ AtHead(Enqueue(l, q, t))' => host'[l][q].input = t
              /\ ~ AtHead(CopyOut(l, q, t))'
  <2>1. ASSUME AtHead(Enqueue(l, q, t))'
        PROVE  host'[l][q].input = t
    <3>1. h = CopyIn(l, q, t)
      BY <1>1, <1>3, <1>4, <2>1, PoppedHead
    <3> QED BY <1>8, <3>1, OpKinds
  <2>2. ~ AtHead(CopyOut(l, q, t))'
    <3>1. AtHead(CopyOut(l, q, t))' => h = Wait(l, q, t)
      BY <1>1, <1>3, <1>4, PoppedHead
    <3> QED BY <1>3, <3>1, OpKinds
  <2> QED BY <2>1, <2>2
<1>11. ASSUME NEW l \in Layers, NEW s \in Steps, NEW prev \in SUBSET Layers
       PROVE  ~ AtHead(Merge(l, s, prev))'
  <2>1. AtHead(Merge(l, s, prev))' => \E q \in Slots : h = CopyOut(l, q, <<s, l, "now">>)
    BY <1>1, <1>3, <1>4, PoppedHead
  <2> QED BY <1>3, <2>1, OpKinds
<1>12. ASSUME py'.at = "forward" \/ (py'.at = "sync" /\ stream' = << >>)
       PROVE  host'[py'.layer][SyncSlot].input = <<py'.step, py'.layer, "now">>
  <2>1. stream' = << >>
    BY <1>1, <1>3, <1>12 DEF StreamInv, Popped
  <2>2. h = SyncCopy
    BY <1>1, <1>3, <1>4, <1>12, <2>1, PoppedLast
  <2>3. h.l = py.layer /\ h.slot = SyncSlot /\ h.tag = <<py.step, py.layer, "now">>
    BY <2>2 DEF SyncCopy, CopyIn, Op
  <2> QED BY <1>3, <1>8, <2>3
<1>13. BufferInv'
  BY <1>9, <1>10, <1>11, <1>12 DEF BufferInv
<1> QED BY <1>6, <1>7, <1>13 DEF DataInv
\* After an operation other than a copy in, no synchronous call has what it waits for.
LEMMA PoppedNotSync ==
  ASSUME Typed, StreamInv, Popped, stream[1].op # "d2h"
  PROVE  ~ (py'.at = "forward" \/ (py'.at = "sync" /\ stream' = << >>))
<1>1. py' = py /\ py.at # "forward"
  BY DEF StreamInv, Popped
<1>2. ASSUME py.at = "sync", stream' = << >>
      PROVE  FALSE
  <2>1. stream[1] = SyncCopy
    BY <1>2, PoppedLast
  <2> QED BY <2>1 DEF SyncCopy, CopyIn, Op
<1> QED BY <1>1, <1>2

LEMMA StreamEnqueueData ==
  ASSUME DecodeInv, DataInv, StreamEnqueue
  PROVE  DataInv'
<1>1. Typed /\ StreamInv /\ TaskInv /\ FreshInv /\ PendingInv /\ BufferInv /\ MergeInv /\ ResultInv
  BY DEF DecodeInv, DataInv
<1>2. PICK h : h = Head(stream)
  OBVIOUS
<1>3. /\ Popped /\ h.op = "enqueue"
      /\ UNCHANGED <<py, pending, host, thread, done, output, result, exit>>
  BY <1>2 DEF StreamEnqueue, StreamOp, Popped
<1>4. h = stream[1] /\ h \in Ops /\ stream # << >> /\ 1 \in 1 .. Len(stream)
  BY <1>1, <1>2, <1>3, PoppedAt DEF Popped
<1>5. BehindKept /\ (\A t : Launched(t)' => Launched(t)) /\ done' = done
  BY <1>1, <1>3, PoppedBehind
<1>6. ResultInv' /\ PendingInv'
  BY <1>1, <1>3, <1>5, ResultKept, QuietPending
<1>7. MergeInv'
  BY <1>1, <1>3, <1>4, <1>5, AheadKept, PoppedMerges
<1>8. /\ h.l \in Layers /\ h.slot \in Qlens /\ h.tag \in Tag /\ h.slot \in Slots
      /\ h = Enqueue(h.l, h.slot, h.tag)
  BY <1>3, <1>4, OpFields DEF Slots
<1>9. \A l, q, t : Outstanding(l, q, t)' <=> (l = h.l /\ q = h.slot /\ t = h.tag)
  BY <1>1, <1>3, <1>4, PoppedEnqueue
<1>10. h.tag \notin done
  BY <1>1, <1>3, <1>4, <1>8 DEF FreshInv, EnqueueAt
<1>11. host[h.l][h.slot].input = h.tag
  BY <1>1, <1>4, <1>8 DEF BufferInv, AtHead
<1>12. \A l \in Layers : thread[l].at # "forward"
  BY <1>1, <1>3, <1>4, HeadNone, NoTasks
<1>13. ASSUME NEW l \in Layers, NEW q \in Slots, NEW t \in Tag
       PROVE  ~ AtHead(Enqueue(l, q, t))' /\ ~ AtHead(CopyOut(l, q, t))'
  <2>1. /\ AtHead(Enqueue(l, q, t))' => h = CopyIn(l, q, t)
        /\ AtHead(CopyOut(l, q, t))' => h = Wait(l, q, t)
    BY <1>1, <1>3, <1>4, PoppedHead
  <2> QED BY <1>3, <2>1, OpKinds
<1>14. ASSUME NEW l \in Layers, NEW s \in Steps, NEW prev \in SUBSET Layers
       PROVE  ~ AtHead(Merge(l, s, prev))'
  <2>1. AtHead(Merge(l, s, prev))' => \E q \in Slots : h = CopyOut(l, q, <<s, l, "now">>)
    BY <1>1, <1>3, <1>4, PoppedHead
  <2> QED BY <1>3, <2>1, OpKinds
<1>15. ~ (py'.at = "forward" \/ (py'.at = "sync" /\ stream' = << >>))
  BY <1>1, <1>3, <1>4, PoppedNotSync
<1>16. ASSUME NEW l \in Layers, NEW q \in Qlens, NEW t \in Tag, Outstanding(l, q, t)'
       PROVE  /\ host'[l][q].input = t
              /\ thread'[l].at # "forward" /\ t \notin done'
  BY <1>3, <1>9, <1>10, <1>11, <1>12, <1>16
<1>17. BufferInv'
  BY <1>13, <1>14, <1>15, <1>16 DEF BufferInv
<1> QED BY <1>6, <1>7, <1>17 DEF DataInv

LEMMA StreamWaitData ==
  ASSUME DecodeInv, DataInv, StreamWait
  PROVE  DataInv'
<1>1. Typed /\ StreamInv /\ TaskInv /\ FreshInv /\ PendingInv /\ BufferInv /\ MergeInv /\ ResultInv
  BY DEF DecodeInv, DataInv
<1>2. PICK h : h = Head(stream)
  OBVIOUS
<1>3. /\ Popped /\ h.op = "wait" /\ task[h.l][h.slot] \in done
      /\ UNCHANGED <<py, pending, host, thread, done, output, result, exit>>
  BY <1>2 DEF StreamWait, StreamOp, Popped
<1>4. h = stream[1] /\ h \in Ops /\ stream # << >>
  BY <1>1, <1>2, <1>3, PoppedAt DEF Popped
<1>5. BehindKept /\ (\A t : Launched(t)' => Launched(t)) /\ done' = done
  BY <1>1, <1>3, PoppedBehind
<1>6. ResultInv' /\ PendingInv'
  BY <1>1, <1>3, <1>5, ResultKept, QuietPending
<1>7. MergeInv'
  BY <1>1, <1>3, <1>4, <1>5, AheadKept, PoppedMerges
<1>8. h.l \in Layers /\ h.slot \in Qlens /\ h.tag \in Tag /\ h = Wait(h.l, h.slot, h.tag)
  BY <1>3, <1>4, OpFields
<1>9. Outstanding(h.l, h.slot, h.tag)
  BY <1>4, <1>8 DEF Outstanding
<1>10. h.tag \in done
  BY <1>1, <1>3, <1>8, <1>9 DEF TaskInv
<1>11. host[h.l][h.slot].output = h.tag
  BY <1>1, <1>8, <1>9, <1>10 DEF BufferInv
<1>12. \A l, q, t : ~ Outstanding(l, q, t)'
  BY <1>1, <1>3, <1>4, PoppedNone
<1>13. ASSUME NEW l \in Layers, NEW q \in Slots, NEW t \in Tag
       PROVE  /\ ~ AtHead(Enqueue(l, q, t))'
              /\ AtHead(CopyOut(l, q, t))' => (host'[l][q].output = t /\ t \in done')
  <2>1. /\ AtHead(Enqueue(l, q, t))' => h = CopyIn(l, q, t)
        /\ AtHead(CopyOut(l, q, t))' => h = Wait(l, q, t)
    BY <1>1, <1>3, <1>4, PoppedHead
  <2>2. ASSUME AtHead(CopyOut(l, q, t))'
        PROVE  l = h.l /\ q = h.slot /\ t = h.tag
    BY <2>1, <2>2, OpKinds
  <2> QED BY <1>3, <1>10, <1>11, <2>1, <2>2, OpKinds
<1>14. ASSUME NEW l \in Layers, NEW s \in Steps, NEW prev \in SUBSET Layers
       PROVE  ~ AtHead(Merge(l, s, prev))'
  <2>1. AtHead(Merge(l, s, prev))' => \E q \in Slots : h = CopyOut(l, q, <<s, l, "now">>)
    BY <1>1, <1>3, <1>4, PoppedHead
  <2> QED BY <1>3, <2>1, OpKinds
<1>15. ~ (py'.at = "forward" \/ (py'.at = "sync" /\ stream' = << >>))
  BY <1>1, <1>3, <1>4, PoppedNotSync
<1>16. BufferInv'
  BY <1>12, <1>13, <1>14, <1>15 DEF BufferInv
<1> QED BY <1>6, <1>7, <1>16 DEF DataInv

LEMMA StreamCopyOutData ==
  ASSUME DecodeInv, DataInv, StreamCopyOut
  PROVE  DataInv'
<1>1. Typed /\ StreamInv /\ TaskInv /\ FreshInv /\ PendingInv /\ BufferInv /\ MergeInv /\ ResultInv
  BY DEF DecodeInv, DataInv
<1>2. PICK h : h = Head(stream)
  OBVIOUS
<1>3. /\ Popped /\ h.op = "h2d"
      /\ output' = [output EXCEPT ![h.l][h.tag[3]] = host[h.l][h.slot].output]
      /\ UNCHANGED <<py, pending, host, thread, done, result, exit>>
  BY <1>2 DEF StreamCopyOut, StreamOp, Popped
<1>4. h = stream[1] /\ h \in Ops /\ stream # << >>
  BY <1>1, <1>2, <1>3, PoppedAt DEF Popped
<1>5. BehindKept /\ (\A t : Launched(t)' => Launched(t)) /\ done' = done
  BY <1>1, <1>3, PoppedBehind
<1>6. ResultInv' /\ PendingInv'
  BY <1>1, <1>3, <1>5, ResultKept, QuietPending
<1>7. /\ h.l \in Layers /\ h.slot \in Slots /\ h.tag \in Tag /\ h.tag[3] \in Parts
      /\ h = CopyOut(h.l, h.slot, h.tag)
  <2>1. h.l \in Layers /\ h.slot \in Slots /\ h.tag \in Tag
    BY <1>3, <1>4, OpFields
  <2>2. h \in CopyOps
    BY <1>3, <1>4 DEF Ops, TaskOps, MergeOps
  <2> QED BY <1>3, <2>1, <2>2, TagParts DEF CopyOps, CopyOut, Op
<1>8. host[h.l][h.slot].output = h.tag /\ (h.tag[3] = "deferred" => h.tag \in done)
  BY <1>1, <1>4, <1>7 DEF BufferInv, AtHead
<1>9. /\ output'[h.l][h.tag[3]] = h.tag
      /\ \A l \in Layers, p \in Parts : (l # h.l \/ p # h.tag[3]) => output'[l][p] = output[l][p]
  <2>1. output \in [Layers -> [Parts -> Data]]
    BY <1>1 DEF Typed
  <2> QED BY <1>3, <1>7, <1>8, <2>1
<1>10. BroughtAhead
  <2> SUFFICES ASSUME NEW k \in 2 .. 6, NEW l \in Layers, NEW s \in Steps,
                      k <= Len(stream), stream[k] = Merge(l, s, {l - 1}), Brought(k, s, l)
               PROVE  output'[l - 1]["deferred"] = Before(s, l) /\ Before(s, l) \in done
    BY DEF BroughtAhead
  <2>1. CASE k = 6
    <3>1. ~ k <= 5 /\ k - 5 = 1
      BY <2>1
    <3>2. PICK q \in Slots : h = CopyOut(l - 1, q, Before(s, l))
      BY <1>4, <3>1 DEF Brought
    <3>3. h.l = l - 1 /\ h.tag = Before(s, l)
      BY <3>2, OpKinds
    <3>4. h.tag[3] = "deferred"
      BY <3>3 DEF Before
    <3> QED BY <1>8, <1>9, <3>3, <3>4
  <2>2. CASE k <= 5
    <3>1. output[l - 1]["deferred"] = Before(s, l) /\ Before(s, l) \in done
      BY <2>2 DEF Brought
    <3>2. k \in 2 .. 5
      BY <2>2
    <3>3. PICK q \in Slots : stream[1] = CopyOut(l, q, <<s, l, "now">>)
      BY <1>1, <1>3, <1>4, <3>2, BeforeMerge
    <3>4. h.tag = <<s, l, "now">>
      BY <1>4, <3>3, OpKinds
    <3>5. h.tag[3] = "now" /\ "deferred" \in Parts
      BY <3>4 DEF Parts
    <3>6. l - 1 \in Layers
      <4>1. Before(s, l) \in Tag
        BY <1>1, <3>1 DEF Typed
      <4> QED BY <4>1 DEF Before, Tag
    <3>7. output'[l - 1]["deferred"] = output[l - 1]["deferred"]
      BY <1>9, <3>5, <3>6
    <3> QED BY <3>1, <3>7
  <2> QED BY <2>1, <2>2
<1>11. MergeInv'
  BY <1>1, <1>3, <1>5, <1>10, PoppedMerges
<1>12. \A l, q, t : ~ Outstanding(l, q, t)'
  BY <1>1, <1>3, <1>4, PoppedNone
<1>13. ASSUME NEW l \in Layers, NEW q \in Slots, NEW t \in Tag
       PROVE  ~ AtHead(Enqueue(l, q, t))' /\ ~ AtHead(CopyOut(l, q, t))'
  <2>1. /\ AtHead(Enqueue(l, q, t))' => h = CopyIn(l, q, t)
        /\ AtHead(CopyOut(l, q, t))' => h = Wait(l, q, t)
    BY <1>1, <1>3, <1>4, PoppedHead
  <2> QED BY <1>3, <2>1, OpKinds
<1>14. ASSUME NEW l \in Layers, NEW s \in Steps, NEW prev \in SUBSET Layers,
              AtHead(Merge(l, s, prev))'
       PROVE  output'[l]["now"] = <<s, l, "now">>
  <2>1. PICK q \in Slots : h = CopyOut(l, q, <<s, l, "now">>)
    BY <1>1, <1>3, <1>4, <1>14, PoppedHead
  <2>2. h.l = l /\ h.tag = <<s, l, "now">>
    BY <2>1, OpKinds
  <2>3. h.tag[3] = "now"
    BY <2>2
  <2> QED BY <1>9, <2>2, <2>3
<1>15. ~ (py'.at = "forward" \/ (py'.at = "sync" /\ stream' = << >>))
  BY <1>1, <1>3, <1>4, PoppedNotSync
<1>16. BufferInv'
  BY <1>12, <1>13, <1>14, <1>15 DEF BufferInv
<1> QED BY <1>6, <1>11, <1>16 DEF DataInv
LEMMA StreamMergeData ==
  ASSUME DecodeInv, DataInv, StreamMerge
  PROVE  DataInv'
<1>1. Typed /\ StreamInv /\ TaskInv /\ FreshInv /\ PendingInv /\ BufferInv /\ MergeInv /\ ResultInv
  BY DEF DecodeInv, DataInv
<1>2. PICK h : h = Head(stream)
  OBVIOUS
<1>3. /\ Popped /\ h.op = "merge"
      /\ result' = [result EXCEPT ![h.step][h.l] =
           {output[h.l]["now"]} \cup {output[p]["deferred"] : p \in h.prev}]
      /\ UNCHANGED <<py, pending, host, thread, done, output, exit>>
  BY <1>2 DEF StreamMerge, StreamOp, Popped
<1>4. h = stream[1] /\ h \in Ops /\ stream # << >> /\ 1 \in 1 .. Len(stream)
  BY <1>1, <1>2, <1>3, PoppedAt DEF Popped
<1>5. BehindKept /\ (\A t : Launched(t)' => Launched(t)) /\ done' = done
  BY <1>1, <1>3, PoppedBehind
<1>6. PendingInv'
  BY <1>1, <1>3, <1>5, QuietPending
<1>7. MergeInv'
  BY <1>1, <1>3, <1>4, <1>5, AheadKept, PoppedMerges
<1>8. /\ h.l \in Layers /\ h.step \in Steps /\ h.prev \in SUBSET Layers
      /\ h = Merge(h.l, h.step, h.prev)
  <2>1. h.l \in Layers /\ h.step \in Steps /\ h.prev \in SUBSET Layers
    BY <1>3, <1>4, OpFields
  <2>2. h \in MergeOps
    BY <1>3, <1>4 DEF Ops, CopyOps, TaskOps
  <2> QED BY <2>1, <2>2 DEF MergeOps, Merge
<1>9. output[h.l]["now"] = <<h.step, h.l, "now">>
  BY <1>1, <1>4, <1>8 DEF BufferInv, AtHead
<1>10. PICK s, l, t :
         s \in Steps /\ l \in Layers /\ s = h.step /\ l = h.l /\ t = Before(s, l)
  BY <1>8
<1> s \in Steps /\ l \in Layers
  BY <1>10
<1>11. /\ Past(s, l)
       /\ \/ h.prev = {} /\ ~ Launched(t)
          \/ h.prev = {l - 1} /\ output[l - 1]["deferred"] = t /\ t \in done
  <2>1. /\ Past(s, l)
        /\ \/ h.prev = {} /\ ~ Launched(Before(s, l))
           \/ h.prev = {l - 1} /\ Brought(1, s, l)
    BY <1>1, <1>4, <1>8, <1>10 DEF MergeInv
  <2>2. Brought(1, s, l) => (output[l - 1]["deferred"] = t /\ t \in done)
    BY <1>10 DEF Brought
  <2> QED BY <1>10, <2>1, <2>2
<1>12. /\ t \in done \/ ~ Launched(t)
       /\ {output[l]["now"]} \cup {output[p]["deferred"] : p \in h.prev}
            = {<<s, l, "now">>} \cup (done \cap {t})
  <2>1. CASE h.prev = {} /\ ~ Launched(t)
    <3>1. t \notin done
      BY <2>1 DEF Launched
    <3>2. {output[p]["deferred"] : p \in h.prev} = {} /\ done \cap {t} = {}
      BY <2>1, <3>1
    <3> QED BY <1>9, <1>10, <2>1, <3>2
  <2>2. CASE h.prev = {l - 1} /\ output[l - 1]["deferred"] = t /\ t \in done
    <3>1. {output[p]["deferred"] : p \in h.prev} = {t} /\ done \cap {t} = {t}
      BY <2>2
    <3> QED BY <1>9, <1>10, <2>2, <3>1
  <2> QED BY <1>11, <2>1, <2>2
<1>13. /\ result'[s][l] = {<<s, l, "now">>} \cup (done \cap {t})
       /\ \A r \in Steps, m \in Layers : (r # s \/ m # l) => result'[r][m] = result[r][m]
  <2>1. result \in [Steps -> [Layers -> SUBSET Data]]
    BY <1>1 DEF Typed
  <2>2. result' = [result EXCEPT ![s][l] = {<<s, l, "now">>} \cup (done \cap {t})]
    BY <1>3, <1>10, <1>12
  <2> QED BY <2>1, <2>2
<1>14. ResultInv'
  <2> SUFFICES ASSUME NEW r \in Steps, NEW m \in Layers, result'[r][m] # {}
               PROVE  /\ Past(r, m)'
                      /\ (Before(r, m) \in done' \/ ~ Launched(Before(r, m))')
                      /\ result'[r][m] = {<<r, m, "now">>} \cup (done' \cap {Before(r, m)})
    BY DEF ResultInv, Before
  <2>1. CASE r = s /\ m = l
    <3>1. Past(s, l)' /\ (t \in done' \/ ~ Launched(t)')
      BY <1>5, <1>11, <1>12 DEF BehindKept
    <3>2. ~ Launched(t)' => ~ Launched(Before(r, m))'
      BY <1>10, <2>1 DEF Before
    <3> QED BY <1>5, <1>10, <1>13, <2>1, <3>1, <3>2
  <2>2. CASE r # s \/ m # l
    <3>1. result'[r][m] = result[r][m]
      BY <1>13, <2>2
    <3>2. /\ Past(r, m)
          /\ (Before(r, m) \in done \/ ~ Launched(Before(r, m)))
          /\ result[r][m] = {<<r, m, "now">>} \cup (done \cap {Before(r, m)})
      BY <1>1, <3>1 DEF ResultInv
    <3> QED BY <1>5, <3>1, <3>2 DEF BehindKept
  <2> QED BY <2>1, <2>2
<1>15. \A x, q, u : ~ Outstanding(x, q, u)'
  BY <1>1, <1>3, <1>4, PoppedNone
<1>16. ASSUME NEW x \in Layers, NEW q \in Slots, NEW u \in Tag
       PROVE  ~ AtHead(Enqueue(x, q, u))' /\ ~ AtHead(CopyOut(x, q, u))'
  <2>1. /\ AtHead(Enqueue(x, q, u))' => h = CopyIn(x, q, u)
        /\ AtHead(CopyOut(x, q, u))' => h = Wait(x, q, u)
    BY <1>1, <1>3, <1>4, PoppedHead
  <2> QED BY <1>3, <2>1, OpKinds
<1>17. ASSUME NEW x \in Layers, NEW r \in Steps, NEW prev \in SUBSET Layers
       PROVE  ~ AtHead(Merge(x, r, prev))'
  <2>1. AtHead(Merge(x, r, prev))' => \E q \in Slots : h = CopyOut(x, q, <<r, x, "now">>)
    BY <1>1, <1>3, <1>4, PoppedHead
  <2> QED BY <1>3, <2>1, OpKinds
<1>18. ~ (py'.at = "forward" \/ (py'.at = "sync" /\ stream' = << >>))
  BY <1>1, <1>3, <1>4, PoppedNotSync
<1>19. BufferInv'
  BY <1>15, <1>16, <1>17, <1>18 DEF BufferInv
<1> QED BY <1>6, <1>7, <1>14, <1>19 DEF DataInv

-----------------------------------------------------------------------------
(* The data, when a decode thread takes a task and finishes it.             *)

\* While a task is outstanding, its wait is at the head or nothing is.
LEMMA HeadIsWait ==
  ASSUME Typed, StreamInv, NEW l, NEW q, NEW t, Outstanding(l, q, t)
  PROVE  /\ \A m, r, u : ~ AtHead(Enqueue(m, r, u)) /\ ~ AtHead(CopyOut(m, r, u))
                         /\ ~ AtHead(Merge(m, r, u))
         /\ ~ (py.at = "forward" \/ (py.at = "sync" /\ stream = << >>))
<1>1. \A m, r, u : /\ Enqueue(m, r, u).op = "enqueue" /\ CopyOut(m, r, u).op = "h2d"
                   /\ Merge(m, r, u).op = "merge" /\ Wait(m, r, u).op = "wait"
  BY OpKinds
<1>2. \A m, r, u : ~ AtHead(Enqueue(m, r, u)) /\ ~ AtHead(CopyOut(m, r, u))
                   /\ ~ AtHead(Merge(m, r, u))
  BY <1>1 DEF Outstanding, AtHead
<1>3. ~ (py.at = "forward" \/ (py.at = "sync" /\ stream = << >>))
  BY DEF Outstanding, StreamInv
<1> QED BY <1>2, <1>3

LEMMA TakeTaskData ==
  ASSUME DecodeInv, DataInv, NEW l \in Layers, TakeTask(l)
  PROVE  DataInv'
<1>1. Typed /\ StreamInv /\ TaskInv /\ FreshInv /\ PendingInv /\ BufferInv /\ MergeInv /\ ResultInv
  BY DEF DecodeInv, DataInv
<1>2. PICK e : e = Head(queue[l])
  OBVIOUS
<1>3. /\ thread[l].at = "idle" /\ queue[l] # << >>
      /\ thread' = [thread EXCEPT ![l] = [at |-> "forward", tag |-> e.tag, slot |-> e.slot,
                                          seen |-> host[l][e.slot].input]]
      /\ UNCHANGED <<py, pending, stream, host, task, done, output, result, exit>>
  BY <1>2 DEF TakeTask
<1>4. PICK q \in Qlens, t \in Tag :
        queue[l] = <<[tag |-> t, slot |-> q]>> /\ Outstanding(l, q, t)
  BY <1>1, <1>3 DEF TaskInv
<1>5. e.slot = q
  <2>1. e = [tag |-> t, slot |-> q]
    BY <1>2, <1>4
  <2> QED BY <2>1
<1>6. thread'[l].seen = t
  <2>1. thread \in [Layers -> ThreadState] /\ host[l][q].input = t
    BY <1>1, <1>4 DEF Typed, BufferInv
  <2>2. thread'[l].seen = host[l][q].input
    BY <1>3, <1>5, <2>1
  <2> QED BY <2>1, <2>2
<1>7. \A u : Launched(u)' => Launched(u)
  BY <1>3 DEF Launched, Outstanding, EnqueueAt
<1>8. BehindKept
  BY <1>3, <1>7 DEF BehindKept, Before, Past
<1>9. ResultInv' /\ MergeInv' /\ PendingInv'
  BY <1>1, <1>3, <1>7, <1>8, ResultKept, MergeKept, QuietPending
<1>10. \A m, r, u : Outstanding(m, r, u)' <=> Outstanding(m, r, u)
  BY <1>3 DEF Outstanding
<1>11. \A m, r, u : ~ AtHead(Enqueue(m, r, u))' /\ ~ AtHead(CopyOut(m, r, u))'
                    /\ ~ AtHead(Merge(m, r, u))'
  <2>1. \A m, r, u : ~ AtHead(Enqueue(m, r, u)) /\ ~ AtHead(CopyOut(m, r, u))
                     /\ ~ AtHead(Merge(m, r, u))
    BY <1>1, <1>4, HeadIsWait
  <2> QED BY <1>3, <2>1 DEF AtHead
<1>12. ~ (py'.at = "forward" \/ (py'.at = "sync" /\ stream' = << >>))
  BY <1>1, <1>3, <1>4, HeadIsWait
<1>13. ASSUME NEW m \in Layers, NEW r \in Qlens, NEW u \in Tag, Outstanding(m, r, u)'
       PROVE  /\ host'[m][r].input = u
              /\ thread'[m].at = "forward" => thread'[m].seen = u
              /\ u \in done' => host'[m][r].output = u
  <2>1. m = l /\ r = q /\ u = t
    BY <1>1, <1>4, <1>10, <1>13, OneOutstanding
  <2> QED BY <1>1, <1>3, <1>4, <1>6, <2>1 DEF BufferInv
<1>14. BufferInv'
  BY <1>11, <1>12, <1>13 DEF BufferInv
<1> QED BY <1>9, <1>14 DEF DataInv

LEMMA FinishTaskData ==
  ASSUME DecodeInv, DataInv, NEW l \in Layers, FinishTask(l)
  PROVE  DataInv'
<1>1. Typed /\ StreamInv /\ TaskInv /\ FreshInv /\ PendingInv /\ BufferInv /\ MergeInv /\ ResultInv
  BY DEF DecodeInv, DataInv
<1>2. PICK q \in Qlens, t \in Tag :
           /\ thread[l].tag = t /\ thread[l].slot = q /\ Outstanding(l, q, t)
           /\ t \notin done /\ done' = done \cup {t}
           /\ host' = [host EXCEPT ![l][q].output =
                IF host[l][q].input = thread[l].seen THEN thread[l].seen ELSE None]
           /\ thread' = [thread EXCEPT ![l] = Idle]
           /\ \A u : Launched(u)' => Launched(u)
  BY FinishTaskDone
<1>3. /\ thread[l].at = "forward"
      /\ UNCHANGED <<py, pending, stream, task, queue, output, result, exit>>
  BY DEF FinishTask
<1>4. host[l][q].input = t /\ thread[l].seen = t
  BY <1>1, <1>2, <1>3 DEF BufferInv
<1>5. host'[l][q].input = t /\ host'[l][q].output = t
  <2>1. host \in [Layers -> [Slots -> Buffers]] /\ q \in Slots
    BY <1>1 DEF Typed, Slots
  <2>2. host' = [host EXCEPT ![l][q].output = t]
    BY <1>2, <1>4
  <2> QED BY <1>4, <2>1, <2>2, BufferRead
<1>6. thread'[l].at = "idle"
  BY <1>1, <1>2 DEF Typed, Idle
<1>7. BehindKept
  BY <1>2, <1>3 DEF BehindKept, Before, Past
<1>8. MergeInv' /\ PendingInv'
  BY <1>1, <1>2, <1>3, <1>7, MergeKept, QuietPending
<1>9. Launched(t)
  BY <1>2 DEF Launched
<1>10. ResultInv'
  <2> SUFFICES ASSUME NEW s \in Steps, NEW m \in Layers, result'[s][m] # {}
               PROVE  /\ Past(s, m)'
                      /\ (Before(s, m) \in done' \/ ~ Launched(Before(s, m))')
                      /\ result'[s][m] = {<<s, m, "now">>} \cup (done' \cap {Before(s, m)})
    BY DEF ResultInv, Before
  <2>1. /\ Past(s, m)
        /\ (Before(s, m) \in done \/ ~ Launched(Before(s, m)))
        /\ result[s][m] = {<<s, m, "now">>} \cup (done \cap {Before(s, m)})
    BY <1>1, <1>3 DEF ResultInv
  <2>2. Before(s, m) # t
    BY <1>2, <1>9, <2>1
  <2>3. done' \cap {Before(s, m)} = done \cap {Before(s, m)}
    BY <1>2, <2>2
  <2> QED BY <1>2, <1>3, <1>7, <2>1, <2>3 DEF BehindKept
<1>11. \A m, r, u : Outstanding(m, r, u)' <=> Outstanding(m, r, u)
  BY <1>3 DEF Outstanding
<1>12. \A m, r, u : ~ AtHead(Enqueue(m, r, u))' /\ ~ AtHead(CopyOut(m, r, u))'
                    /\ ~ AtHead(Merge(m, r, u))'
  <2>1. \A m, r, u : ~ AtHead(Enqueue(m, r, u)) /\ ~ AtHead(CopyOut(m, r, u))
                     /\ ~ AtHead(Merge(m, r, u))
    BY <1>1, <1>2, HeadIsWait
  <2> QED BY <1>3, <2>1 DEF AtHead
<1>13. ~ (py'.at = "forward" \/ (py'.at = "sync" /\ stream' = << >>))
  BY <1>1, <1>2, <1>3, HeadIsWait
<1>14. ASSUME NEW m \in Layers, NEW r \in Qlens, NEW u \in Tag, Outstanding(m, r, u)'
       PROVE  /\ host'[m][r].input = u
              /\ thread'[m].at = "forward" => thread'[m].seen = u
              /\ u \in done' => host'[m][r].output = u
  <2>1. m = l /\ r = q /\ u = t
    BY <1>1, <1>2, <1>11, <1>14, OneOutstanding
  <2> QED BY <1>5, <1>6, <2>1
<1>15. BufferInv'
  BY <1>12, <1>13, <1>14 DEF BufferInv
<1> QED BY <1>8, <1>10, <1>15 DEF DataInv

-----------------------------------------------------------------------------
LEMMA DataInit ==
  ASSUME Init
  PROVE  DataInv
<1>1. /\ py.at = "step" /\ py.prev = {} /\ pending = {} /\ stream = << >>
      /\ result = [s \in Steps |-> [l \in Layers |-> {}]]
  BY DEF Init
<1>2. PendingInv
  BY <1>1 DEF PendingInv
<1>3. \A l, q, t : ~ Outstanding(l, q, t)
  BY <1>1 DEF Outstanding
<1>4. \A e : ~ AtHead(e)
  BY <1>1 DEF AtHead
<1>5. BufferInv
  BY <1>1, <1>3, <1>4 DEF BufferInv
<1>6. MergeInv
  BY <1>1 DEF MergeInv
<1>7. ResultInv
  BY <1>1 DEF ResultInv
<1> QED BY <1>2, <1>5, <1>6, <1>7 DEF DataInv

LEMMA DataStep ==
  ASSUME num_hidden_layers = NumLayers, DecodeInv, DataInv, [Next]_vars
  PROVE  DataInv'
<1>1. CASE \E q \in Qlens, sync \in SyncSteps : StartStep(q, sync)
  BY <1>1, StartStepData
<1>2. CASE PyStep
  BY <1>2, LayerCallData, SyncCallData, SyncForwardData, SyncReturnData DEF PyStep
<1>3. CASE StreamStep
  BY <1>3, StreamCopyInData, StreamEnqueueData, StreamWaitData, StreamCopyOutData,
     StreamMergeData DEF StreamStep
<1>4. ASSUME NEW l \in Layers, Destroy(l)
      PROVE  DataInv'
  BY <1>4, QuietData DEF Destroy
<1>5. ASSUME NEW l \in Layers, ExitThread(l)
      PROVE  DataInv'
  <2>1. thread \in [Layers -> ThreadState]
    BY DEF DecodeInv, Typed
  <2>2. /\ thread' = [thread EXCEPT ![l].at = "exited"]
        /\ UNCHANGED <<py, pending, stream, host, done, output, result>>
    BY <1>5 DEF ExitThread
  <2>3. \A m \in Layers : thread'[m].at = "forward" =>
          (thread[m].at = "forward" /\ thread'[m].seen = thread[m].seen)
    BY <2>1, <2>2 DEF ThreadState
  <2> QED BY <2>2, <2>3, QuietData
<1>6. CASE \E l \in Layers : ThreadStep(l)
  BY <1>5, <1>6, TakeTaskData, FinishTaskData DEF ThreadStep
<1>7. CASE UNCHANGED vars
  BY <1>7, QuietData DEF vars
<1> QED BY <1>1, <1>2, <1>3, <1>4, <1>6, <1>7 DEF Next

\* ResultsRight, for a model whose last layer has an LK MOE: every result sums up
\* the layer's own call and the deferred call of the layer before it, if there is
\* one, each computed from its own inputs.
THEOREM DecodeResultsRight ==
  ASSUME num_hidden_layers = NumLayers
  PROVE  Spec => []ResultsRight
<1>1. Init => (DecodeInv /\ DataInv)
  BY DecodeInit, DataInit
<1>2. (DecodeInv /\ DataInv) /\ [Next]_vars => (DecodeInv /\ DataInv)'
  BY DecodeStep, DataStep
<1>3. (DecodeInv /\ DataInv) => ResultsRight
  BY DEF DataInv, ResultInv, ResultsRight, Before
<1> QED BY <1>1, <1>2, <1>3, PTL DEF Spec
=============================================================================
