--------------------------- MODULE ShmRing_proof ---------------------------
(***************************************************************************)
(* The safety of the shared-memory ring, for every number of readers, of    *)
(* chunks and of messages. The inductive invariant places every message:    *)
(* chunk c holds message MsgAt(c), counted from the writer's index, and a   *)
(* reader that is d messages behind the writer stands d chunks behind it.   *)
(***************************************************************************)
EXTENDS ShmRing, TLAPS

\* How many chunks after the writer's current chunk c comes.
Off(c) == IF c >= w_idx THEN c - w_idx ELSE c - w_idx + max_chunks

\* The number of the last message published in c (not positive: none yet).
MsgAt(c) == sent - max_chunks + 1 + Off(c)

Behind(r) == sent - consumed[r]

\* A reader stands as many chunks behind the writer as it is messages behind.
IndexInv ==
  \A r \in Readers :
    /\ Behind(r) \in 0 .. max_chunks
    /\ r_idx[r] = IF Behind(r) <= w_idx THEN w_idx - Behind(r)
                  ELSE w_idx - Behind(r) + max_chunks

\* A written chunk holds its message, and its flags say who has read it.
ChunkInv ==
  /\ \A c \in Chunks : written[c] =>
       /\ MsgAt(c) >= 1
       /\ data[c] = MsgAt(c)
       /\ \A r \in Readers : read[c][r] <=> MsgAt(c) <= consumed[r]
  /\ \A c \in Chunks : c # w_idx /\ MsgAt(c) >= 1 => written[c]

\* The writer touches its chunk only when every reader is done with it.
WriterInv ==
  /\ (w_pc = "mark" \/ ~ written[w_idx]) =>
       \A r \in Readers : MsgAt(w_idx) <= consumed[r]
  /\ w_pc \in {"write", "reset", "publish"} => ~ written[w_idx]
  /\ w_pc \in {"reset", "publish"} => data[w_idx] = sent + 1
  /\ w_pc = "reset" => w_i \in Readers
  /\ w_pc = "reset" => \A r \in Readers : r < w_i => ~ read[w_idx][r]
  /\ w_pc = "publish" => \A r \in Readers : ~ read[w_idx][r]
  /\ w_pc # "idle" => sent < MaxMsgs

\* What a reader has loaded of the flags still holds.
ReaderInv ==
  \A r \in Readers :
    /\ r_pc[r] \in {"written", "reading", "done"} => ~ read[r_idx[r]][r]
    /\ r_pc[r] \in {"reading", "done"} => written[r_idx[r]]
    /\ r_pc[r] = "done" => r_buf[r] = consumed[r] + 1

\* The inductive invariant of RingSpec.
RingInv == RingTypeOK /\ IndexInv /\ ChunkInv /\ WriterInv /\ ReaderInv

-----------------------------------------------------------------------------
\* A chunk that a reader may read, by its two flags, holds the next message of
\* that reader, and the writer is ahead of it.
LEMMA ReaderChunk ==
  ASSUME RingInv, NEW r \in Readers,
         written[r_idx[r]], ~ read[r_idx[r]][r]
  PROVE  /\ Behind(r) >= 1
         /\ MsgAt(r_idx[r]) = consumed[r] + 1
         /\ data[r_idx[r]] = consumed[r] + 1
<1> USE RingAssumption DEF Readers, Chunks
<1>1. /\ r_idx[r] \in Chunks /\ w_idx \in Chunks
      /\ sent \in Nat /\ consumed[r] \in Nat
  BY DEF RingInv, RingTypeOK
<1>2. /\ Behind(r) \in 0 .. max_chunks
      /\ r_idx[r] = IF Behind(r) <= w_idx THEN w_idx - Behind(r)
                    ELSE w_idx - Behind(r) + max_chunks
  BY DEF RingInv, IndexInv
<1>3. MsgAt(r_idx[r]) > consumed[r] /\ data[r_idx[r]] = MsgAt(r_idx[r])
  BY <1>1 DEF RingInv, ChunkInv, MsgAt, Off
<1>4. Behind(r) >= 1
  BY <1>1, <1>2, <1>3 DEF MsgAt, Off, Behind
<1>5. MsgAt(r_idx[r]) = consumed[r] + 1
  BY <1>1, <1>2, <1>4 DEF MsgAt, Off, Behind
<1> QED BY <1>3, <1>4, <1>5

\* A chunk a reader stands on is not one the writer may take, when the reader's
\* flag on it is down and the chunk is written.
LEMMA WriterElsewhere ==
  ASSUME RingInv, NEW r \in Readers,
         written[r_idx[r]], ~ read[r_idx[r]][r],
         w_pc = "mark" \/ ~ written[w_idx]
  PROVE  r_idx[r] # w_idx
<1>1. MsgAt(r_idx[r]) = consumed[r] + 1
  BY ReaderChunk
<1>2. MsgAt(w_idx) <= consumed[r]
  BY DEF RingInv, WriterInv
<1>3. consumed[r] \in Nat
  BY DEF RingInv, RingTypeOK
<1> QED BY <1>1, <1>2, <1>3

LEMMA InitInv == RingInit => RingInv
<1> SUFFICES ASSUME RingInit PROVE RingInv
  OBVIOUS
<1> USE RingAssumption DEF RingInit, Readers, Chunks
<1>1. RingTypeOK
  BY DEF RingTypeOK, Torn, WriterPC, ReaderPC
<1>2. IndexInv
  BY DEF IndexInv, Behind
<1>3. ChunkInv
  BY DEF ChunkInv, MsgAt, Off
<1>4. WriterInv
  BY DEF WriterInv, MsgAt, Off
<1>5. ReaderInv
  BY DEF ReaderInv
<1> QED BY <1>1, <1>2, <1>3, <1>4, <1>5 DEF RingInv

-----------------------------------------------------------------------------
\* The writer's steps preserve the invariant: Publish moves the writer's index
\* and with it the place of every message, the others move no index.
LEMMA WriterStepInv == RingInv /\ WriterStep => RingInv'
<1> SUFFICES ASSUME RingInv, WriterStep PROVE RingInv'
  OBVIOUS
<1> USE RingAssumption DEF Readers, Chunks
<1>0. /\ RingTypeOK /\ IndexInv /\ ChunkInv /\ WriterInv /\ ReaderInv
      /\ w_idx \in Chunks /\ sent \in Nat /\ consumed \in [Readers -> Nat]
  BY DEF RingInv, RingTypeOK
<1>1. CASE AcquireWrite
  <2> USE <1>0, <1>1 DEF AcquireWrite, r_vars
  <2>1. RingTypeOK'
    BY DEF RingTypeOK, WriterPC
  <2>2. IndexInv' /\ ChunkInv'
    BY DEF IndexInv, ChunkInv, Behind, MsgAt, Off
  <2>3. WriterInv' /\ ReaderInv'
    BY DEF WriterInv, ReaderInv, MsgAt, Off
  <2> QED BY <2>1, <2>2, <2>3 DEF RingInv
<1>2. CASE WriteCheck
  <2> USE <1>0, <1>2 DEF WriteCheck, r_vars
  <2>1. RingTypeOK'
    BY DEF RingTypeOK, WriterPC
  <2>2. IndexInv' /\ ChunkInv'
    BY DEF IndexInv, ChunkInv, Behind, MsgAt, Off
  <2>3. \A r \in Readers : MsgAt(w_idx) <= consumed[r]
    BY DEF WriterCanWrite, WriterInv, ChunkInv
  <2>4. WriterInv' /\ ReaderInv'
    BY <2>3 DEF WriterInv, ReaderInv, MsgAt, Off
  <2> QED BY <2>1, <2>2, <2>4 DEF RingInv
<1>3. CASE WriteTimeout
  <2> USE <1>0, <1>3 DEF WriteTimeout, r_vars
  <2>1. RingTypeOK'
    BY DEF RingTypeOK, WriterPC
  <2>2. IndexInv' /\ ChunkInv'
    BY DEF IndexInv, ChunkInv, Behind, MsgAt, Off
  <2>3. WriterInv' /\ ReaderInv'
    BY DEF WriterInv, ReaderInv, MsgAt, Off
  <2> QED BY <2>1, <2>2, <2>3 DEF RingInv
<1>4. CASE MarkUnwritten
  <2> USE <1>0, <1>4 DEF MarkUnwritten, r_vars
  <2>1. RingTypeOK'
    BY DEF RingTypeOK, WriterPC
  <2>2. IndexInv'
    BY DEF IndexInv, Behind
  <2>3. written' = [written EXCEPT ![w_idx] = FALSE] /\ written \in [Chunks -> BOOLEAN]
    BY DEF RingTypeOK
  <2>4. ChunkInv'
    BY <2>3 DEF ChunkInv, MsgAt, Off
  <2>5. WriterInv'
    BY <2>3 DEF WriterInv, MsgAt, Off
  <2>6. ReaderInv'
    BY <2>3, WriterElsewhere DEF ReaderInv
  <2> QED BY <2>1, <2>2, <2>4, <2>5, <2>6 DEF RingInv
<1>5. CASE BeginBody
  <2> USE <1>0, <1>5 DEF BeginBody, r_vars, w_vars
  <2>1. RingTypeOK'
    BY DEF RingTypeOK, Torn
  <2>2. IndexInv' /\ ReaderInv'
    BY DEF IndexInv, ReaderInv, Behind
  <2>3. ~ written[w_idx] /\ data' = [data EXCEPT ![w_idx] = Torn]
        /\ data \in [Chunks -> {Torn} \cup Nat]
    BY DEF RingTypeOK, WriterInv
  <2>4. ChunkInv' /\ WriterInv'
    BY <2>3 DEF ChunkInv, WriterInv, MsgAt, Off
  <2> QED BY <2>1, <2>2, <2>4 DEF RingInv
<1>6. CASE EndBody
  <2> USE <1>0, <1>6 DEF EndBody, r_vars
  <2>1. RingTypeOK'
    BY DEF RingTypeOK, WriterPC
  <2>2. IndexInv' /\ ReaderInv'
    BY DEF IndexInv, ReaderInv, Behind
  <2>3. ~ written[w_idx] /\ data' = [data EXCEPT ![w_idx] = sent + 1]
        /\ data \in [Chunks -> {Torn} \cup Nat]
    BY DEF RingTypeOK, WriterInv
  <2>4. ChunkInv' /\ WriterInv'
    BY <2>3 DEF ChunkInv, WriterInv, MsgAt, Off
  <2> QED BY <2>1, <2>2, <2>4 DEF RingInv
<1>7. CASE BodyRaises
  <2> USE <1>0, <1>7 DEF BodyRaises, r_vars
  <2>1. RingTypeOK'
    BY DEF RingTypeOK, WriterPC
  <2>2. IndexInv' /\ ChunkInv'
    BY DEF IndexInv, ChunkInv, Behind, MsgAt, Off
  <2>3. WriterInv' /\ ReaderInv'
    BY DEF WriterInv, ReaderInv, MsgAt, Off
  <2> QED BY <2>1, <2>2, <2>3 DEF RingInv
<1>8. CASE ResetReadFlag
  <2> USE <1>0, <1>8 DEF ResetReadFlag, r_vars
  <2>0. /\ w_i \in Readers /\ ~ written[w_idx]
        /\ read \in [Chunks -> [Readers -> BOOLEAN]]
        /\ read' = [read EXCEPT ![w_idx][w_i] = FALSE]
    BY DEF RingTypeOK, WriterInv
  <2>a. \A c \in Chunks, r \in Readers :
          read'[c][r] = IF c = w_idx /\ r = w_i THEN FALSE ELSE read[c][r]
    BY <2>0
  <2>1. RingTypeOK'
    BY <2>0 DEF RingTypeOK, WriterPC
  <2>2. IndexInv'
    BY DEF IndexInv, Behind
  <2>3. ChunkInv'
    BY <2>0, <2>a DEF ChunkInv, MsgAt, Off
  <2>4. WriterInv'
    BY <2>0, <2>a DEF WriterInv, MsgAt, Off
  <2>5. ReaderInv'
    <3> r_idx \in [Readers -> Chunks]
      BY DEF RingTypeOK
    <3> QED BY <2>a DEF ReaderInv
  <2> QED BY <2>1, <2>2, <2>3, <2>4, <2>5 DEF RingInv
<1>9. CASE Publish
  <2> USE <1>0, <1>9 DEF Publish, r_vars
  <2>0. /\ sent < MaxMsgs /\ ~ written[w_idx] /\ data[w_idx] = sent + 1
        /\ \A r \in Readers : ~ read[w_idx][r] /\ MsgAt(w_idx) <= consumed[r]
        /\ written \in [Chunks -> BOOLEAN]
        /\ written' = [written EXCEPT ![w_idx] = TRUE]
    BY DEF WriterInv, RingTypeOK
  <2>1. RingTypeOK'
    BY <2>0 DEF RingTypeOK, WriterPC, Advance
  <2>a. MsgAt(w_idx) = sent - max_chunks + 1
    BY DEF MsgAt, Off
  <2>2. IndexInv'
    <3> SUFFICES ASSUME NEW r \in Readers
                 PROVE  /\ Behind(r)' \in 0 .. max_chunks
                        /\ r_idx[r] = IF Behind(r)' <= w_idx' THEN w_idx' - Behind(r)'
                                      ELSE w_idx' - Behind(r)' + max_chunks
      BY DEF IndexInv
    <3>0. consumed[r] \in Nat /\ sent - max_chunks + 1 <= consumed[r]
          /\ Behind(r) \in 0 .. max_chunks
      BY <2>0, <2>a DEF IndexInv
    <3>1. Behind(r) \in 0 .. (max_chunks - 1) /\ Behind(r)' = Behind(r) + 1
      BY <3>0 DEF Behind
    <3>2. r_idx[r] = IF Behind(r) <= w_idx THEN w_idx - Behind(r)
                     ELSE w_idx - Behind(r) + max_chunks
      BY DEF IndexInv
    <3>3. w_idx \in 0 .. (max_chunks - 1)
          /\ w_idx' = IF w_idx + 1 = max_chunks THEN 0 ELSE w_idx + 1
      BY DEF Advance
    <3> HIDE <1>0, <1>9 DEF Publish
    <3> QED BY <3>1, <3>2, <3>3
  <2>3. \A c \in Chunks : MsgAt(c)' = IF c = w_idx THEN sent + 1 ELSE MsgAt(c)
    BY DEF MsgAt, Off, Advance
  <2>b. \A r \in Readers : consumed[r] <= sent
    BY DEF IndexInv, Behind
  <2>c. /\ w_idx' \in Chunks
        /\ \A c \in Chunks : written'[c] <=> (c = w_idx \/ written[c])
        /\ \A c \in Chunks : MsgAt(c) \in Int /\ MsgAt(c)' \in Int
    BY <2>0 DEF Advance, MsgAt, Off
  <2>4. ChunkInv'
    <3> SUFFICES ASSUME NEW c \in Chunks
                 PROVE  /\ written'[c] =>
                             /\ MsgAt(c)' >= 1
                             /\ data'[c] = MsgAt(c)'
                             /\ \A r \in Readers :
                                  read'[c][r] <=> MsgAt(c)' <= consumed'[r]
                        /\ c # w_idx' /\ MsgAt(c)' >= 1 => written'[c]
      BY DEF ChunkInv
    <3>1. CASE c = w_idx
      BY <2>0, <2>3, <2>b, <2>c, <3>1
    <3>2. CASE c # w_idx
      BY <2>3, <2>c, <3>2 DEF ChunkInv
    <3> QED BY <3>1, <3>2
  <2>5. WriterInv'
    <3>1. CASE w_idx' = w_idx
      BY <2>c, <3>1 DEF WriterInv
    <3>2. CASE w_idx' # w_idx
      <4>1. Off(w_idx') = 1
        BY <3>2 DEF Off, Advance
      <4>2. ~ written[w_idx'] => sent - max_chunks + 2 < 1
        BY <2>c, <3>2, <4>1 DEF ChunkInv, MsgAt
      <4>3. Off(w_idx)' = 0
        BY <2>c DEF Off
      <4>4. ~ written'[w_idx'] => \A r \in Readers : MsgAt(w_idx)' <= consumed'[r]
        BY <2>c, <4>2, <4>3 DEF MsgAt
      <4> QED BY <4>4 DEF WriterInv
    <3> QED BY <3>1, <3>2
  <2>6. ReaderInv'
    <3> r_idx \in [Readers -> Chunks]
      BY DEF RingTypeOK
    <3> QED BY <2>0 DEF ReaderInv
  <2> QED BY <2>1, <2>2, <2>4, <2>5, <2>6 DEF RingInv
<1> QED
  BY <1>1, <1>2, <1>3, <1>4, <1>5, <1>6, <1>7, <1>8, <1>9 DEF WriterStep

\* The steps of a reader preserve the invariant: MarkRead moves that reader one
\* message and one chunk further, the others move no index.
LEMMA ReaderStepInv ==
  ASSUME RingInv, NEW q \in Readers, ReaderStep(q)
  PROVE  RingInv'
<1> USE RingAssumption DEF Readers, Chunks
<1>0. /\ RingTypeOK /\ IndexInv /\ ChunkInv /\ WriterInv /\ ReaderInv
      /\ w_idx \in Chunks /\ sent \in Nat /\ consumed \in [Readers -> Nat]
      /\ r_pc \in [Readers -> ReaderPC] /\ r_idx \in [Readers -> Chunks]
  BY DEF RingInv, RingTypeOK
\* The steps that only move the reader's program counter.
<1>1. CASE AcquireRead(q) \/ LoadReadFlag(q) \/ LoadWrittenFlag(q)
           \/ Recheck(q) \/ GiveUp(q)
  <2>1. /\ UNCHANGED <<written, read, data, w_pc, w_idx, w_i, sent, r_idx, r_buf, consumed>>
        /\ r_pc' = [r_pc EXCEPT ![q] = r_pc'[q]]
        /\ r_pc'[q] \in {"idle", "flag", "written", "wait", "reading"}
        /\ r_pc'[q] \in {"written", "reading"} => ~ read[r_idx[q]][q]
        /\ r_pc'[q] = "reading" => written[r_idx[q]]
    BY <1>0, <1>1 DEF AcquireRead, LoadReadFlag, LoadWrittenFlag, Recheck, GiveUp,
                      w_vars, ReaderInv
  <2>2. RingTypeOK'
    BY <1>0, <2>1 DEF RingTypeOK, ReaderPC
  <2>3. IndexInv' /\ ChunkInv' /\ WriterInv'
    BY <1>0, <2>1 DEF IndexInv, ChunkInv, WriterInv, Behind, MsgAt, Off
  <2>4. ReaderInv'
    BY <1>0, <2>1 DEF ReaderInv
  <2> QED BY <2>2, <2>3, <2>4 DEF RingInv
<1>2. CASE ReadBody(q)
  <2> USE <1>0, <1>2 DEF ReadBody, w_vars
  <2>1. data[r_idx[q]] = consumed[q] + 1
    BY ReaderChunk DEF ReaderInv
  <2>2. RingTypeOK'
    BY DEF RingTypeOK, ReaderPC
  <2>3. IndexInv' /\ ChunkInv' /\ WriterInv'
    BY DEF IndexInv, ChunkInv, WriterInv, Behind, MsgAt, Off
  <2>4. ReaderInv'
    <3> r_buf \in [Readers -> {Torn} \cup Nat]
      BY DEF RingTypeOK
    <3> QED BY <2>1 DEF ReaderInv
  <2> QED BY <2>2, <2>3, <2>4 DEF RingInv
<1>3. CASE MarkRead(q)
  <2> USE <1>0, <1>3 DEF MarkRead, w_vars
  <2>1. /\ ~ read[r_idx[q]][q] /\ written[r_idx[q]]
        /\ Behind(q) >= 1 /\ MsgAt(r_idx[q]) = consumed[q] + 1
    BY ReaderChunk DEF ReaderInv
  <2>2. /\ read \in [Chunks -> [Readers -> BOOLEAN]]
        /\ \A c \in Chunks, r \in Readers :
             read'[c][r] = IF c = r_idx[q] /\ r = q THEN TRUE ELSE read[c][r]
    BY DEF RingTypeOK
  <2>3. \A r \in Readers :
          /\ consumed'[r] = IF r = q THEN consumed[q] + 1 ELSE consumed[r]
          /\ r_idx'[r] = IF r = q THEN Advance(r_idx[q]) ELSE r_idx[r]
          /\ r_pc'[r] = IF r = q THEN "idle" ELSE r_pc[r]
    OBVIOUS
  <2>4. RingTypeOK'
    <3>1. Advance(r_idx[q]) \in Chunks
      <4>1. r_idx[q] \in 0 .. (max_chunks - 1)
        OBVIOUS
      <4> HIDE <1>0, <1>3 DEF MarkRead
      <4> QED BY <4>1 DEF Advance
    <3>2. r_idx' \in [Readers -> Chunks] /\ consumed' \in [Readers -> Nat]
      BY <3>1
    <3>3. r_pc' \in [Readers -> ReaderPC]
      BY DEF ReaderPC
    <3>4. read' \in [Chunks -> [Readers -> BOOLEAN]]
      BY <2>2
    <3>5. UNCHANGED <<written, data, w_pc, w_idx, w_i, sent, r_buf>>
      OBVIOUS
    <3> HIDE <1>3 DEF MarkRead
    <3> QED BY <3>2, <3>3, <3>4, <3>5 DEF RingTypeOK
  <2>5. IndexInv'
    <3> SUFFICES ASSUME NEW r \in Readers
                 PROVE  /\ Behind(r)' \in 0 .. max_chunks
                        /\ r_idx'[r] = IF Behind(r)' <= w_idx THEN w_idx - Behind(r)'
                                       ELSE w_idx - Behind(r)' + max_chunks
      BY DEF IndexInv
    <3>1. /\ Behind(r) \in 0 .. max_chunks
          /\ r_idx[r] = IF Behind(r) <= w_idx THEN w_idx - Behind(r)
                        ELSE w_idx - Behind(r) + max_chunks
      BY DEF IndexInv
    <3>2. CASE r # q
      BY <2>3, <3>1, <3>2 DEF Behind
    <3>3. CASE r = q
      <4>1. Behind(q) >= 1 /\ Behind(q)' = Behind(q) - 1
        BY <2>1, <2>3 DEF Behind
      <4>2. r_idx'[q] = IF r_idx[q] + 1 = max_chunks THEN 0 ELSE r_idx[q] + 1
        BY <2>3 DEF Advance
      <4>3. w_idx \in 0 .. (max_chunks - 1)
        OBVIOUS
      <4> HIDE <1>0, <1>3 DEF MarkRead
      <4> QED BY <3>1, <3>3, <4>1, <4>2, <4>3
    <3> QED BY <3>2, <3>3
  <2>6. ChunkInv'
    <3>1. \A c \in Chunks : MsgAt(c)' = MsgAt(c) /\ MsgAt(c) \in Int
      BY DEF MsgAt, Off
    <3>2. \A c \in Chunks : c # r_idx[q] => MsgAt(c) # consumed[q] + 1
      <4> SUFFICES ASSUME NEW c \in Chunks, c # r_idx[q]
                   PROVE  MsgAt(c) # MsgAt(r_idx[q])
        BY <2>1
      <4>1. /\ r_idx[q] \in 0 .. (max_chunks - 1) /\ c \in 0 .. (max_chunks - 1)
            /\ w_idx \in 0 .. (max_chunks - 1) /\ sent \in Int
        OBVIOUS
      <4> HIDE <1>0, <1>3 DEF MarkRead
      <4> QED BY <4>1 DEF MsgAt, Off
    <3> SUFFICES ASSUME NEW c \in Chunks, written[c], NEW r \in Readers
                 PROVE  read'[c][r] <=> MsgAt(c) <= consumed'[r]
      BY <3>1 DEF ChunkInv
    <3>3. read[c][r] <=> MsgAt(c) <= consumed[r]
      BY DEF ChunkInv
    <3>4. CASE r # q
      BY <2>2, <2>3, <3>3, <3>4
    <3>5. CASE r = q /\ c = r_idx[q]
      BY <2>1, <2>2, <2>3, <3>5
    <3>6. CASE r = q /\ c # r_idx[q]
      BY <2>2, <2>3, <3>1, <3>2, <3>3, <3>6
    <3> QED BY <3>4, <3>5, <3>6
  <2>7. WriterInv'
    <3>1. w_pc \in {"mark", "write", "reset", "publish"} => r_idx[q] # w_idx
      BY <2>1, WriterElsewhere DEF WriterInv
    <3>2. MsgAt(w_idx)' = MsgAt(w_idx) /\ MsgAt(w_idx) \in Int
      BY DEF MsgAt, Off
    <3> QED BY <2>2, <2>3, <3>1, <3>2 DEF WriterInv
  <2>8. ReaderInv'
    BY <2>2, <2>3 DEF ReaderInv
  <2> QED BY <2>4, <2>5, <2>6, <2>7, <2>8 DEF RingInv
<1> QED
  BY <1>1, <1>2, <1>3 DEF ReaderStep

\* Every step of the ring preserves the invariant.
LEMMA RingInvStep == RingInv /\ [RingNext]_ring_vars => RingInv'
<1> SUFFICES ASSUME RingInv, [RingNext]_ring_vars PROVE RingInv'
  OBVIOUS
<1>1. CASE WriterStep
  BY <1>1, WriterStepInv
<1>2. CASE \E r \in Readers : ReaderStep(r)
  BY <1>2, ReaderStepInv
<1>3. CASE UNCHANGED ring_vars
  BY <1>3 DEF ring_vars, w_vars, r_vars, RingInv, RingTypeOK, IndexInv, ChunkInv,
              WriterInv, ReaderInv, Behind, MsgAt, Off
<1> QED BY <1>1, <1>2, <1>3 DEF RingNext

-----------------------------------------------------------------------------
\* RingInv holds in every state of the ring, whatever the interleaving of the
\* writer in acquire_write with the readers in acquire_read.
THEOREM RingInvariant == RingSpec => []RingInv
BY InitInv, RingInvStep, PTL DEF RingSpec

\* The ring's flags, indices and counters keep their types.
THEOREM RingTypes == RingSpec => []RingTypeOK
<1>1. RingInv => RingTypeOK
  BY DEF RingInv
<1> QED BY <1>1, RingInvariant, PTL

\* Every reader takes the messages one by one, whole and in the order in which
\* the writer published them, for any number of readers and of chunks.
THEOREM RingReadsInOrder == RingSpec => []ReadsInOrder
<1>1. RingInv => ReadsInOrder
  BY DEF RingInv, ReaderInv, ReadsInOrder
<1> QED BY <1>1, RingInvariant, PTL

\* The writer is never inside a chunk that a reader's caller is reading.
THEOREM RingNoOverwrite == RingSpec => []NoOverwriteWhileReading
<1>1. RingInv => NoOverwriteWhileReading
  <2> SUFFICES ASSUME RingInv, NEW r \in Readers, r_pc[r] \in {"reading", "done"},
                      w_pc \in {"mark", "write", "reset", "publish"}
               PROVE  r_idx[r] # w_idx
    BY DEF NoOverwriteWhileReading
  <2>1. written[r_idx[r]] /\ ~ read[r_idx[r]][r]
    BY DEF RingInv, ReaderInv
  <2>2. w_pc = "mark" \/ ~ written[w_idx]
    BY DEF RingInv, WriterInv
  <2> QED BY <2>1, <2>2, WriterElsewhere
<1> QED BY <1>1, RingInvariant, PTL

\* The writer is at most max_chunks messages ahead of every reader.
THEOREM RingWithinRing == RingSpec => []WriterWithinRing
<1>1. RingInv => WriterWithinRing
  <2> SUFFICES ASSUME RingInv, NEW r \in Readers
               PROVE  consumed[r] <= sent /\ sent <= consumed[r] + max_chunks
    BY DEF WriterWithinRing
  <2>1. /\ Behind(r) \in 0 .. max_chunks
        /\ sent \in Nat /\ consumed[r] \in Nat
    BY DEF RingInv, IndexInv, RingTypeOK
  <2> QED BY <2>1, RingAssumption DEF Behind
<1> QED BY <1>1, RingInvariant, PTL

\* No step overwrites or withdraws a published chunk that some reader has not
\* marked as read.
THEOREM RingPublishedUntilRead == RingSpec => PublishedUntilReadByAll
<1>1. RingInv /\ RingInv' /\ [RingNext]_ring_vars =>
        [\A c \in Chunks :
           (written[c] /\ (data'[c] # data[c] \/ ~ written'[c])) =>
              \A r \in Readers : read[c][r]]_ring_vars
  <2> SUFFICES ASSUME RingInv, RingNext, NEW c \in Chunks, written[c],
                      data'[c] # data[c] \/ ~ written'[c], NEW r \in Readers
               PROVE  read[c][r]
    OBVIOUS
  <2>1. CASE MarkUnwritten
    <3>1. c = w_idx
      BY <2>1 DEF MarkUnwritten, RingInv, RingTypeOK
    <3> QED BY <2>1, <3>1 DEF MarkUnwritten, RingInv, WriterInv, ChunkInv
  <2>2. CASE BeginBody \/ EndBody
    <3>1. c = w_idx /\ w_pc = "write"
      BY <2>2 DEF BeginBody, EndBody, RingInv, RingTypeOK
    <3> QED BY <3>1 DEF RingInv, WriterInv
  <2>3. CASE Publish
    BY <2>3 DEF Publish, RingInv, RingTypeOK
  <2>4. CASE AcquireWrite \/ WriteCheck \/ WriteTimeout \/ BodyRaises \/ ResetReadFlag
    BY <2>4 DEF AcquireWrite, WriteCheck, WriteTimeout, BodyRaises, ResetReadFlag
  <2>5. ASSUME NEW q \in Readers, ReaderStep(q) PROVE FALSE
    BY <2>5 DEF ReaderStep, AcquireRead, LoadReadFlag, LoadWrittenFlag, Recheck, GiveUp,
                ReadBody, MarkRead
  <2> QED BY <2>1, <2>2, <2>3, <2>4, <2>5 DEF RingNext, WriterStep
<1> QED BY <1>1, RingInvariant, PTL DEF RingSpec, PublishedUntilReadByAll
=============================================================================
