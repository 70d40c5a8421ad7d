------------------------------ MODULE ShmRing ------------------------------
(***************************************************************************)
(* The shared-memory ring of shm_broadcast.py (ShmRingBuffer with           *)
(* MessageQueue.acquire_write and acquire_read): one writer broadcasts to   *)
(* the local readers through max_chunks chunks, and nothing but a written   *)
(* flag and one read flag per reader on every chunk synchronises them.      *)
(* Every access to the shared segment that another process can observe is   *)
(* a step of its own. The fences of the code make those accesses            *)
(* sequentially consistent.                                                 *)
(*                                                                          *)
(* Messages are numbered 1, 2, ... in the order of the acquire_write calls  *)
(* that publish them. `sent` and `consumed` are history: the code keeps the *)
(* two indices only.                                                        *)
(***************************************************************************)
EXTENDS Integers

CONSTANTS n_reader,    \* number of local readers
          max_chunks,  \* chunks in the ring
          MaxMsgs      \* bound on the messages published

ASSUME RingAssumption ==
  /\ n_reader \in Nat \ {0}
  /\ max_chunks \in Nat \ {0}
  /\ MaxMsgs \in Nat

VARIABLES
  written,   \* metadata_buffer[0] of each chunk
  read,      \* metadata_buffer[1 + rank] of each chunk
  data,      \* the message in each chunk, or Torn while it is being written
  w_pc,      \* where the writer is in acquire_write
  w_idx,     \* the writer's current_idx
  w_i,       \* the loop variable that resets the read flags
  sent,      \* messages published so far
  r_pc,      \* where each reader is in acquire_read
  r_idx,     \* each reader's current_idx
  r_buf,     \* what the caller of acquire_read took from the chunk
  consumed   \* chunks each reader has marked as read

w_vars == <<w_pc, w_idx, w_i, sent>>
r_vars == <<r_pc, r_idx, r_buf, consumed>>
ring_vars == <<written, read, data, w_vars, r_vars>>

Readers == 1 .. n_reader
Chunks == 0 .. (max_chunks - 1)
Torn == -1
WriterPC == {"idle", "check", "mark", "write", "reset", "publish"}
ReaderPC == {"idle", "flag", "written", "wait", "reading", "done"}

\* Mutant: the index never wraps around.
Advance_NoWrap(idx) == idx + 1

\* (current_idx + 1) % max_chunks, for an index of the ring
Advance(idx) == IF idx + 1 = max_chunks THEN 0 ELSE idx + 1

RingInit ==
  /\ written = [c \in Chunks |-> FALSE]
  /\ read = [c \in Chunks |-> [r \in Readers |-> FALSE]]
  /\ data = [c \in Chunks |-> 0]
  /\ w_pc = "idle" /\ w_idx = 0 /\ w_i = 1 /\ sent = 0
  /\ r_pc = [r \in Readers |-> "idle"]
  /\ r_idx = [r \in Readers |-> 0]
  /\ r_buf = [r \in Readers |-> 0]
  /\ consumed = [r \in Readers |-> 0]

-----------------------------------------------------------------------------
(* The writer.                                                              *)

\* Mutant: a chunk some reader has read is taken for free.
WriterCanWrite_AnyReader == ~ written[w_idx] \/ \E r \in Readers : read[w_idx][r]

\* check() of acquire_write. Only readers raise the read flags, and only the
\* writer resets them, so summing them one by one or at once gives the same.
WriterCanWrite == ~ written[w_idx] \/ \A r \in Readers : read[w_idx][r]

AcquireWrite ==
  /\ w_pc = "idle" /\ sent < MaxMsgs
  /\ w_pc' = "check"
  /\ UNCHANGED <<written, read, data, w_idx, w_i, sent, r_vars>>

WriteCheck ==
  /\ w_pc = "check" /\ WriterCanWrite
  /\ w_pc' = "mark"
  /\ UNCHANGED <<written, read, data, w_idx, w_i, sent, r_vars>>

\* The chunk is still unread when the caller's timeout has passed.
WriteTimeout ==
  /\ w_pc = "check" /\ ~ WriterCanWrite
  /\ w_pc' = "idle"
  /\ UNCHANGED <<written, read, data, w_idx, w_i, sent, r_vars>>

MarkUnwritten ==
  /\ w_pc = "mark"
  /\ written' = [written EXCEPT ![w_idx] = FALSE]
  /\ w_pc' = "write"
  /\ UNCHANGED <<read, data, w_idx, w_i, sent, r_vars>>

\* The caller starts to overwrite the chunk, which reads as garbage until it
\* has finished.
BeginBody ==
  /\ w_pc = "write" /\ data[w_idx] # Torn
  /\ data' = [data EXCEPT ![w_idx] = Torn]
  /\ UNCHANGED <<written, read, w_vars, r_vars>>

EndBody ==
  /\ w_pc = "write" /\ data[w_idx] = Torn
  /\ data' = [data EXCEPT ![w_idx] = sent + 1]
  /\ w_pc' = "reset" /\ w_i' = 1
  /\ UNCHANGED <<written, read, w_idx, sent, r_vars>>

\* The caller raises inside the with block: the rest of acquire_write is not
\* run, the chunk stays unwritten and is taken again by the next call.
BodyRaises ==
  /\ w_pc = "write"
  /\ w_pc' = "idle"
  /\ UNCHANGED <<written, read, data, w_idx, w_i, sent, r_vars>>

ResetReadFlag ==
  /\ w_pc = "reset"
  /\ read' = [read EXCEPT ![w_idx][w_i] = FALSE]
  /\ w_i' = w_i + 1
  /\ w_pc' = IF w_i = n_reader THEN "publish" ELSE "reset"
  /\ UNCHANGED <<written, data, w_idx, sent, r_vars>>

Publish ==
  /\ w_pc = "publish"
  /\ written' = [written EXCEPT ![w_idx] = TRUE]
  /\ w_idx' = Advance(w_idx)
  /\ sent' = sent + 1
  /\ w_pc' = "idle"
  /\ UNCHANGED <<read, data, w_i, r_vars>>

-----------------------------------------------------------------------------
(* The readers. check() of acquire_read loads the reader's own flag and     *)
(* then the written flag: two loads, between which the writer may move.     *)

AcquireRead(r) ==
  /\ r_pc[r] = "idle"
  /\ r_pc' = [r_pc EXCEPT ![r] = "flag"]
  /\ UNCHANGED <<written, read, data, w_vars, r_idx, r_buf, consumed>>

LoadReadFlag(r) ==
  /\ r_pc[r] = "flag"
  /\ r_pc' = [r_pc EXCEPT ![r] = IF read[r_idx[r]][r] THEN "wait" ELSE "written"]
  /\ UNCHANGED <<written, read, data, w_vars, r_idx, r_buf, consumed>>

\* Mutant: the chunk is taken for readable on the reader's own flag alone.
LoadWrittenFlag_Ignored(r) ==
  /\ r_pc[r] = "written"
  /\ r_pc' = [r_pc EXCEPT ![r] = "reading"]
  /\ UNCHANGED <<written, read, data, w_vars, r_idx, r_buf, consumed>>

LoadWrittenFlag(r) ==
  /\ r_pc[r] = "written"
  /\ r_pc' = [r_pc EXCEPT ![r] = IF written[r_idx[r]] THEN "reading" ELSE "wait"]
  /\ UNCHANGED <<written, read, data, w_vars, r_idx, r_buf, consumed>>

\* SpinCondition.wait() has returned and the loop goes round.
Recheck(r) ==
  /\ r_pc[r] = "wait"
  /\ r_pc' = [r_pc EXCEPT ![r] = "flag"]
  /\ UNCHANGED <<written, read, data, w_vars, r_idx, r_buf, consumed>>

\* acquire_read gives up before it has touched the chunk: TimeoutError, or
\* RuntimeError("cancelled") when the queue is shutting down.
GiveUp(r) ==
  /\ r_pc[r] = "wait"
  /\ r_pc' = [r_pc EXCEPT ![r] = "idle"]
  /\ UNCHANGED <<written, read, data, w_vars, r_idx, r_buf, consumed>>

ReadBody(r) ==
  /\ r_pc[r] = "reading"
  /\ r_buf' = [r_buf EXCEPT ![r] = data[r_idx[r]]]
  /\ r_pc' = [r_pc EXCEPT ![r] = "done"]
  /\ UNCHANGED <<written, read, data, w_vars, r_idx, consumed>>

\* The finally block, run also when the caller's body raised.
MarkRead(r) ==
  /\ r_pc[r] = "done"
  /\ read' = [read EXCEPT ![r_idx[r]][r] = TRUE]
  /\ r_idx' = [r_idx EXCEPT ![r] = Advance(r_idx[r])]
  /\ consumed' = [consumed EXCEPT ![r] = consumed[r] + 1]
  /\ r_pc' = [r_pc EXCEPT ![r] = "idle"]
  /\ UNCHANGED <<written, data, w_vars, r_buf>>

-----------------------------------------------------------------------------
WriterStep ==
  \/ AcquireWrite \/ WriteCheck \/ WriteTimeout \/ MarkUnwritten
  \/ BeginBody \/ EndBody \/ BodyRaises \/ ResetReadFlag \/ Publish

ReaderStep(r) ==
  \/ AcquireRead(r) \/ LoadReadFlag(r) \/ LoadWrittenFlag(r) \/ Recheck(r)
  \/ GiveUp(r) \/ ReadBody(r) \/ MarkRead(r)

RingNext == WriterStep \/ \E r \in Readers : ReaderStep(r)

RingSpec == RingInit /\ [][RingNext]_ring_vars

-----------------------------------------------------------------------------
(* Properties.                                                              *)

\* Flags, indices and program counters have the types of the ring's metadata
\* bytes and of the current_idx fields.
RingTypeOK ==
  /\ written \in [Chunks -> BOOLEAN]
  /\ read \in [Chunks -> [Readers -> BOOLEAN]]
  /\ data \in [Chunks -> {Torn} \cup Nat]
  /\ w_pc \in WriterPC
  /\ w_idx \in Chunks
  /\ w_i \in 1 .. (n_reader + 1)
  /\ sent \in 0 .. MaxMsgs
  /\ r_pc \in [Readers -> ReaderPC]
  /\ r_idx \in [Readers -> Chunks]
  /\ r_buf \in [Readers -> {Torn} \cup Nat]
  /\ consumed \in [Readers -> Nat]

\* The k-th chunk a reader takes through acquire_read holds the k-th message
\* the writer published, whole: no message is skipped, repeated, reordered or
\* seen half written, however the unlocked flag accesses interleave.
ReadsInOrder ==
  \A r \in Readers : r_pc[r] = "done" => r_buf[r] = consumed[r] + 1

\* While a reader's caller is inside acquire_read the writer is not inside the
\* same chunk ("cannot write" of cases 2 and 3 in ShmRingBuffer's docstring).
NoOverwriteWhileReading ==
  \A r \in Readers :
    r_pc[r] \in {"reading", "done"} =>
      ~ (r_idx[r] = w_idx /\ w_pc \in {"mark", "write", "reset", "publish"})

\* The writer is never more than a ring ahead of the slowest reader, and no
\* reader is ahead of the writer.
WriterWithinRing ==
  \A r \in Readers : consumed[r] <= sent /\ sent <= consumed[r] + max_chunks

\* A published chunk changes only after every reader has marked it as read.
PublishedUntilReadByAll ==
  [][\A c \in Chunks :
       (written[c] /\ (data'[c] # data[c] \/ ~ written'[c])) =>
          \A r \in Readers : read[c][r]]_ring_vars
=============================================================================
