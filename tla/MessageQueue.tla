---------------------------- MODULE MessageQueue ----------------------------
(***************************************************************************)
(* MessageQueue of shm_broadcast.py: enqueue and dequeue on top of the ring *)
(* of module ShmRing. A message too large for a chunk travels over the      *)
(* local_socket and its chunk only says so; a reader that finds nothing     *)
(* spins and then sleeps in SpinCondition.wait until it is notified,        *)
(* cancelled or its poll times out; remote readers have a socket alone.     *)
(*                                                                          *)
(* The sockets are external (ZeroMQ): the data sockets are FIFO and below   *)
(* their high-water mark; the notify socket keeps at most one notification  *)
(* per reader (CONFLATE) and may drop it (SNDHWM of 1). wait_until_ready    *)
(* is a barrier and has passed in the initial state.                        *)
(***************************************************************************)
EXTENDS ShmRing, Sequences

CONSTANTS
  n_remote_reader,  \* readers that are not on the writer's node
  Timeouts          \* where the timeout of a dequeue may expire: "read", while
                    \* it waits for a chunk, and "recv", while it waits for the
                    \* body of an oversized message ({} for timeout=None)

ASSUME QueueAssumption == n_remote_reader \in Nat /\ Timeouts \subseteq {"read", "recv"}

VARIABLES
  oversized,      \* the messages that do not fit into a chunk
  e_pc,           \* where the writer is in enqueue, once the chunk is published
  d_pc,           \* where each local reader is in dequeue
  local_socket,   \* message bodies sent and not yet received, per local reader
  remote_socket,  \* likewise per remote reader
  notified,       \* a notification waits in the reader's SUB socket
  shutting_down,  \* MessageQueue.shutting_down of each local reader
  cancelled,      \* a ping waits in the reader's cancel socket (never received)
  got             \* what dequeue has returned to each reader, in order

q_vars == <<oversized, e_pc, d_pc, local_socket, remote_socket, notified,
            shutting_down, cancelled, got>>
mq_vars == <<ring_vars, q_vars>>

RemoteReaders == (n_reader + 1) .. (n_reader + n_remote_reader)
AllReaders == Readers \cup RemoteReaders

Init ==
  /\ RingInit
  /\ oversized \in SUBSET (1 .. MaxMsgs)
  /\ e_pc = "idle"
  /\ d_pc = [r \in Readers |-> "ring"]
  /\ local_socket = [r \in Readers |-> << >>]
  /\ remote_socket = [r \in RemoteReaders |-> << >>]
  /\ notified = [r \in Readers |-> FALSE]
  /\ shutting_down = [r \in Readers |-> FALSE]
  /\ cancelled = [r \in Readers |-> FALSE]
  /\ got = [r \in AllReaders |-> << >>]

-----------------------------------------------------------------------------
(* enqueue.                                                                 *)

\* The writer is inside acquire_write.
EnqueueRing ==
  /\ e_pc = "idle" /\ WriterStep
  /\ e_pc' = CASE sent' = sent -> "idle"
               [] sent' # sent /\ sent' \in oversized -> "send"
               [] OTHER -> "notify"
  /\ UNCHANGED <<oversized, d_pc, local_socket, remote_socket, notified,
                 shutting_down, cancelled, got>>

\* Mutant: a later body overtakes the earlier ones in the socket.
SendLocal_Lifo ==
  /\ e_pc = "send"
  /\ local_socket' = [r \in Readers |-> <<sent>> \o local_socket[r]]
  /\ e_pc' = "notify"
  /\ UNCHANGED <<ring_vars, oversized, d_pc, remote_socket, notified,
                 shutting_down, cancelled, got>>

\* local_socket.send_multipart of the body the chunk announced.
SendLocal ==
  /\ e_pc = "send"
  /\ local_socket' = [r \in Readers |-> Append(local_socket[r], sent)]
  /\ e_pc' = "notify"
  /\ UNCHANGED <<ring_vars, oversized, d_pc, remote_socket, notified,
                 shutting_down, cancelled, got>>

\* SpinCondition.notify: the PUB socket drops what its high-water mark of 1
\* does not let through.
Notify ==
  /\ e_pc = "notify"
  /\ \E lost \in SUBSET Readers :
       notified' = [r \in Readers |-> notified[r] \/ r \notin lost]
  /\ e_pc' = IF n_remote_reader > 0 THEN "remote" ELSE "idle"
  /\ UNCHANGED <<ring_vars, oversized, d_pc, local_socket, remote_socket,
                 shutting_down, cancelled, got>>

SendRemote ==
  /\ e_pc = "remote"
  /\ remote_socket' = [r \in RemoteReaders |-> Append(remote_socket[r], sent)]
  /\ e_pc' = "idle"
  /\ UNCHANGED <<ring_vars, oversized, d_pc, local_socket, notified,
                 shutting_down, cancelled, got>>

-----------------------------------------------------------------------------
(* dequeue of a local reader, which its process calls again and again.      *)

\* The steps of acquire_read outside SpinCondition.wait and before the chunk
\* is released.
DequeueRing(r) ==
  /\ d_pc[r] = "ring"
  /\ AcquireRead(r) \/ LoadReadFlag(r) \/ LoadWrittenFlag(r) \/ ReadBody(r)
  /\ UNCHANGED q_vars

\* Mutant: the flag that announces an oversized message is not looked at.
DequeueRelease_NoOverflow(r) ==
  /\ d_pc[r] = "ring" /\ MarkRead(r)
  /\ got' = [got EXCEPT ![r] =
                IF r_buf[r] \in oversized /\ local_socket[r] # << >>
                THEN Append(@, Head(local_socket[r])) ELSE @]
  /\ UNCHANGED <<oversized, e_pc, d_pc, local_socket, remote_socket, notified,
                 shutting_down, cancelled>>

\* The chunk is marked as read. The message in it is the result, unless the
\* chunk only announces an oversized one.
DequeueRelease(r) ==
  /\ d_pc[r] = "ring" /\ MarkRead(r)
  /\ IF r_buf[r] \in oversized
     THEN d_pc' = [d_pc EXCEPT ![r] = "recv"] /\ UNCHANGED got
     ELSE got' = [got EXCEPT ![r] = Append(@, r_buf[r])] /\ UNCHANGED d_pc
  /\ UNCHANGED <<oversized, e_pc, local_socket, remote_socket, notified,
                 shutting_down, cancelled>>

\* MessageQueue.recv on the local socket.
RecvLocal(r) ==
  /\ d_pc[r] = "recv" /\ local_socket[r] # << >>
  /\ got' = [got EXCEPT ![r] = Append(@, Head(local_socket[r]))]
  /\ local_socket' = [local_socket EXCEPT ![r] = Tail(@)]
  /\ d_pc' = [d_pc EXCEPT ![r] = "ring"]
  /\ UNCHANGED <<ring_vars, oversized, e_pc, remote_socket, notified,
                 shutting_down, cancelled>>

\* recv raises TimeoutError: the body has not arrived in time.
RecvTimeout(r) ==
  /\ "recv" \in Timeouts
  /\ d_pc[r] = "recv" /\ local_socket[r] = << >>
  /\ d_pc' = [d_pc EXCEPT ![r] = "ring"]
  /\ UNCHANGED <<ring_vars, oversized, e_pc, local_socket, remote_socket,
                 notified, shutting_down, cancelled, got>>

\* acquire_read raises TimeoutError: its deadline has passed.
ReadTimeout(r) ==
  /\ "read" \in Timeouts
  /\ d_pc[r] = "ring" /\ GiveUp(r)
  /\ UNCHANGED q_vars

\* Mutant: the loop of acquire_read goes on without a look at shutting_down.
Woken_Uncancelled(r) == Recheck(r) /\ d_pc' = [d_pc EXCEPT ![r] = "ring"]

\* The result of SpinCondition.wait in acquire_read.
Woken(r) ==
  IF shutting_down[r]
  THEN GiveUp(r) /\ d_pc' = [d_pc EXCEPT ![r] = "stopped"]
  ELSE Recheck(r) /\ d_pc' = [d_pc EXCEPT ![r] = "ring"]

\* wait within busy_loop_s of the last read: it only yields.
SpinYield(r) ==
  /\ d_pc[r] = "ring" /\ Woken(r)
  /\ UNCHANGED <<oversized, e_pc, local_socket, remote_socket, notified,
                 shutting_down, cancelled, got>>

\* wait after busy_loop_s: the reader polls its two sockets.
Park(r) ==
  /\ d_pc[r] = "ring" /\ r_pc[r] = "wait"
  /\ d_pc' = [d_pc EXCEPT ![r] = "parked"]
  /\ UNCHANGED <<ring_vars, oversized, e_pc, local_socket, remote_socket,
                 notified, shutting_down, cancelled, got>>

\* The poll returns. A cancel ping comes first and stays in its socket, a
\* notification is received.
PollEvent(r) ==
  /\ d_pc[r] = "parked" /\ (cancelled[r] \/ notified[r]) /\ Woken(r)
  /\ notified' = [notified EXCEPT ![r] = cancelled[r] /\ @]
  /\ UNCHANGED <<oversized, e_pc, local_socket, remote_socket,
                 shutting_down, cancelled, got>>

\* Mutant: the poll has no recheck interval.
PollTimeout_Never(r) ==
  /\ d_pc[r] = "parked" /\ FALSE /\ Woken(r)
  /\ UNCHANGED q_vars

\* The poll times out, after SHM_READER_RECHECK_INTERVAL_MS at the latest.
PollTimeout(r) ==
  /\ d_pc[r] = "parked" /\ ~ (cancelled[r] \/ notified[r]) /\ Woken(r)
  /\ UNCHANGED <<oversized, e_pc, local_socket, remote_socket, notified,
                 shutting_down, cancelled, got>>

\* shutdown(), called by another thread of the reader's process, sets the flag
\* and then pings the cancel socket.
Shutdown(r) ==
  /\ ~ shutting_down[r]
  /\ shutting_down' = [shutting_down EXCEPT ![r] = TRUE]
  /\ UNCHANGED <<ring_vars, oversized, e_pc, d_pc, local_socket, remote_socket,
                 notified, cancelled, got>>

Cancel(r) ==
  /\ shutting_down[r] /\ ~ cancelled[r]
  /\ cancelled' = [cancelled EXCEPT ![r] = TRUE]
  /\ UNCHANGED <<ring_vars, oversized, e_pc, d_pc, local_socket, remote_socket,
                 notified, shutting_down, got>>

\* dequeue of a remote reader.
RecvRemote(r) ==
  /\ remote_socket[r] # << >>
  /\ got' = [got EXCEPT ![r] = Append(@, Head(remote_socket[r]))]
  /\ remote_socket' = [remote_socket EXCEPT ![r] = Tail(@)]
  /\ UNCHANGED <<ring_vars, oversized, e_pc, d_pc, local_socket, notified,
                 shutting_down, cancelled>>

-----------------------------------------------------------------------------
\* enqueue, once its chunk is free, runs to its end by itself.
EnqueueStep == EnqueueRing \/ SendLocal \/ Notify \/ SendRemote

DequeueStep(r) ==
  \/ DequeueRing(r) \/ DequeueRelease(r) \/ RecvLocal(r)
  \/ ReadTimeout(r) \/ SpinYield(r) \/ Park(r) \/ PollEvent(r) \/ PollTimeout(r)

Next ==
  \/ EnqueueStep
  \/ \E r \in Readers : DequeueStep(r) \/ Shutdown(r) \/ Cancel(r)
  \/ \E r \in RemoteReaders : RecvRemote(r)

\* A reader's process calls dequeue in a loop and every call runs on until it
\* returns or raises; timeouts are positive, so calls that find nothing do not
\* all time out before their first wait (the strong fairness); what the writer
\* has begun to send it finishes sending.
Fairness ==
  /\ WF_mq_vars(SendLocal \/ Notify \/ SendRemote)
  /\ \A r \in Readers :
       WF_mq_vars(DequeueStep(r)) /\ SF_mq_vars(SpinYield(r) \/ Park(r))
  /\ \A r \in RemoteReaders : WF_mq_vars(RecvRemote(r))

Spec == Init /\ [][Next]_mq_vars
LiveSpec == Spec /\ Fairness

\* The queue when the timeout of a dequeue may also strike in recv.
TimeoutSpec == Init /\ [][Next \/ \E r \in Readers : RecvTimeout(r)]_mq_vars

-----------------------------------------------------------------------------
(* Properties.                                                              *)

\* The broadcast that the queue implements: what is published is what
\* acquire_write has published, what is got is what dequeue has returned.
Abstract == INSTANCE BroadcastSpec WITH
  AllReaders <- AllReaders, Bounded <- Readers, Capacity <- max_chunks + 1,
  published <- sent, got <- got

\* Through the ring and the socket together, dequeue returns to every reader
\* the messages of enqueue in order and without loss or repetition, and the
\* writer is held back by a local reader that is max_chunks + 1 behind (the
\* chunks of the ring and the one whose body is awaited).
ImplementsBroadcast == Abstract!Spec

\* While a reader waits in recv, the head of its socket, if anything, is the
\* body the chunk announced.
AnnouncedBodyIsNext ==
  \A r \in Readers :
    d_pc[r] = "recv" /\ local_socket[r] # << >> =>
      Head(local_socket[r]) = consumed[r]

\* A published message is returned by a dequeue of every reader, or that
\* reader has been shut down, though notifications may be lost while it sleeps.
EveryMessageDelivered ==
  \A r \in AllReaders, k \in 1 .. MaxMsgs :
    (sent >= k) ~> (Len(got[r]) >= k \/ (r \in Readers /\ shutting_down[r]))

\* A reader that is told to shut down stops reading, also when it sleeps.
ShutdownStops ==
  \A r \in Readers : shutting_down[r] ~> d_pc[r] = "stopped"
=============================================================================
