------------------------- MODULE MessageQueue_proof -------------------------
(***************************************************************************)
(* MessageQueue implements BroadcastSpec, for every number of readers, of   *)
(* chunks and of messages and every choice of oversized ones. The ring is   *)
(* taken care of by the invariant of ShmRing_proof; what is added here ties *)
(* the sockets to the ring: a reader's socket holds, in order, exactly the  *)
(* oversized messages that dequeue has not returned and the writer has      *)
(* posted.                                                                  *)
(***************************************************************************)
EXTENDS MessageQueue, ShmRing_proof

\* The last message whose body, if it is oversized, is in the local sockets.
Posted == IF e_pc = "send" THEN sent - 1 ELSE sent

\* The last message that has been sent to the remote readers, if there are any.
RemotePosted == IF e_pc = "idle" THEN sent ELSE sent - 1

\* The oversized messages on their way to reader r.
OnTheWay(r) == {k \in oversized : Len(got[r]) < k /\ k <= Posted}

\* s lists S in increasing order.
Lists(s, S) ==
  /\ \A i \in 1 .. Len(s) : s[i] \in S
  /\ \A k \in S : \E i \in 1 .. Len(s) : s[i] = k
  /\ \A i, j \in 1 .. Len(s) : i < j => s[i] < s[j]

QueueTypeOK ==
  /\ oversized \subseteq 1 .. MaxMsgs
  /\ e_pc \in {"idle", "send", "notify", "remote"}
  /\ d_pc \in [Readers -> {"ring", "recv", "parked", "stopped"}]
  /\ local_socket \in [Readers -> Seq(Nat)]
  /\ remote_socket \in [RemoteReaders -> Seq(Nat)]
  /\ got \in [AllReaders -> Seq(Nat)]

\* The writer sends the body of the message it has published last.
EnqueueInv ==
  /\ e_pc = "send" => sent \in oversized
  /\ e_pc # "idle" => sent >= 1

\* dequeue has returned what the reader has taken from the ring, but for an
\* oversized message whose body it waits for, and nothing that is not posted.
DequeueInv ==
  \A r \in Readers :
    /\ Len(got[r]) = IF d_pc[r] = "recv" THEN consumed[r] - 1 ELSE consumed[r]
    /\ d_pc[r] = "recv" => consumed[r] \in oversized
    /\ Len(got[r]) <= Posted

LocalInv == \A r \in Readers : Lists(local_socket[r], OnTheWay(r))

\* A remote reader's socket holds the messages after the last one it got.
RemoteInv ==
  \A r \in RemoteReaders :
    /\ Len(remote_socket[r]) = RemotePosted - Len(got[r])
    /\ \A i \in 1 .. Len(remote_socket[r]) : remote_socket[r][i] = Len(got[r]) + i

\* The inductive invariant of Spec.
QueueInv == RingInv /\ QueueTypeOK /\ EnqueueInv /\ DequeueInv /\ LocalInv /\ RemoteInv

-----------------------------------------------------------------------------
\* A sequence with an element added at its end, or taken from its front.
LEMMA AppendFacts ==
  ASSUME NEW s \in Seq(Nat), NEW n \in Nat
  PROVE  /\ Append(s, n) \in Seq(Nat) /\ Len(s) \in Nat
         /\ Len(Append(s, n)) = Len(s) + 1
         /\ \A i \in 1 .. Len(s) : Append(s, n)[i] = s[i]
         /\ Append(s, n)[Len(s) + 1] = n
OBVIOUS

LEMMA TailFacts ==
  ASSUME NEW s \in Seq(Nat), s # << >>
  PROVE  /\ Tail(s) \in Seq(Nat) /\ Len(s) \in Nat \ {0}
         /\ Len(Tail(s)) = Len(s) - 1
         /\ Head(s) = s[1] /\ Head(s) \in Nat
         /\ \A i \in 1 .. (Len(s) - 1) : Tail(s)[i] = s[i + 1]
OBVIOUS

\* Sending a body that is larger than all on the way keeps the list.
LEMMA ListsAppend ==
  ASSUME NEW s \in Seq(Nat), NEW S, Lists(s, S), NEW n \in Nat, \A k \in S : k < n
  PROVE  Lists(Append(s, n), S \cup {n})
<1> DEFINE t == Append(s, n)
<1>1. /\ Len(t) = Len(s) + 1 /\ Len(s) \in Nat
      /\ \A i \in 1 .. Len(s) : t[i] = s[i]
      /\ t[Len(s) + 1] = n
  OBVIOUS
<1> HIDE DEF t
<1>2. \A i \in 1 .. Len(t) : t[i] \in S \cup {n}
  BY <1>1 DEF Lists
<1>3. \A k \in S \cup {n} : \E i \in 1 .. Len(t) : t[i] = k
  BY <1>1 DEF Lists
<1>4. ASSUME NEW i \in 1 .. Len(t), NEW j \in 1 .. Len(t), i < j
      PROVE  t[i] < t[j]
  <2>1. i \in 1 .. Len(s) /\ t[i] = s[i] /\ s[i] \in S
    BY <1>1, <1>4 DEF Lists
  <2>2. CASE j = Len(s) + 1
    BY <1>1, <2>1, <2>2
  <2>3. CASE j \in 1 .. Len(s)
    BY <1>1, <1>4, <2>1, <2>3 DEF Lists
  <2> QED BY <1>1, <2>2, <2>3
<1> QED BY <1>2, <1>3, <1>4 DEF Lists, t

\* Receiving takes the smallest one off the list.
LEMMA ListsTail ==
  ASSUME NEW s \in Seq(Nat), NEW S, Lists(s, S), s # << >>
  PROVE  /\ Head(s) \in S /\ \A k \in S : Head(s) <= k
         /\ Lists(Tail(s), S \ {Head(s)})
<1> DEFINE t == Tail(s)
<1>1. /\ Len(s) \in Nat \ {0} /\ Len(t) = Len(s) - 1 /\ Head(s) = s[1]
      /\ \A i \in 1 .. Len(t) : t[i] = s[i + 1]
      /\ \A i \in 1 .. Len(s) : s[i] \in Nat
  OBVIOUS
<1> HIDE DEF t
<1>2. Head(s) \in S /\ \A k \in S : Head(s) <= k
  BY <1>1 DEF Lists
<1>3. ASSUME NEW i \in 1 .. Len(t) PROVE t[i] \in S \ {Head(s)}
  <2>1. i + 1 \in 1 .. Len(s) /\ 1 \in 1 .. Len(s) /\ 1 < i + 1
    BY <1>1
  <2>2. s[1] < s[i + 1] /\ s[i + 1] \in S
    BY <2>1 DEF Lists
  <2> QED BY <1>1, <2>1, <2>2
<1>4. ASSUME NEW k \in S \ {Head(s)} PROVE \E i \in 1 .. Len(t) : t[i] = k
  <2>1. PICK j \in 1 .. Len(s) : s[j] = k
    BY DEF Lists
  <2>2. j # 1
    BY <1>1, <2>1
  <2>3. j - 1 \in 1 .. Len(t) /\ t[j - 1] = k
    BY <1>1, <2>1, <2>2
  <2> QED BY <2>3
<1>5. ASSUME NEW i \in 1 .. Len(t), NEW j \in 1 .. Len(t), i < j
      PROVE  t[i] < t[j]
  <2>1. i + 1 \in 1 .. Len(s) /\ j + 1 \in 1 .. Len(s) /\ i + 1 < j + 1
    BY <1>1, <1>5
  <2> QED BY <1>1, <2>1 DEF Lists
<1> QED BY <1>2, <1>3, <1>4, <1>5 DEF Lists, t

\* What the ring's invariant says of a reader's progress.
LEMMA ReaderProgress ==
  ASSUME RingInv, NEW r \in Readers
  PROVE  /\ sent \in Nat /\ consumed[r] \in Nat
         /\ consumed[r] <= sent /\ sent <= consumed[r] + max_chunks
         /\ r_pc[r] = "done" => r_buf[r] = consumed[r] + 1
<1>1. /\ Behind(r) \in 0 .. max_chunks
      /\ sent \in Nat /\ consumed[r] \in Nat
  BY DEF RingInv, IndexInv, RingTypeOK
<1>2. r_pc[r] = "done" => r_buf[r] = consumed[r] + 1
  BY DEF RingInv, ReaderInv
<1> QED BY <1>1, <1>2, RingAssumption DEF Behind

\* Every step is, for the ring, a step of the ring or none.
LEMMA StepOfRing == Next => RingNext \/ UNCHANGED ring_vars
<1> USE DEF RingNext, WriterStep, ReaderStep
<1>1. EnqueueStep => RingNext \/ UNCHANGED ring_vars
  BY DEF EnqueueStep, EnqueueRing, SendLocal, Notify, SendRemote
<1>2. ASSUME NEW r \in Readers, DequeueStep(r) PROVE RingNext \/ UNCHANGED ring_vars
  BY <1>2 DEF DequeueStep, DequeueRing, DequeueRelease, RecvLocal, ReadTimeout, SpinYield,
              Park, PollEvent, PollTimeout, Woken
<1>3. ASSUME NEW r \in Readers, Shutdown(r) \/ Cancel(r) PROVE UNCHANGED ring_vars
  BY <1>3 DEF Shutdown, Cancel
<1>4. ASSUME NEW r \in RemoteReaders, RecvRemote(r) PROVE UNCHANGED ring_vars
  BY <1>4 DEF RecvRemote
<1> QED BY <1>1, <1>2, <1>3, <1>4 DEF Next

LEMMA QueueInitInv == Init => QueueInv
<1> SUFFICES ASSUME Init PROVE QueueInv
  OBVIOUS
<1> USE RingAssumption, QueueAssumption DEF Init
<1>1. RingInv
  BY InitInv
<1>2. sent = 0 /\ consumed = [r \in Readers |-> 0]
  BY DEF RingInit
<1>3. QueueTypeOK
  BY DEF QueueTypeOK
<1>4. /\ \A r \in AllReaders : got[r] = << >> /\ Len(got[r]) = 0
      /\ \A r \in RemoteReaders : remote_socket[r] = << >> /\ Len(remote_socket[r]) = 0
      /\ Posted = 0 /\ RemotePosted = 0
  BY <1>2 DEF Posted, RemotePosted
<1>5. EnqueueInv
  BY DEF EnqueueInv
<1>6. DequeueInv /\ RemoteInv
  <2>1. \A r \in Readers : r \in AllReaders /\ d_pc[r] = "ring" /\ consumed[r] = 0
    BY <1>2 DEF AllReaders
  <2>2. \A r \in RemoteReaders : r \in AllReaders
    BY DEF AllReaders
  <2>3. DequeueInv
    BY <1>4, <2>1 DEF DequeueInv
  <2>4. ASSUME NEW r \in RemoteReaders
        PROVE  /\ Len(remote_socket[r]) = RemotePosted - Len(got[r])
               /\ \A i \in 1 .. Len(remote_socket[r]) : remote_socket[r][i] = Len(got[r]) + i
    <3>1. Len(remote_socket[r]) = 0 /\ Len(got[r]) = 0 /\ RemotePosted = 0
      BY <1>4, <2>2
    <3>2. 0 = 0 - 0 /\ \A i \in 1 .. 0 : FALSE
      OBVIOUS
    <3> QED BY <3>1, <3>2
  <2> QED BY <2>3, <2>4 DEF RemoteInv
<1>7. ASSUME NEW r \in Readers PROVE Lists(local_socket[r], OnTheWay(r))
  <2>1. Len(got[r]) = 0 /\ local_socket[r] = << >> /\ Len(local_socket[r]) = 0
    BY <1>4 DEF AllReaders
  <2>2. OnTheWay(r) = {}
    <3>1. \A k \in oversized : k \in Int
      BY <1>3 DEF QueueTypeOK
    <3>2. \A k \in oversized : ~ (0 < k /\ k <= 0)
      BY <3>1
    <3> QED BY <1>4, <2>1, <3>2 DEF OnTheWay
  <2> QED BY <2>1, <2>2 DEF Lists
<1> QED BY <1>1, <1>3, <1>5, <1>6, <1>7 DEF QueueInv, LocalInv

-----------------------------------------------------------------------------
\* The steps of enqueue. Only the last step of acquire_write publishes.
LEMMA WriterSends ==
  ASSUME RingInv, WriterStep
  PROVE  /\ sent' = sent \/ sent' = sent + 1
         /\ UNCHANGED r_vars
BY DEF WriterStep, AcquireWrite, WriteCheck, WriteTimeout, MarkUnwritten, BeginBody,
       EndBody, BodyRaises, ResetReadFlag, Publish, w_vars

LEMMA EnqueueInvStep == QueueInv /\ RingInv' /\ EnqueueStep => QueueInv'
<1> SUFFICES ASSUME QueueInv, RingInv', EnqueueStep PROVE QueueInv'
  OBVIOUS
<1> USE RingAssumption, QueueAssumption
<1>0. /\ RingInv /\ QueueTypeOK /\ EnqueueInv /\ DequeueInv /\ LocalInv /\ RemoteInv
      /\ sent \in Nat /\ Readers \subseteq AllReaders /\ RemoteReaders \subseteq AllReaders
      /\ \A r \in AllReaders : Len(got[r]) \in Nat
  BY DEF QueueInv, RingInv, RingTypeOK, QueueTypeOK, AllReaders
<1>1. CASE EnqueueRing
  <2> USE <1>0, <1>1 DEF EnqueueRing
  <2>1. (sent' = sent \/ sent' = sent + 1) /\ UNCHANGED r_vars
    BY WriterSends
  <2>2. QueueTypeOK'
    BY DEF QueueTypeOK
  <2>3. EnqueueInv' /\ DequeueInv'
    BY <2>1 DEF EnqueueInv, DequeueInv, Posted, r_vars
  <2>4. RemoteInv'
    BY <2>1 DEF RemoteInv, RemotePosted, QueueTypeOK
  <2>5. \A r \in Readers : OnTheWay(r)' = OnTheWay(r)
    BY <2>1 DEF OnTheWay, Posted, QueueTypeOK
  <2>6. LocalInv'
    BY <2>5 DEF LocalInv
  <2> QED BY <2>2, <2>3, <2>4, <2>6 DEF QueueInv
<1>2. CASE SendLocal
  <2> USE <1>0, <1>2 DEF SendLocal, ring_vars, w_vars, r_vars
  <2>1. QueueTypeOK'
    BY DEF QueueTypeOK
  <2>2. EnqueueInv' /\ RemoteInv'
    BY DEF EnqueueInv, RemoteInv, RemotePosted
  <2>3. ASSUME NEW r \in Readers
        PROVE  Lists(local_socket'[r], OnTheWay(r)')
    <3>1. Len(got[r]) <= sent - 1 /\ Len(got[r]) \in Nat
      BY DEF DequeueInv, Posted
    <3>2. OnTheWay(r)' = OnTheWay(r) \cup {sent}
      <4>1. Posted = sent - 1 /\ Posted' = sent /\ sent \in oversized
        BY DEF Posted, EnqueueInv
      <4>2. \A k \in oversized : k \in Nat
        BY DEF QueueTypeOK
      <4>3. \A k \in oversized :
              (Len(got[r]) < k /\ k <= sent) <=> (Len(got[r]) < k /\ k <= sent - 1) \/ k = sent
        BY <3>1, <4>2
      <4> QED BY <4>1, <4>3 DEF OnTheWay
    <3>3. \A k \in OnTheWay(r) : k < sent
      BY DEF OnTheWay, Posted, QueueTypeOK
    <3>4. local_socket[r] \in Seq(Nat) /\ Lists(local_socket[r], OnTheWay(r))
      BY DEF LocalInv, QueueTypeOK
    <3> QED BY <3>2, <3>3, <3>4, ListsAppend
  <2>4. DequeueInv'
    <3>1. Posted = sent - 1 /\ Posted' = sent
      BY DEF Posted
    <3>2. \A r \in Readers : Len(got[r]) <= sent - 1 /\ Len(got[r]) \in Nat
      BY <3>1 DEF DequeueInv
    <3>3. \A r \in Readers : Len(got[r]) <= sent
      BY <3>2
    <3> QED BY <3>1, <3>3 DEF DequeueInv
  <2> QED BY <2>1, <2>2, <2>3, <2>4 DEF QueueInv, LocalInv
<1>3. CASE Notify
  <2> USE <1>0, <1>3 DEF Notify, ring_vars, w_vars, r_vars
  <2>1. QueueTypeOK' /\ EnqueueInv' /\ DequeueInv'
    BY DEF QueueTypeOK, EnqueueInv, DequeueInv, Posted
  <2>2. RemoteInv'
    <3>1. n_remote_reader = 0 => RemoteReaders = {}
      BY DEF RemoteReaders
    <3> QED BY <3>1 DEF RemoteInv, RemotePosted
  <2>3. \A r \in Readers : OnTheWay(r)' = OnTheWay(r)
    BY DEF OnTheWay, Posted
  <2> QED BY <2>1, <2>2, <2>3 DEF QueueInv, LocalInv
<1>4. CASE SendRemote
  <2> USE <1>0, <1>4 DEF SendRemote, ring_vars, w_vars, r_vars
  <2>1. QueueTypeOK' /\ EnqueueInv' /\ DequeueInv'
    BY DEF QueueTypeOK, EnqueueInv, DequeueInv, Posted
  <2>2. ASSUME NEW r \in RemoteReaders
        PROVE  /\ Len(remote_socket'[r]) = RemotePosted' - Len(got'[r])
               /\ \A i \in 1 .. Len(remote_socket'[r]) :
                    remote_socket'[r][i] = Len(got'[r]) + i
    <3>1. /\ remote_socket[r] \in Seq(Nat) /\ remote_socket'[r] = Append(remote_socket[r], sent)
          /\ Len(remote_socket[r]) = sent - 1 - Len(got[r])
          /\ \A i \in 1 .. Len(remote_socket[r]) : remote_socket[r][i] = Len(got[r]) + i
      BY DEF QueueTypeOK, RemoteInv, RemotePosted
    <3> DEFINE s == remote_socket[r]
               t == Append(s, sent)
    <3>2. /\ Len(t) = Len(s) + 1
          /\ \A i \in 1 .. Len(s) : t[i] = s[i]
          /\ t[Len(s) + 1] = sent
          /\ Len(s) \in Nat
      BY <3>1, AppendFacts
    <3> HIDE DEF s, t
    <3>3. RemotePosted' = sent /\ got' = got
      BY DEF RemotePosted
    <3>4. Len(t) = sent - Len(got[r]) /\ Len(got[r]) \in Nat
      BY <3>1, <3>2 DEF s
    <3>5. ASSUME NEW i \in 1 .. Len(t) PROVE t[i] = Len(got[r]) + i
      <4>1. CASE i \in 1 .. Len(s)
        BY <3>1, <3>2, <4>1 DEF s
      <4>2. CASE i = Len(s) + 1
        <5>1. \A a, b, n \in Nat : n + 1 = a - b => a = b + (n + 1)
          OBVIOUS
        <5>2. Len(s) + 1 = sent - Len(got[r]) /\ sent \in Nat
          BY <3>2, <3>4
        <5>3. sent = Len(got[r]) + (Len(s) + 1)
          BY <3>2, <3>4, <5>1, <5>2, Zenon
        <5> QED BY <3>2, <4>2, <5>3
      <4> QED BY <3>2, <4>1, <4>2
    <3> QED BY <3>1, <3>3, <3>4, <3>5 DEF s, t
  <2>3. \A r \in Readers : OnTheWay(r)' = OnTheWay(r)
    BY DEF OnTheWay, Posted
  <2> QED BY <2>1, <2>2, <2>3 DEF QueueInv, LocalInv, RemoteInv
<1> QED BY <1>1, <1>2, <1>3, <1>4 DEF EnqueueStep

-----------------------------------------------------------------------------
\* The steps of a dequeue of local reader r that return no message leave what
\* the invariant says of the sockets alone.
LEMMA DequeueQuiet ==
  ASSUME QueueInv, RingInv', NEW r \in Readers,
         \/ DequeueRing(r) \/ ReadTimeout(r) \/ SpinYield(r) \/ Park(r)
         \/ PollEvent(r) \/ PollTimeout(r) \/ Shutdown(r) \/ Cancel(r)
  PROVE  QueueInv'
<1>1. /\ UNCHANGED <<oversized, e_pc, local_socket, remote_socket, got, sent, consumed>>
      /\ \/ UNCHANGED d_pc
         \/ /\ d_pc[r] # "recv"
            /\ d_pc' \in {[d_pc EXCEPT ![r] = v] : v \in {"ring", "parked", "stopped"}}
  <2>1. CASE DequeueRing(r) \/ ReadTimeout(r)
    BY <2>1 DEF DequeueRing, ReadTimeout, AcquireRead, LoadReadFlag, LoadWrittenFlag,
                ReadBody, GiveUp, q_vars, w_vars
  <2>2. CASE SpinYield(r) \/ PollEvent(r) \/ PollTimeout(r)
    BY <2>2 DEF SpinYield, PollEvent, PollTimeout, Woken, GiveUp, Recheck, w_vars
  <2>3. CASE Park(r) \/ Shutdown(r) \/ Cancel(r)
    BY <2>3 DEF Park, Shutdown, Cancel, ring_vars, w_vars, r_vars
  <2> QED BY <2>1, <2>2, <2>3
<1>2. QueueTypeOK' /\ EnqueueInv' /\ RemoteInv'
  BY <1>1 DEF QueueInv, QueueTypeOK, EnqueueInv, RemoteInv, RemotePosted
<1>3. LocalInv'
  BY <1>1 DEF QueueInv, LocalInv, OnTheWay, Posted
<1>4. DequeueInv'
  <2>1. \A q \in Readers : d_pc'[q] = "recv" <=> d_pc[q] = "recv"
    BY <1>1 DEF QueueInv, QueueTypeOK
  <2> QED BY <1>1, <2>1 DEF QueueInv, DequeueInv, Posted
<1> QED BY <1>2, <1>3, <1>4 DEF QueueInv

\* While a reader waits in recv, the first body in its socket is the one that
\* its chunk has announced.
LEMMA AnnouncedIsHead ==
  ASSUME QueueInv, NEW r \in Readers, d_pc[r] = "recv", local_socket[r] # << >>
  PROVE  /\ Head(local_socket[r]) = consumed[r]
         /\ consumed[r] = Len(got[r]) + 1 /\ consumed[r] \in OnTheWay(r)
<1>1. /\ local_socket[r] \in Seq(Nat) /\ Lists(local_socket[r], OnTheWay(r))
      /\ Len(got[r]) \in Nat /\ Len(got[r]) = consumed[r] - 1 /\ consumed[r] \in oversized
      /\ oversized \subseteq Nat /\ Posted \in Int
  BY RingAssumption, ReaderProgress
     DEF QueueInv, QueueTypeOK, LocalInv, DequeueInv, AllReaders, Posted
<1>2. /\ Head(local_socket[r]) \in OnTheWay(r)
      /\ \A k \in OnTheWay(r) : Head(local_socket[r]) <= k
  BY <1>1, ListsTail
<1>3. consumed[r] \in OnTheWay(r)
  <2> DEFINE h == Head(local_socket[r])
  <2>1. h \in oversized /\ Len(got[r]) < h /\ h <= Posted
    BY <1>2 DEF OnTheWay
  <2> HIDE DEF h
  <2>2. h \in Nat /\ consumed[r] \in Nat
    BY <1>1, <2>1
  <2>3. Len(got[r]) < consumed[r] /\ consumed[r] <= Posted
    BY <1>1, <2>1, <2>2
  <2> QED BY <1>1, <2>3 DEF OnTheWay
<1>4. Head(local_socket[r]) = consumed[r]
  <2> DEFINE h == Head(local_socket[r])
  <2>1. h \in oversized /\ Len(got[r]) < h /\ h <= consumed[r]
    BY <1>2, <1>3 DEF OnTheWay
  <2> HIDE DEF h
  <2>2. h \in Nat /\ consumed[r] \in Nat
    BY <1>1, <2>1
  <2>3. h = consumed[r]
    BY <1>1, <2>1, <2>2
  <2> QED BY <2>3 DEF h
<1> QED BY <1>1, <1>3, <1>4

\* A chunk is released: its message is returned, or its body awaited.
LEMMA ReleaseInvStep ==
  ASSUME QueueInv, RingInv', NEW r \in Readers, DequeueRelease(r)
  PROVE  QueueInv'
<1> USE DEF DequeueRelease, MarkRead, w_vars
<1>0. /\ QueueTypeOK /\ EnqueueInv /\ DequeueInv /\ LocalInv /\ RemoteInv
      /\ Readers \subseteq AllReaders
      /\ \A q \in AllReaders : got[q] \in Seq(Nat) /\ Len(got[q]) \in Nat
      /\ r \notin RemoteReaders
      /\ oversized \subseteq Nat
  BY RingAssumption DEF QueueInv, QueueTypeOK, AllReaders, Readers, RemoteReaders
<1>1. /\ r_buf[r] = consumed[r] + 1 /\ consumed[r] \in Nat /\ sent \in Nat
      /\ consumed[r] < sent
  <2>1. r_buf[r] = consumed[r] + 1 /\ consumed[r] \in Nat /\ sent \in Nat
    BY ReaderProgress DEF QueueInv
  <2>2. consumed'[r] = consumed[r] + 1 /\ sent' = sent /\ consumed'[r] <= sent'
    <3>1. consumed \in [Readers -> Nat]
      BY DEF QueueInv, RingInv, RingTypeOK
    <3>2. Behind(r)' \in 0 .. max_chunks
      BY DEF RingInv, IndexInv
    <3> QED BY <2>1, <3>1, <3>2, RingAssumption DEF Behind
  <2> QED BY <2>1, <2>2
<1>2. Len(got[r]) = consumed[r] /\ consumed' = [consumed EXCEPT ![r] = consumed[r] + 1]
  BY <1>0 DEF DequeueInv
<1>3. consumed \in [Readers -> Nat]
  BY DEF QueueInv, RingInv, RingTypeOK
<1>4. CASE r_buf[r] \in oversized
  <2>1. /\ d_pc' = [d_pc EXCEPT ![r] = "recv"]
        /\ UNCHANGED <<got, oversized, e_pc, local_socket, remote_socket, sent>>
    BY <1>4
  <2>2. QueueTypeOK' /\ EnqueueInv' /\ RemoteInv'
    BY <1>0, <2>1 DEF QueueTypeOK, EnqueueInv, RemoteInv, RemotePosted
  <2>3. LocalInv'
    BY <1>0, <2>1 DEF LocalInv, OnTheWay, Posted
  <2>4. DequeueInv'
    BY <1>0, <1>1, <1>2, <1>3, <1>4, <2>1 DEF DequeueInv, Posted, QueueTypeOK
  <2> QED BY <2>2, <2>3, <2>4 DEF QueueInv
<1>5. CASE r_buf[r] \notin oversized
  <2>1. /\ got' = [got EXCEPT ![r] = Append(got[r], consumed[r] + 1)]
        /\ UNCHANGED <<d_pc, oversized, e_pc, local_socket, remote_socket, sent>>
    BY <1>1, <1>5
  <2>2. /\ got'[r] \in Seq(Nat) /\ Len(got'[r]) = consumed[r] + 1
        /\ \A q \in AllReaders \ {r} : got'[q] = got[q]
    BY <1>0, <1>1, <1>2, <2>1 DEF QueueTypeOK
  <2>3. QueueTypeOK'
    BY <1>0, <1>1, <2>1, <2>2 DEF QueueTypeOK
  <2>4. EnqueueInv' /\ RemoteInv'
    BY <1>0, <2>1, <2>2 DEF EnqueueInv, RemoteInv, RemotePosted, AllReaders
  <2>5. \A q \in Readers : OnTheWay(q)' = OnTheWay(q)
    BY <1>0, <1>1, <1>2, <1>5, <2>1, <2>2 DEF OnTheWay, Posted
  <2>6. LocalInv'
    BY <1>0, <2>1, <2>5 DEF LocalInv
  <2>7. consumed[r] + 1 <= Posted
    BY <1>0, <1>1, <1>5 DEF EnqueueInv, Posted
  <2>8. DequeueInv'
    BY <1>0, <1>1, <1>2, <1>3, <2>1, <2>2, <2>7 DEF DequeueInv, Posted
  <2> QED BY <2>3, <2>4, <2>6, <2>8 DEF QueueInv
<1> QED BY <1>4, <1>5

\* The body of an oversized message is received.
LEMMA RecvInvStep ==
  ASSUME QueueInv, RingInv', NEW r \in Readers, RecvLocal(r)
  PROVE  QueueInv'
<1> USE DEF RecvLocal, ring_vars, w_vars, r_vars
<1>0. /\ QueueTypeOK /\ EnqueueInv /\ DequeueInv /\ LocalInv /\ RemoteInv
      /\ Readers \subseteq AllReaders
      /\ \A q \in AllReaders : got[q] \in Seq(Nat) /\ Len(got[q]) \in Nat
      /\ local_socket[r] \in Seq(Nat) /\ local_socket \in [Readers -> Seq(Nat)]
      /\ oversized \subseteq Nat /\ sent \in Nat
  BY RingAssumption DEF QueueInv, QueueTypeOK, AllReaders, RingInv, RingTypeOK
<1>a. r \notin RemoteReaders
  BY RingAssumption DEF Readers, RemoteReaders
<1>1. /\ Head(local_socket[r]) = consumed[r] /\ consumed[r] = Len(got[r]) + 1
      /\ consumed[r] \in OnTheWay(r) /\ consumed[r] \in Nat
  BY AnnouncedIsHead, <1>0
<1>2. /\ got' = [got EXCEPT ![r] = Append(got[r], consumed[r])]
      /\ local_socket' = [local_socket EXCEPT ![r] = Tail(local_socket[r])]
      /\ d_pc' = [d_pc EXCEPT ![r] = "ring"]
      /\ UNCHANGED <<oversized, e_pc, remote_socket, sent, consumed>>
  BY <1>1
<1>3. /\ got'[r] \in Seq(Nat) /\ Len(got'[r]) = consumed[r]
      /\ \A q \in AllReaders \ {r} : got'[q] = got[q]
  BY <1>0, <1>1, <1>2 DEF QueueTypeOK
<1>4. Tail(local_socket[r]) \in Seq(Nat)
  BY <1>0
<1>5. QueueTypeOK'
  BY <1>0, <1>2, <1>3, <1>4 DEF QueueTypeOK
<1>6. EnqueueInv' /\ RemoteInv'
  <2>1. \A q \in RemoteReaders : got'[q] = got[q]
    BY <1>a, <1>3 DEF AllReaders
  <2>2. RemotePosted' = RemotePosted /\ remote_socket' = remote_socket
    BY <1>2 DEF RemotePosted
  <2>3. RemoteInv'
    BY <1>0, <2>1, <2>2 DEF RemoteInv
  <2> QED BY <1>0, <1>2, <2>3 DEF EnqueueInv
<1>7. LocalInv'
  <2>1. \A q \in Readers \ {r} : OnTheWay(q)' = OnTheWay(q) /\ local_socket'[q] = local_socket[q]
    BY <1>0, <1>2, <1>3 DEF OnTheWay, Posted
  <2>2. OnTheWay(r)' = OnTheWay(r) \ {consumed[r]} /\ local_socket'[r] = Tail(local_socket[r])
    <3>1. Posted' = Posted /\ Len(got'[r]) = Len(got[r]) + 1 /\ Len(got[r]) \in Nat
      BY <1>0, <1>1, <1>2, <1>3 DEF Posted
    <3>2. \A k \in oversized :
            Len(got[r]) + 1 < k <=> Len(got[r]) < k /\ k # consumed[r]
      BY <1>0, <1>1, <3>1
    <3> QED BY <1>0, <1>2, <3>1, <3>2 DEF OnTheWay
  <2>3. Lists(Tail(local_socket[r]), OnTheWay(r) \ {consumed[r]})
    BY <1>0, <1>1, ListsTail DEF LocalInv
  <2> QED BY <1>0, <2>1, <2>2, <2>3 DEF LocalInv
<1>8. DequeueInv'
  BY <1>0, <1>1, <1>2, <1>3 DEF DequeueInv, OnTheWay, Posted, QueueTypeOK
<1> QED BY <1>5, <1>6, <1>7, <1>8 DEF QueueInv

\* A remote reader receives.
LEMMA RemoteInvStep ==
  ASSUME QueueInv, RingInv', NEW r \in RemoteReaders, RecvRemote(r)
  PROVE  /\ QueueInv' /\ Head(remote_socket[r]) = Len(got[r]) + 1
         /\ Len(got[r]) < sent
<1> USE DEF RecvRemote, ring_vars, w_vars, r_vars
<1>0. /\ QueueTypeOK /\ EnqueueInv /\ DequeueInv /\ LocalInv /\ RemoteInv
      /\ Readers \subseteq AllReaders /\ r \in AllReaders
      /\ \A q \in AllReaders : got[q] \in Seq(Nat) /\ Len(got[q]) \in Nat
      /\ remote_socket[r] \in Seq(Nat) /\ sent \in Nat
  BY RingAssumption DEF QueueInv, QueueTypeOK, AllReaders, RingInv, RingTypeOK
<1>a. r \notin Readers
  BY RingAssumption DEF Readers, RemoteReaders
<1> DEFINE s == remote_socket[r]
           t == Tail(remote_socket[r])
<1>1. /\ Len(s) = RemotePosted - Len(got[r])
      /\ \A i \in 1 .. Len(s) : s[i] = Len(got[r]) + i
  BY <1>0 DEF RemoteInv
<1>2. /\ Len(s) \in Nat \ {0} /\ Head(s) = s[1] /\ t \in Seq(Nat) /\ Len(t) = Len(s) - 1
      /\ \A i \in 1 .. Len(t) : t[i] = s[i + 1]
  BY <1>0, TailFacts
<1>b. RemotePosted \in Int /\ RemotePosted <= sent /\ RemotePosted' = RemotePosted
  BY <1>0 DEF RemotePosted
<1>3. Head(s) = Len(got[r]) + 1 /\ Len(got[r]) < sent
  <2> HIDE DEF s, t
  <2>1. 1 \in 1 .. Len(s) /\ Len(got[r]) \in Nat
    BY <1>0, <1>2
  <2>2. Head(s) = Len(got[r]) + 1
    BY <1>1, <1>2, <2>1
  <2>3. Len(got[r]) < sent
    BY <1>0, <1>1, <1>2, <2>1, <1>b
  <2> QED BY <2>2, <2>3
<1>4. /\ got'[r] \in Seq(Nat) /\ Len(got'[r]) = Len(got[r]) + 1
      /\ got' = [got EXCEPT ![r] = Append(got[r], Len(got[r]) + 1)]
      /\ \A q \in AllReaders \ {r} : got'[q] = got[q]
  <2>1. got' = [got EXCEPT ![r] = Append(got[r], Len(got[r]) + 1)]
    BY <1>3
  <2>2. got'[r] = Append(got[r], Len(got[r]) + 1) /\ \A q \in AllReaders \ {r} : got'[q] = got[q]
    BY <1>0, <2>1 DEF QueueTypeOK
  <2>3. got[r] \in Seq(Nat) /\ Len(got[r]) + 1 \in Nat
    BY <1>0
  <2> HIDE DEF RecvRemote
  <2> QED BY <2>1, <2>2, <2>3, AppendFacts
<1>5. QueueTypeOK'
  BY <1>0, <1>2, <1>4 DEF QueueTypeOK
<1>6. EnqueueInv' /\ DequeueInv'
  BY <1>0, <1>a, <1>4 DEF EnqueueInv, DequeueInv, Posted
<1>7. LocalInv'
  <2>1. \A q \in Readers : OnTheWay(q)' = OnTheWay(q)
    BY <1>0, <1>a, <1>4 DEF OnTheWay, Posted
  <2> QED BY <1>0, <2>1 DEF LocalInv
<1>8. RemoteInv'
  <2>1. /\ remote_socket'[r] = t
        /\ \A q \in RemoteReaders \ {r} : remote_socket'[q] = remote_socket[q]
    BY <1>0 DEF QueueTypeOK
  <2>2. /\ Len(t) = RemotePosted' - Len(got'[r])
        /\ \A i \in 1 .. Len(t) : t[i] = Len(got'[r]) + i
    <3> HIDE DEF s, t
    <3>0. Len(got[r]) \in Nat /\ Len(got'[r]) = Len(got[r]) + 1
      BY <1>0, <1>4
    <3>1. Len(t) = RemotePosted' - Len(got'[r])
      <4> HIDE DEF RecvRemote
      <4> QED BY <1>1, <1>2, <1>b, <3>0
    <3>2. ASSUME NEW i \in 1 .. Len(t) PROVE t[i] = Len(got'[r]) + i
      <4>1. i + 1 \in 1 .. Len(s) /\ t[i] = s[i + 1]
        BY <1>2
      <4>2. t[i] = Len(got[r]) + (i + 1)
        BY <1>1, <4>1
      <4>3. \A a \in Nat : a + (i + 1) = (a + 1) + i
        BY <1>2
      <4> QED BY <3>0, <4>2, <4>3
    <3> QED BY <3>1, <3>2
  <2>3. \A q \in RemoteReaders \ {r} : got'[q] = got[q]
    BY <1>4 DEF AllReaders
  <2> HIDE DEF t, RecvRemote
  <2> QED BY <1>0, <1>b, <2>1, <2>2, <2>3 DEF RemoteInv
<1> QED BY <1>3, <1>5, <1>6, <1>7, <1>8 DEF QueueInv
-----------------------------------------------------------------------------
LEMMA QueueInvStep == QueueInv /\ [Next]_mq_vars => QueueInv'
<1> SUFFICES ASSUME QueueInv, [Next]_mq_vars PROVE QueueInv'
  OBVIOUS
<1>1. RingInv'
  <2>1. RingInv /\ [RingNext]_ring_vars
    BY StepOfRing DEF QueueInv, mq_vars
  <2> QED BY <2>1, RingInvStep
<1>2. CASE EnqueueStep
  BY <1>1, <1>2, EnqueueInvStep
<1>3. ASSUME NEW r \in Readers, DequeueStep(r) \/ Shutdown(r) \/ Cancel(r)
      PROVE  QueueInv'
  <2>1. CASE DequeueRelease(r)
    BY <1>1, <2>1, ReleaseInvStep
  <2>2. CASE RecvLocal(r)
    BY <1>1, <2>2, RecvInvStep
  <2>3. CASE ~ DequeueRelease(r) /\ ~ RecvLocal(r)
    BY <1>1, <1>3, <2>3, DequeueQuiet DEF DequeueStep
  <2> QED BY <2>1, <2>2, <2>3
<1>4. ASSUME NEW r \in RemoteReaders, RecvRemote(r) PROVE QueueInv'
  BY <1>1, <1>4, RemoteInvStep
<1>5. CASE UNCHANGED mq_vars
  <2> USE <1>5 DEF mq_vars, ring_vars, w_vars, r_vars, q_vars, QueueInv
  <2>1. QueueTypeOK' /\ EnqueueInv' /\ DequeueInv' /\ RemoteInv'
    BY DEF QueueTypeOK, EnqueueInv, DequeueInv, RemoteInv, Posted, RemotePosted
  <2>2. LocalInv'
    BY DEF LocalInv, OnTheWay, Posted
  <2> QED BY <1>1, <2>1, <2>2
<1> QED BY <1>2, <1>3, <1>4, <1>5 DEF Next

\* In every state of the queue the sockets and the ring are in step, as QueueInv
\* says: whatever enqueue, the dequeues, timeouts of acquire_read, lost
\* notifications and shutdowns do to each other.
THEOREM QueueInvariant == Spec => []QueueInv
BY QueueInitInv, QueueInvStep, PTL DEF Spec

\* A dequeue that waits for the body of an oversized message receives the body
\* that its chunk has announced, as long as no timeout strikes in recv.
THEOREM QueueAnnouncedBody == Spec => []AnnouncedBodyIsNext
<1>1. QueueInv => AnnouncedBodyIsNext
  BY AnnouncedIsHead DEF AnnouncedBodyIsNext
<1> QED BY <1>1, QueueInvariant, PTL

\* Every step of the queue is a broadcast, a delivery or a stuttering step.
LEMMA QueueSimulates ==
  QueueInv /\ QueueInv' /\ [Next]_mq_vars => [Abstract!Next]_<<sent, got>>
<1> SUFFICES ASSUME QueueInv, QueueInv', [Next]_mq_vars, ~ UNCHANGED <<sent, got>>
             PROVE  Abstract!Next
  OBVIOUS
<1>0. /\ Readers \subseteq AllReaders /\ RemoteReaders \subseteq AllReaders
      /\ \A r \in AllReaders : got[r] \in Seq(Nat) /\ Len(got[r]) \in Nat
      /\ sent \in Nat
  BY RingAssumption DEF QueueInv, QueueTypeOK, AllReaders, RingInv, RingTypeOK
<1>1. CASE EnqueueStep
  <2>1. EnqueueRing
    BY <1>1 DEF EnqueueStep, SendLocal, Notify, SendRemote, ring_vars, w_vars
  <2>2. sent' = sent + 1 /\ UNCHANGED <<got, consumed>>
    BY <2>1, WriterSends DEF EnqueueRing, QueueInv, r_vars
  <2>3. ASSUME NEW r \in Readers PROVE sent - Len(got[r]) < max_chunks + 1
    <3>1. Behind(r)' \in 0 .. max_chunks /\ consumed[r] \in Nat
      BY DEF QueueInv, RingInv, IndexInv, RingTypeOK
    <3>2. sent + 1 <= consumed[r] + max_chunks
      BY <1>0, <2>2, <3>1, RingAssumption DEF Behind
    <3>3. Len(got[r]) >= consumed[r] - 1
      BY <1>0, <3>1 DEF QueueInv, DequeueInv
    <3> QED BY <1>0, <3>1, <3>2, <3>3, RingAssumption
  <2> QED BY <2>2, <2>3 DEF Abstract!Next, Abstract!Broadcast
<1>2. ASSUME NEW r \in Readers, DequeueRelease(r) PROVE Abstract!Next
  <2>1. /\ r_buf[r] = consumed[r] + 1 /\ consumed[r] \in Nat /\ Len(got[r]) = consumed[r]
        /\ UNCHANGED sent
    BY <1>2, ReaderProgress DEF DequeueRelease, MarkRead, w_vars, QueueInv, DequeueInv
  <2>2. got' = [got EXCEPT ![r] = Append(got[r], Len(got[r]) + 1)]
    BY <1>2, <2>1 DEF DequeueRelease
  <2>3. Len(got[r]) < sent
    <3>1. Behind(r)' \in 0 .. max_chunks /\ consumed \in [Readers -> Nat]
      BY DEF QueueInv, RingInv, IndexInv, RingTypeOK
    <3>2. consumed'[r] = consumed[r] + 1
      BY <1>2, <3>1 DEF DequeueRelease, MarkRead
    <3> QED BY <1>0, <2>1, <3>1, <3>2, RingAssumption DEF Behind
  <2> QED BY <1>0, <2>1, <2>2, <2>3 DEF Abstract!Next, Abstract!Deliver
<1>3. ASSUME NEW r \in Readers, RecvLocal(r) PROVE Abstract!Next
  <2>1. /\ Head(local_socket[r]) = Len(got[r]) + 1 /\ consumed[r] = Len(got[r]) + 1
        /\ UNCHANGED sent
    BY <1>3, AnnouncedIsHead DEF RecvLocal, ring_vars, w_vars
  <2>2. got' = [got EXCEPT ![r] = Append(got[r], Len(got[r]) + 1)]
    BY <1>3, <2>1 DEF RecvLocal
  <2>3. Len(got[r]) < sent
    <3>1. consumed[r] <= sent
      BY ReaderProgress DEF QueueInv
    <3> QED BY <1>0, <2>1, <3>1
  <2> QED BY <1>0, <2>1, <2>2, <2>3 DEF Abstract!Next, Abstract!Deliver
<1>4. ASSUME NEW r \in Readers, DequeueStep(r) \/ Shutdown(r) \/ Cancel(r),
             ~ DequeueRelease(r), ~ RecvLocal(r)
      PROVE  FALSE
  BY <1>4 DEF DequeueStep, DequeueRing, ReadTimeout, SpinYield, Park, PollEvent,
              PollTimeout, Shutdown, Cancel, AcquireRead, LoadReadFlag, LoadWrittenFlag,
              ReadBody, GiveUp, Recheck, Woken, q_vars, ring_vars, w_vars
<1>5. ASSUME NEW r \in RemoteReaders, RecvRemote(r) PROVE Abstract!Next
  <2>1. /\ Head(remote_socket[r]) = Len(got[r]) + 1 /\ Len(got[r]) < sent
        /\ UNCHANGED sent
    BY <1>5, RemoteInvStep DEF RecvRemote, ring_vars, w_vars, QueueInv
  <2>2. got' = [got EXCEPT ![r] = Append(got[r], Len(got[r]) + 1)]
    BY <1>5, <2>1 DEF RecvRemote
  <2> QED BY <1>0, <2>1, <2>2 DEF Abstract!Next, Abstract!Deliver
<1>6. CASE UNCHANGED mq_vars
  BY <1>6 DEF mq_vars, ring_vars, w_vars, q_vars
<1> QED BY <1>1, <1>2, <1>3, <1>4, <1>5, <1>6 DEF Next

\* Through ring and sockets together the queue is an ordered broadcast: every
\* dequeue returns the next message that enqueue published, none is lost,
\* repeated or reordered, and the writer is never more than max_chunks + 1
\* messages ahead of a local reader.
THEOREM QueueImplementsBroadcast == Spec => ImplementsBroadcast
<1>1. Init => Abstract!Init
  BY DEF Init, RingInit, Abstract!Init
<1> QED BY <1>1, QueueSimulates, QueueInvariant, PTL DEF Spec, ImplementsBroadcast, Abstract!Spec
=============================================================================
