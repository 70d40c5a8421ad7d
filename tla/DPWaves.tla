------------------------------ MODULE DPWaves ------------------------------
(***************************************************************************)
(* Request waves of data-parallel MoE serving: the front-end clients        *)
(* (DPAsyncMPClient), the coordinator (DPCoordinatorProc) and the engine    *)
(* cores (DPEngineCoreProc). A forward pass is a collective of all engines, *)
(* so one engine with a request needs every other to step along with dummy  *)
(* batches. The engines go idle together when an all-reduce finds no work;  *)
(* that ends a wave. While they are idle a request has to wake all of them. *)
(*                                                                          *)
(* Messages travel on a FIFO channel per pair of parties, with arbitrary    *)
(* delay. Every forward pass and all-reduce is a joint step of the engines, *)
(* which is why one step_counter stands for theirs. A request is a number   *)
(* of forward passes; 0 is one that add_request aborts at once              *)
(* (abort_immediately). Elastic scaling, sleep and load statistics are left *)
(* out.                                                                     *)
(***************************************************************************)
EXTENDS Integers, Sequences, FiniteSets

CONSTANTS
  dp_size,         \* engines, ranks 0 .. dp_size - 1
  NumClients,      \* front-ends
  MaxCalls,        \* bound on the requests sent and the pauses called
  Lengths,         \* the numbers of forward passes a request may take
  SyncInterval,    \* forward passes between two all-reduces (32)
  MaxFirstReq,     \* bound on the FIRST_REQs that wait for the stats task
  PauseModes,      \* the modes pause_scheduler is called with
  ResumeQuiesced   \* whether no request crosses a resume_scheduler

ASSUME WaveAssumption ==
  /\ dp_size \in Nat \ {0, 1} /\ NumClients \in Nat \ {0}
  /\ MaxCalls \in Nat /\ Lengths \subseteq Nat
  /\ SyncInterval \in Nat \ {0, 1} /\ MaxFirstReq \in Nat \ {0}
  /\ PauseModes \subseteq {"abort", "wait", "keep"}
  /\ ResumeQuiesced \in BOOLEAN

Engines == 0 .. (dp_size - 1)
Clients == 1 .. NumClients
Requests == 1 .. MaxCalls
Pauser == 1  \* the front-end that calls pause_scheduler and resume_scheduler

\* How a message names the engine that a START_DP_WAVE is not for: a client by
\* the ZMQ identity (bytes) it sends to, the coordinator by the engine_index
\* (int) of an output. Nobody decodes the one into the other.
Identity(e) == [by |-> "identity", engine |-> e]
Index(e) == [by |-> "index", engine |-> e]
None == [by |-> "none", engine |-> 0]

VARIABLES
  client,        \* current_wave and engines_running of each DPAsyncMPClient
  first_req,     \* FIRST_REQs (the chosen_engine) between add_request_async and
                 \* the stats task
  input,         \* messages from each client to each engine
  to_coord,      \* (engine_to_exclude, wave) from each client to the coordinator
  coord,         \* current_wave and engines_running of the coordinator
  published,     \* (wave, running) from the coordinator to each client
  starts,        \* START_DP_WAVE (wave, exclude) from the coordinator to each engine
  outputs,       \* wave_complete and start_wave from each engine to the coordinator
  phase,         \* each engine is at its input, in a forward pass or in the
                 \* barrier of resume_scheduler
  engine,        \* the fields of each DPEngineCoreProc
  step_counter,  \* forward passes in this wave
  waiting,       \* requests in each scheduler that have not been scheduled
  running,       \* and those that have
  left,          \* forward passes each request still needs
  sent,          \* requests sent so far: 1 .. sent
  done,          \* requests that have finished
  pauses,        \* pause_scheduler calls so far
  pausing        \* "no" pause, one whose futures are "pending", or "resolved"

channel_vars == <<input, to_coord, published, starts, outputs>>
request_vars == <<waiting, running, left, done>>
engine_vars == <<phase, engine, step_counter>>
pause_vars == <<pauses, pausing>>
vars == <<client, first_req, channel_vars, coord, engine_vars, request_vars, sent,
          pause_vars>>

Init ==
  /\ client = [c \in Clients |-> [wave |-> 0, running |-> FALSE]]
  /\ first_req = [c \in Clients |-> << >>]
  /\ input = [c \in Clients |-> [e \in Engines |-> << >>]]
  /\ to_coord = [c \in Clients |-> << >>]
  /\ coord = [wave |-> 0, running |-> FALSE]
  /\ published = [c \in Clients |-> << >>]
  /\ starts = [e \in Engines |-> << >>]
  /\ outputs = [e \in Engines |-> << >>]
  /\ phase = [e \in Engines |-> "input"]
  /\ engine = [e \in Engines |->
       [current_wave |-> 0, engines_running |-> FALSE, was_running |-> FALSE,
        pause |-> "unpaused", pending_pause |-> FALSE, ignore_start |-> FALSE]]
  /\ step_counter = 0
  /\ waiting = [e \in Engines |-> {}]
  /\ running = [e \in Engines |-> {}]
  /\ left = [r \in Requests |-> 0]
  /\ sent = 0 /\ done = {}
  /\ pauses = 0 /\ pausing = "no"

-----------------------------------------------------------------------------
(* The clients.                                                             *)

Put(chan, x, m) == [chan EXCEPT ![x] = Append(@, m)]

\* Something is on its way that would wake an idle engine.
WakeInFlight ==
  \/ \E c \in Clients : first_req[c] # << >> \/ to_coord[c] # << >>
  \/ \E c \in Clients, e \in Engines :
       \E i \in DOMAIN input[c][e] : input[c][e][i].type = "ADD"
  \/ \E e \in Engines :
       \/ starts[e] # << >>
       \/ \E i \in DOMAIN outputs[e] : outputs[e][i].type = "start_wave"

Resuming == \E e \in Engines :
  \/ phase[e] = "resume"
  \/ \E i \in DOMAIN input[Pauser][e] : input[Pauser][e][i].type = "RESUME"

\* add_request_async: the request is stamped with the client's wave and sent,
\* and while the client takes the engines for paused it leaves a FIRST_REQ.
AddRequest(c, e, n) ==
  /\ sent + pauses < MaxCalls
  /\ client[c].running \/ Len(first_req[c]) < MaxFirstReq
  /\ ResumeQuiesced => ~ Resuming
  /\ sent' = sent + 1
  /\ left' = [left EXCEPT ![sent + 1] = n]
  /\ input' = [input EXCEPT ![c][e] =
       Append(@, [type |-> "ADD", req |-> sent + 1, wave |-> client[c].wave])]
  /\ first_req' = IF client[c].running THEN first_req ELSE Put(first_req, c, Identity(e))
  /\ UNCHANGED <<client, to_coord, published, starts, outputs, coord, engine_vars,
                 waiting, running, done, pause_vars>>

\* A round of the stats task that forwards a FIRST_REQ to the coordinator,
\* with the wave the client has got to meanwhile.
ForwardFirstReq(c) ==
  /\ first_req[c] # << >>
  /\ first_req' = [first_req EXCEPT ![c] = Tail(@)]
  /\ to_coord' = Put(to_coord, c, [exclude |-> Head(first_req[c]), wave |-> client[c].wave])
  /\ client' = [client EXCEPT ![c].running = TRUE]
  /\ UNCHANGED <<input, published, starts, outputs, coord, engine_vars, request_vars, sent,
                 pause_vars>>

\* A round that takes over a published state. (The task reads on to the latest
\* one that has arrived, as several steps do here.) A FIRST_REQ that was sent
\* after poll() has returned waits for the next round.
StatsUpdate(c) ==
  /\ published[c] # << >>
  /\ client' = [client EXCEPT ![c] = Head(published[c])]
  /\ published' = [published EXCEPT ![c] = Tail(@)]
  /\ UNCHANGED <<first_req, input, to_coord, starts, outputs, coord, engine_vars,
                 request_vars, sent, pause_vars>>

\* pause_scheduler, called on every engine.
CallPause(mode) ==
  /\ sent + pauses < MaxCalls /\ pausing = "no"
  /\ pauses' = pauses + 1
  /\ pausing' = "pending"
  /\ input' = [input EXCEPT ![Pauser] =
       [e \in Engines |-> Append(@[e], [type |-> "PAUSE", mode |-> mode])]]
  /\ UNCHANGED <<client, first_req, to_coord, published, starts, outputs, coord,
                 engine_vars, request_vars, sent>>

\* resume_scheduler, called on every engine once the pause has resolved.
CallResume ==
  /\ pausing = "resolved"
  /\ ResumeQuiesced => ~ WakeInFlight
  /\ pausing' = "no"
  /\ input' = [input EXCEPT ![Pauser] =
       [e \in Engines |-> Append(@[e], [type |-> "RESUME"])]]
  /\ UNCHANGED <<client, first_req, to_coord, published, starts, outputs, coord,
                 engine_vars, request_vars, sent, pauses>>

-----------------------------------------------------------------------------
(* The coordinator.                                                         *)

SendStartWave(wave, exclude) ==
  starts' = [e \in Engines |-> Append(starts[e], [wave |-> wave, exclude |-> exclude])]

PublishState(state) ==
  published' = [c \in Clients |-> Append(published[c], state)]

\* Mutant: the coordinator takes the engines for running once it has told them.
CoordFirstReq_AssumeRunning(c) ==
  /\ to_coord[c] # << >>
  /\ to_coord' = [to_coord EXCEPT ![c] = Tail(@)]
  /\ LET m == Head(to_coord[c]) IN
     IF coord.running THEN UNCHANGED starts
     ELSE SendStartWave(coord.wave, IF m.wave < coord.wave THEN None ELSE m.exclude)
  /\ coord' = [coord EXCEPT !.running = TRUE]
  /\ UNCHANGED <<client, first_req, input, published, outputs, engine_vars,
                 request_vars, sent, pause_vars>>

\* A client has sent a request to an engine that it takes for paused.
CoordFirstReq(c) ==
  /\ to_coord[c] # << >>
  /\ to_coord' = [to_coord EXCEPT ![c] = Tail(@)]
  /\ LET m == Head(to_coord[c]) IN
     IF coord.running THEN UNCHANGED starts
     ELSE SendStartWave(coord.wave, IF m.wave < coord.wave THEN None ELSE m.exclude)
  /\ UNCHANGED <<client, first_req, input, published, outputs, coord, engine_vars,
                 request_vars, sent, pause_vars>>

\* The coordinator's state after a wave_complete it has not heard of yet.
CoordWaveComplete(wave) == [wave |-> wave + 1, running |-> FALSE]

\* A wave_complete or a start_wave from an engine; the ones that are out of
\* date are dropped.
CoordOutput(e) ==
  /\ outputs[e] # << >>
  /\ outputs' = [outputs EXCEPT ![e] = Tail(@)]
  /\ LET m == Head(outputs[e])
         ends == m.type = "wave_complete" /\ coord.wave <= m.wave
         begins == m.type = "start_wave"
                   /\ (m.wave > coord.wave \/ (m.wave = coord.wave /\ ~ coord.running))
     IN /\ coord' = CASE ends -> CoordWaveComplete(m.wave)
                      [] begins -> [wave |-> m.wave, running |-> TRUE]
                      [] OTHER -> coord
        /\ IF ends \/ begins THEN PublishState(coord') ELSE UNCHANGED published
        /\ IF begins THEN SendStartWave(m.wave, Index(e)) ELSE UNCHANGED starts
  /\ UNCHANGED <<client, first_req, input, to_coord, engine_vars, request_vars, sent,
                 pause_vars>>

\* The poll times out, every 5 seconds at the latest. (To publish what every
\* client knows changes nothing.)
CoordPublish ==
  /\ \A c \in Clients : published[c] = << >>
  /\ \E c \in Clients : client[c] # coord
  /\ PublishState(coord)
  /\ UNCHANGED <<client, first_req, input, to_coord, starts, outputs, coord,
                 engine_vars, request_vars, sent, pause_vars>>

-----------------------------------------------------------------------------
(* The engines: handlers of the input phase.                                *)

\* scheduler.has_unfinished_requests under each pause state
Unfinished(e) ==
  CASE engine[e].pause = "paused_all" -> {}
    [] engine[e].pause = "paused_new" -> running[e]
    [] OTHER -> waiting[e] \cup running[e]

HasWork(e) == engine[e].engines_running \/ Unfinished(e) # {}

Received(c, e, type) ==
  /\ phase[e] = "input" /\ input[c][e] # << >> /\ Head(input[c][e]).type = type
  /\ input' = [input EXCEPT ![c][e] = Tail(@)]

\* Mutant: a request of a wave that is over does not wake the other engines.
StaleWave_Unseen(e, wave) == FALSE

\* add_request finds a request for a wave that is over while the engine idles.
StaleWave(e, wave) ==
  /\ wave < engine[e].current_wave
  /\ ~ engine[e].engines_running /\ engine[e].pause = "unpaused"

\* DPEngineCoreProc.add_request.
HandleAdd(c, e) ==
  /\ Received(c, e, "ADD")
  /\ LET m == Head(input[c][e])
         stale == StaleWave(e, m.wave)
     IN /\ IF left[m.req] = 0
           THEN done' = done \cup {m.req} /\ UNCHANGED waiting
           ELSE waiting' = [waiting EXCEPT ![e] = @ \cup {m.req}] /\ UNCHANGED done
        /\ engine' = [engine EXCEPT
             ![e].current_wave = IF m.wave > @ THEN m.wave ELSE @,
             ![e].engines_running = @ \/ stale]
        /\ outputs' = IF stale
             THEN Put(outputs, e, [type |-> "start_wave", wave |-> engine[e].current_wave])
             ELSE outputs
  /\ UNCHANGED <<client, first_req, to_coord, published, starts, coord, phase,
                 step_counter, running, left, sent, pause_vars>>

\* Mutant: a stale START_DP_WAVE wakes engines that a pause has stopped.
AcceptsStart_WhilePaused(e, m) ==
  m.exclude # Index(e) /\ m.wave >= engine[e].current_wave

\* Mutant: a START_DP_WAVE is taken whatever wave it is for.
AcceptsStart_AnyWave(e, m) ==
  ~ engine[e].ignore_start /\ m.exclude # Index(e)

\* Mutant: a START_DP_WAVE is taken only if it is for a later wave.
AcceptsStart_LaterWave(e, m) ==
  /\ ~ engine[e].ignore_start
  /\ m.exclude # Index(e) /\ m.wave > engine[e].current_wave

\* A START_DP_WAVE is discarded after a pause, and not taken if it is too old or
\* names the engine_index of this engine; an identity is no engine_index.
AcceptsStart(e, m) ==
  /\ ~ engine[e].ignore_start
  /\ m.exclude # Index(e) /\ m.wave >= engine[e].current_wave

HandleStart(e) ==
  /\ phase[e] = "input" /\ starts[e] # << >>
  /\ starts' = [starts EXCEPT ![e] = Tail(@)]
  /\ LET m == Head(starts[e]) IN
     engine' = IF AcceptsStart(e, m)
               THEN [engine EXCEPT ![e].current_wave = m.wave,
                                   ![e].engines_running = TRUE]
               ELSE engine
  /\ UNCHANGED <<client, first_req, input, to_coord, published, outputs, coord, phase,
                 step_counter, request_vars, sent, pause_vars>>

\* pause_scheduler: its first phase. The engine runs on until all agree.
HandlePause(e) ==
  /\ Received(Pauser, e, "PAUSE")
  /\ LET mode == Head(input[Pauser][e]).mode
         dropped == IF mode = "abort" THEN waiting[e] \cup running[e] ELSE {}
     IN /\ engine' = [engine EXCEPT
             ![e].pause = IF mode = "keep" THEN "paused_all" ELSE "paused_new",
             ![e].pending_pause = TRUE, ![e].engines_running = TRUE]
        /\ waiting' = [waiting EXCEPT ![e] = @ \ dropped]
        /\ running' = [running EXCEPT ![e] = @ \ dropped]
        /\ done' = done \cup dropped
  /\ UNCHANGED <<client, first_req, to_coord, published, starts, outputs, coord, phase,
                 step_counter, left, sent, pause_vars>>

\* resume_scheduler up to its all-reduce; a call that comes while the engine
\* runs or is still pausing raises or is ignored.
HandleResume(e) ==
  /\ Received(Pauser, e, "RESUME")
  /\ IF engine[e].engines_running \/ engine[e].pending_pause
     THEN UNCHANGED <<engine, phase>>
     ELSE /\ engine' = [engine EXCEPT ![e].pause = "unpaused", ![e].ignore_start = FALSE]
          /\ phase' = [phase EXCEPT ![e] = "resume"]
  /\ UNCHANGED <<client, first_req, to_coord, published, starts, outputs, coord,
                 step_counter, request_vars, sent, pause_vars>>

\* The all-reduce of resume_scheduler, has_unfinished_dp.
ResumeBarrier ==
  /\ \A e \in Engines : phase[e] = "resume"
  /\ phase' = [e \in Engines |-> "input"]
  /\ engine' = [e \in Engines |->
       [engine[e] EXCEPT !.engines_running = \E f \in Engines : Unfinished(f) # {}]]
  /\ UNCHANGED <<client, first_req, channel_vars, coord, step_counter, request_vars,
                 sent, pause_vars>>

-----------------------------------------------------------------------------
(* The engines: a forward pass and what follows it in run_busy_loop.        *)

\* The scheduler schedules, or the engine has nothing to run and starts a
\* dummy batch: either way it enters the collective.
EnterForward(e) ==
  /\ phase[e] = "input" /\ HasWork(e)
  /\ phase' = [phase EXCEPT ![e] = "forward"]
  /\ IF engine[e].pause = "unpaused"
     THEN /\ running' = [running EXCEPT ![e] = @ \cup waiting[e]]
          /\ waiting' = [waiting EXCEPT ![e] = {}]
     ELSE UNCHANGED <<running, waiting>>
  /\ UNCHANGED <<client, first_req, channel_vars, coord, engine, step_counter, left,
                 done, sent, pause_vars>>

\* Mutant: a request is stepped once more than it takes.
Finishes_Late(r) == left[r] = 0

\* The forward pass is the request's last one.
Finishes(r) == left[r] = 1

\* The result of sync_dp_state.
GlobalUnfinished(unfinished, pause_count) ==
  unfinished \/ pause_count % dp_size # 0

\* All engines are in the forward pass, and it runs. The requests in it make
\* progress, and every SyncInterval passes the engines agree whether to go on.
\* Rank 0 tells the coordinator when they stop and when they have started. The
\* engines that stop for a pause resolve its future before they take input.
Step ==
  /\ \A e \in Engines : phase[e] = "forward"
  /\ phase' = [e \in Engines |-> "input"]
  /\ LET executed(e) == IF engine[e].pause = "paused_all" THEN {} ELSE running[e]
         finished(e) == {r \in executed(e) : Finishes(r)}
         local(e) == CASE engine[e].pause = "paused_all" -> FALSE
                       [] engine[e].pause = "paused_new" -> running'[e] # {}
                       [] OTHER -> waiting[e] \cup running'[e] # {}
         sync == (step_counter + 1) % SyncInterval = 0
         pause_count == Cardinality({e \in Engines : engine[e].pending_pause})
         consensus == sync /\ pause_count = dp_size
         on == sync => GlobalUnfinished(\E e \in Engines : local(e), pause_count)
         pending == engine[0].pending_pause /\ ~ consensus
     IN /\ running' = [e \in Engines |-> running[e] \ finished(e)]
        /\ left' = [r \in Requests |->
             IF \E e \in Engines : r \in executed(e) THEN left[r] - 1 ELSE left[r]]
        /\ done' = done \cup UNION {finished(e) : e \in Engines}
        /\ step_counter' = IF on THEN (step_counter + 1) % SyncInterval ELSE 0
        /\ engine' = [e \in Engines |-> [engine[e] EXCEPT
             !.engines_running = on, !.was_running = on,
             !.pending_pause = @ /\ ~ consensus,
             !.ignore_start = @ \/ consensus,
             !.current_wave = IF on THEN @ ELSE @ + 1]]
        /\ outputs' =
             CASE ~ on -> Put(outputs, 0,
                    [type |-> "wave_complete", wave |-> engine[0].current_wave])
               [] on /\ ~ engine[0].was_running /\ ~ pending -> Put(outputs, 0,
                    [type |-> "start_wave", wave |-> engine[0].current_wave])
               [] OTHER -> outputs
        /\ pausing' = IF ~ on /\ \A e \in Engines : engine[e].pause # "unpaused"
                      THEN "resolved" ELSE pausing
  /\ UNCHANGED <<client, first_req, input, to_coord, published, starts, coord, waiting,
                 sent, pauses>>

-----------------------------------------------------------------------------
ClientStep(c) == ForwardFirstReq(c) \/ StatsUpdate(c)

CoordInput ==
  \/ \E c \in Clients : CoordFirstReq(c)
  \/ \E e \in Engines : CoordOutput(e)

EngineInput(e) ==
  \/ \E c \in Clients : HandleAdd(c, e)
  \/ HandleStart(e) \/ HandlePause(e) \/ HandleResume(e)

Next ==
  \/ \E c \in Clients, e \in Engines, n \in Lengths : AddRequest(c, e, n)
  \/ \E mode \in PauseModes : CallPause(mode)
  \/ CallResume
  \/ \E c \in Clients : ClientStep(c)
  \/ CoordInput \/ CoordPublish
  \/ \E e \in Engines : EngineInput(e) \/ EnterForward(e)
  \/ ResumeBarrier \/ Step

Spec == Init /\ [][Next]_vars

\* Every process keeps polling its sockets; an engine drains what has arrived
\* each time it gets to its input, however soon it leaves it again (hence the
\* strong fairness); a collective that everyone has entered completes; who has
\* paused the engines resumes them. Clients need not send anything.
Fairness ==
  /\ \A c \in Clients : WF_vars(ClientStep(c))
  /\ WF_vars(CoordInput) /\ WF_vars(CoordPublish)
  /\ \A e \in Engines : SF_vars(EngineInput(e)) /\ WF_vars(EnterForward(e))
  /\ WF_vars(ResumeBarrier) /\ WF_vars(Step)
  /\ WF_vars(CallResume)

FairSpec == Spec /\ Fairness

-----------------------------------------------------------------------------
(* Properties.                                                              *)

\* What a client sends to an engine.
Message == [type : {"ADD"}, req : Requests, wave : Nat]
           \cup [type : {"PAUSE"}, mode : PauseModes] \cup [type : {"RESUME"}]

\* What a START_DP_WAVE may name.
Excludes == {Identity(e) : e \in Engines} \cup {Index(e) : e \in Engines} \cup {None}

\* The messages and fields have the types the code gives them.
TypeOK ==
  /\ client \in [Clients -> [wave : Nat, running : BOOLEAN]]
  /\ coord \in [wave : Nat, running : BOOLEAN]
  /\ first_req \in [Clients -> Seq({Identity(e) : e \in Engines})]
  /\ input \in [Clients -> [Engines -> Seq(Message)]]
  /\ to_coord \in [Clients -> Seq([exclude : {Identity(e) : e \in Engines}, wave : Nat])]
  /\ published \in [Clients -> Seq([wave : Nat, running : BOOLEAN])]
  /\ starts \in [Engines -> Seq([wave : Nat, exclude : Excludes])]
  /\ outputs \in [Engines -> Seq([type : {"wave_complete", "start_wave"}, wave : Nat])]
  /\ phase \in [Engines -> {"input", "forward", "resume"}]
  /\ engine \in [Engines ->
       [current_wave : Nat, engines_running : BOOLEAN, was_running : BOOLEAN,
        pause : {"unpaused", "paused_new", "paused_all"}, pending_pause : BOOLEAN,
        ignore_start : BOOLEAN]]
  /\ step_counter \in 0 .. (SyncInterval - 1)
  /\ {waiting, running} \subseteq [Engines -> SUBSET Requests]
  /\ left \in [Requests -> Nat] /\ sent \in 0 .. MaxCalls /\ done \subseteq 1 .. sent
  /\ pauses \in 0 .. MaxCalls /\ pausing \in {"no", "pending", "resolved"}

\* The engines count the same waves, though START_DP_WAVE and requests may set
\* an engine's current_wave, and no one else is ahead of them: what the
\* coordinator and the clients know may be old and never from the future.
WavesAgree ==
  /\ \A e, f \in Engines : engine[e].current_wave = engine[f].current_wave
  /\ coord.wave <= engine[0].current_wave
  /\ \A c \in Clients : client[c].wave <= coord.wave

\* From the moment the pause has resolved on every engine until it is resumed
\* no engine enters a forward pass, whatever requests and old START_DP_WAVEs
\* arrive meanwhile (test_dp_pause_barrier_request_deadlock).
PauseHolds == pausing = "resolved" => \A e \in Engines : phase[e] = "input" /\ ~ HasWork(e)

\* No engine waits in a forward pass for ever: all the others are woken to join
\* it. (Step takes all engines out of the pass at once.)
ForwardCompletes == []<>(\A e \in Engines : phase[e] # "forward")

\* Every request is served, though it may be sent to engines that are just
\* going idle, stamped with an old wave, or wait out a pause: with no more than
\* MaxCalls of them, all that were sent are served in the end.
RequestsServed == []<>(done = 1 .. sent)

\* Once the requests are served the coordinator and the clients take the
\* engines for paused (dp_engines_running, which drain polls), though paused
\* engines discard the START_DP_WAVE that a late request causes.
FlagsSettle == <>[] (~ coord.running /\ \A c \in Clients : ~ client[c].running)
=============================================================================
