--------------------------- MODULE DPWaves_proof ---------------------------
(***************************************************************************)
(* Proofs about DPWaves, for every number of engines and clients, every     *)
(* bound on the calls and whether or not requests cross a resume:           *)
(*                                                                          *)
(*   - the types, which need that a request is in one place only and that   *)
(*     every request an engine holds has a forward pass left (Placed);      *)
(*   - WavesAgree, which needs that no message is ahead of the engines      *)
(*     (WavesKnown);                                                        *)
(*   - PauseHolds, which needs the protocol that pause_scheduler and        *)
(*     resume_scheduler go through on all the engines together (PauseInv).  *)
(***************************************************************************)
EXTENDS DPWaves, FiniteSetTheorems, TLAPS

-----------------------------------------------------------------------------
(* The inductive invariant.                                                 *)

\* The states a coordinator publishes, the other messages, and the fields of an
\* engine.
WaveState == [wave : Nat, running : BOOLEAN]
Identities == {Identity(e) : e \in Engines}
FirstReq == [exclude : Identities, wave : Nat]
StartWave == [wave : Nat, exclude : Excludes]
Output == [type : {"wave_complete", "start_wave"}, wave : Nat]
EngineState ==
  [current_wave : Nat, engines_running : BOOLEAN, was_running : BOOLEAN,
   pause : {"unpaused", "paused_new", "paused_all"}, pending_pause : BOOLEAN,
   ignore_start : BOOLEAN]

\* TypeOK, with these names.
Typed ==
  /\ client \in [Clients -> WaveState] /\ coord \in WaveState
  /\ first_req \in [Clients -> Seq(Identities)]
  /\ input \in [Clients -> [Engines -> Seq(Message)]]
  /\ to_coord \in [Clients -> Seq(FirstReq)]
  /\ published \in [Clients -> Seq(WaveState)]
  /\ starts \in [Engines -> Seq(StartWave)]
  /\ outputs \in [Engines -> Seq(Output)]
  /\ phase \in [Engines -> {"input", "forward", "resume"}]
  /\ engine \in [Engines -> EngineState]
  /\ step_counter \in 0 .. (SyncInterval - 1)
  /\ waiting \in [Engines -> SUBSET Requests]
  /\ running \in [Engines -> SUBSET Requests]
  /\ left \in [Requests -> Nat] /\ sent \in 0 .. MaxCalls /\ done \subseteq 1 .. sent
  /\ pauses \in 0 .. MaxCalls /\ pausing \in {"no", "pending", "resolved"}

\* The requests an engine's scheduler holds.
Held(e) == waiting[e] \cup running[e]

\* The message at place i of a client's channel to an engine is an ADD.
AddAt(c, e, i) == i \in DOMAIN input[c][e] /\ input[c][e][i].type = "ADD"

\* A request is in one place only: in one ADD, or waiting or running in one
\* engine, or in none of them. What an engine holds has passes left.
HeldPlaced ==
  /\ \A e \in Engines : \A r \in Held(e) : r <= sent /\ left[r] >= 1
  /\ \A e \in Engines : waiting[e] \cap running[e] = {}
  /\ \A e, f \in Engines : e # f => Held(e) \cap Held(f) = {}
AddsPlaced ==
  /\ \A c \in Clients, e \in Engines : \A i \in DOMAIN input[c][e] : AddAt(c, e, i) =>
       /\ input[c][e][i].req <= sent
       /\ \A f \in Engines : input[c][e][i].req \notin Held(f)
  /\ \A c, d \in Clients, e, f \in Engines :
       \A i \in DOMAIN input[c][e], j \in DOMAIN input[d][f] :
         /\ AddAt(c, e, i) /\ AddAt(d, f, j)
         /\ input[c][e][i].req = input[d][f][j].req
         => c = d /\ e = f /\ i = j
Placed == HeldPlaced /\ AddsPlaced

\* The waves of a channel's messages, of its ADDs, and of an engine's outputs, of
\* which a wave_complete is about a wave that is over.
Below(s, w) == \A i \in DOMAIN s : s[i].wave <= w
AddsBelow(s, w) == \A i \in DOMAIN s : s[i].type = "ADD" => s[i].wave <= w
OutputsBelow(s, w) ==
  \A i \in DOMAIN s :
    s[i].wave <= w /\ (s[i].type = "wave_complete" => s[i].wave < w)

\* No message and no party is ahead of the engines, which are all in one wave.
WavesKnown ==
  /\ WavesAgree
  /\ \A c \in Clients : Below(published[c], coord.wave)
  /\ \A c \in Clients, e \in Engines : AddsBelow(input[c][e], engine[0].current_wave)
  /\ \A e \in Engines : Below(starts[e], engine[0].current_wave)
  /\ \A e \in Engines : OutputsBelow(outputs[e], engine[0].current_wave)

\* A message of that type is in the sequence.
Has(s, type) == \E i \in DOMAIN s : s[i].type = type

HasPause(e) == Has(input[Pauser][e], "PAUSE")
HasResume(e) == Has(input[Pauser][e], "RESUME")

\* At most one PAUSE and one RESUME, the RESUME first.
Orderly(s) ==
  /\ \A i, j \in DOMAIN s : s[i].type = s[j].type /\ s[i].type # "ADD" => i = j
  /\ \A i, j \in DOMAIN s : s[i].type = "RESUME" /\ s[j].type = "PAUSE" => i < j

\* An engine that no pause has reached; one that has begun a pause and runs on
\* until all have; one that all have begun with, which works off the requests
\* it runs; and one that has stopped for the pause.
Fresh(e) ==
  engine[e].pause = "unpaused" /\ ~ engine[e].pending_pause /\ ~ engine[e].ignore_start
Pausing(e) ==
  /\ engine[e].pause # "unpaused"
  /\ engine[e].pending_pause /\ ~ engine[e].ignore_start /\ engine[e].engines_running
Draining(e) ==
  /\ engine[e].pause # "unpaused"
  /\ ~ engine[e].pending_pause /\ engine[e].ignore_start /\ engine[e].engines_running
Stopped(e) ==
  /\ engine[e].pause # "unpaused"
  /\ ~ engine[e].pending_pause /\ engine[e].ignore_start /\ ~ engine[e].engines_running
  /\ phase[e] = "input"
  /\ engine[e].pause = "paused_new" => running[e] = {}

\* The stages that the engines go through together. In the first, with no pause
\* or one that some engines have begun, an engine has begun it once it has
\* taken the PAUSE from its channel.
RunStage ==
  /\ pausing # "resolved"
  /\ \A e \in Engines :
       /\ ~ HasResume(e) /\ phase[e] # "resume"
       /\ pausing = "no" => ~ HasPause(e)
       /\ IF pausing = "no" \/ HasPause(e) THEN Fresh(e) ELSE Pausing(e)
DrainStage ==
  /\ pausing = "pending"
  /\ \A e \in Engines :
       ~ HasResume(e) /\ ~ HasPause(e) /\ phase[e] # "resume" /\ Draining(e)
StopStage ==
  /\ pausing = "resolved"
  /\ \A e \in Engines : ~ HasResume(e) /\ ~ HasPause(e) /\ Stopped(e)

\* Every engine has the RESUME before it, or is in the barrier that ends it.
\* The next PAUSE may be behind it.
ResumeStage ==
  /\ pausing # "resolved"
  /\ \A e \in Engines :
       /\ HasPause(e) <=> pausing = "pending"
       /\ IF HasResume(e) THEN Stopped(e)
          ELSE phase[e] = "resume" /\ Fresh(e) /\ ~ engine[e].engines_running

PauseInv ==
  /\ \A e \in Engines : Orderly(input[Pauser][e])
  /\ RunStage \/ DrainStage \/ StopStage \/ ResumeStage

WaveInv == Typed /\ Placed /\ WavesKnown /\ PauseInv

-----------------------------------------------------------------------------
(* Facts about the channels.                                                *)

\* Appending a message to a channel, and taking its first.
LEMMA Appended ==
  ASSUME NEW S, NEW s \in Seq(S), NEW m \in S
  PROVE  /\ Append(s, m) \in Seq(S)
         /\ DOMAIN s = 1 .. Len(s) /\ DOMAIN Append(s, m) = 1 .. (Len(s) + 1)
         /\ \A i \in DOMAIN s : i \in DOMAIN Append(s, m) /\ Append(s, m)[i] = s[i]
         /\ \A i \in DOMAIN Append(s, m) :
              \/ i \in DOMAIN s /\ Append(s, m)[i] = s[i]
              \/ i = Len(s) + 1 /\ Append(s, m)[i] = m
         /\ Len(s) + 1 \in DOMAIN Append(s, m) /\ Append(s, m)[Len(s) + 1] = m
         /\ Len(s) \in Nat
<1> DEFINE t == Append(s, m)
           n == Len(s)
<1>1. /\ t \in Seq(S) /\ n \in Nat /\ Len(t) = n + 1 /\ t[n + 1] = m
      /\ \A i \in 1 .. n : t[i] = s[i]
  OBVIOUS
<1>2. DOMAIN s = 1 .. n
  OBVIOUS
<1>3. DOMAIN t = 1 .. (n + 1)
  BY <1>1
<1> HIDE DEF t, n
<1>4. \A i \in 1 .. (n + 1) : i \in 1 .. n \/ i = n + 1
  BY <1>1
<1>5. \A i \in 1 .. n : i \in 1 .. (n + 1)
  BY <1>1
<1>6. n + 1 \in 1 .. (n + 1)
  BY <1>1
<1>7. \A i \in DOMAIN s : i \in DOMAIN t /\ t[i] = s[i]
  BY <1>1, <1>2, <1>3, <1>5
<1>8. ASSUME NEW i \in DOMAIN t
      PROVE  (i \in DOMAIN s /\ t[i] = s[i]) \/ (i = n + 1 /\ t[i] = m)
  <2>1. i \in 1 .. n \/ i = n + 1
    BY <1>3, <1>4
  <2>2. CASE i \in 1 .. n
    <3>1. i \in DOMAIN s
      BY <1>2, <2>2
    <3> QED BY <1>7, <3>1
  <2>3. CASE i = n + 1
    BY <1>1, <2>3
  <2> QED BY <2>1, <2>2, <2>3
<1>9. n + 1 \in DOMAIN t /\ t[n + 1] = m /\ n \in Nat
  BY <1>1, <1>3, <1>6
<1> QED BY <1>1, <1>2, <1>3, <1>7, <1>8, <1>9 DEF t, n

LEMMA Taken ==
  ASSUME NEW S, NEW s \in Seq(S), s # << >>
  PROVE  /\ Tail(s) \in Seq(S) /\ Head(s) \in S
         /\ DOMAIN s = 1 .. Len(s) /\ DOMAIN Tail(s) = 1 .. (Len(s) - 1)
         /\ 1 \in DOMAIN s /\ Head(s) = s[1]
         /\ \A i \in DOMAIN Tail(s) : i + 1 \in DOMAIN s /\ Tail(s)[i] = s[i + 1]
         /\ \A i \in DOMAIN s : i = 1 \/ (i - 1 \in DOMAIN Tail(s) /\ Tail(s)[i - 1] = s[i])
         /\ Len(s) \in Nat
<1> DEFINE t == Tail(s)
           h == Head(s)
           n == Len(s)
<1>1. /\ t \in Seq(S) /\ n \in Nat \ {0} /\ Len(t) = n - 1 /\ h = s[1]
      /\ \A i \in 1 .. (n - 1) : t[i] = s[i + 1]
  OBVIOUS
<1>2. DOMAIN s = 1 .. n /\ h \in S
  OBVIOUS
<1>3. DOMAIN t = 1 .. (n - 1)
  BY <1>1
<1> HIDE DEF t, n, h
<1>4. 1 \in 1 .. n /\ \A i \in 1 .. (n - 1) : i + 1 \in 1 .. n /\ i \in Int
  BY <1>1
<1>5. ASSUME NEW i \in 1 .. n, i # 1 PROVE i - 1 \in 1 .. (n - 1) /\ t[i - 1] = s[i]
  <2>1. i - 1 \in 1 .. (n - 1) /\ (i - 1) + 1 = i
    BY <1>1, <1>5
  <2>2. t[i - 1] = s[(i - 1) + 1]
    BY <1>1, <2>1, Zenon
  <2> QED BY <2>1, <2>2
<1>6. 1 \in DOMAIN s /\ h = s[1]
  BY <1>1, <1>2, <1>4
<1>7. \A i \in DOMAIN t : i + 1 \in DOMAIN s /\ t[i] = s[i + 1]
  BY <1>1, <1>2, <1>3, <1>4
<1>8. ASSUME NEW i \in DOMAIN s, i # 1 PROVE i - 1 \in DOMAIN t /\ t[i - 1] = s[i]
  <2>1. i \in 1 .. n
    BY <1>2
  <2> QED BY <1>3, <1>5, <1>8, <2>1
<1> HIDE DEF t, n, h
<1>9. \A i \in DOMAIN s : i = 1 \/ (i - 1 \in DOMAIN t /\ t[i - 1] = s[i])
  BY <1>8, Zenon
<1>10. n \in Nat
  BY <1>1
<1> QED BY <1>1, <1>2, <1>3, <1>6, <1>7, <1>9, <1>10 DEF t, n, h

\* What Append and Tail do to the types of the messages in a channel.
LEMMA HasAppended ==
  ASSUME NEW S, NEW s \in Seq(S), NEW m \in S, NEW type
  PROVE  Has(Append(s, m), type) <=> Has(s, type) \/ m.type = type
  BY Appended DEF Has

LEMMA HasTaken ==
  ASSUME NEW S, NEW s \in Seq(S), s # << >>, NEW type
  PROVE  Has(s, type) <=> Has(Tail(s), type) \/ Head(s).type = type
<1> DEFINE t == Tail(s)
           h == Head(s)
<1>1. /\ 1 \in DOMAIN s /\ h = s[1]
      /\ \A i \in DOMAIN t : i + 1 \in DOMAIN s /\ t[i] = s[i + 1]
      /\ \A i \in DOMAIN s : i = 1 \/ (i - 1 \in DOMAIN t /\ t[i - 1] = s[i])
  BY Taken
<1> HIDE DEF t, h
<1>2. Has(s, type) <=> Has(t, type) \/ h.type = type
  BY <1>1 DEF Has
<1> QED BY <1>2 DEF t, h

LEMMA OrderlyAppended ==
  ASSUME NEW S, NEW s \in Seq(S), NEW m \in S, Orderly(s),
         \/ m.type = "ADD"
         \/ m.type = "RESUME" /\ ~ Has(s, "RESUME") /\ ~ Has(s, "PAUSE")
         \/ m.type = "PAUSE" /\ ~ Has(s, "PAUSE")
  PROVE  Orderly(Append(s, m))
  BY Appended DEF Has, Orderly

LEMMA OrderlyTaken ==
  ASSUME NEW S, NEW s \in Seq(S), s # << >>, Orderly(s)
  PROVE  /\ Orderly(Tail(s))
         /\ Head(s).type # "ADD" => ~ Has(Tail(s), Head(s).type)
         /\ Head(s).type = "PAUSE" => ~ Has(s, "RESUME")
  BY Taken DEF Has, Orderly

-----------------------------------------------------------------------------
(* What the steps do to the channels from the clients to the engines.       *)

\* A message from client c to engine e, and only that channel, is appended to.
LEMMA Sent ==
  ASSUME Typed, NEW c \in Clients, NEW e \in Engines, NEW m \in Message,
         input' = [input EXCEPT ![c][e] = Append(@, m)]
  PROVE  /\ input' \in [Clients -> [Engines -> Seq(Message)]]
         /\ input[c][e] \in Seq(Message) /\ input'[c][e] = Append(input[c][e], m)
         /\ \A d \in Clients, f \in Engines :
              (d # c \/ f # e) => input'[d][f] = input[d][f]
<1>1. input \in [Clients -> [Engines -> Seq(Message)]]
  BY DEF Typed
<1>2. input[c] \in [Engines -> Seq(Message)] /\ input[c][e] \in Seq(Message)
  BY <1>1
<1>3. Append(input[c][e], m) \in Seq(Message)
  BY <1>2, Appended
<1> QED BY <1>1, <1>2, <1>3

\* The first message of the channel from c to e is taken.
LEMMA Got ==
  ASSUME Typed, NEW c \in Clients, NEW e \in Engines, NEW type, Received(c, e, type)
  PROVE  /\ input' \in [Clients -> [Engines -> Seq(Message)]]
         /\ input[c][e] \in Seq(Message) /\ input[c][e] # << >>
         /\ Head(input[c][e]) \in Message /\ Head(input[c][e]).type = type
         /\ input'[c][e] = Tail(input[c][e])
         /\ \A d \in Clients, f \in Engines :
              (d # c \/ f # e) => input'[d][f] = input[d][f]
<1>1. input \in [Clients -> [Engines -> Seq(Message)]]
  BY DEF Typed
<1>2. input[c] \in [Engines -> Seq(Message)] /\ input[c][e] \in Seq(Message)
  BY <1>1
<1>3. /\ input[c][e] # << >> /\ Head(input[c][e]).type = type
      /\ input' = [input EXCEPT ![c][e] = Tail(@)]
  BY DEF Received
<1>4. Tail(input[c][e]) \in Seq(Message) /\ Head(input[c][e]) \in Message
  BY <1>2, <1>3, Taken
<1> QED BY <1>1, <1>2, <1>3, <1>4

\* The fields of the three kinds of message.
LEMMA MessageFields ==
  ASSUME NEW m \in Message
  PROVE  /\ m.type \in {"ADD", "PAUSE", "RESUME"}
         /\ m.type = "ADD" => m.req \in Requests /\ m.wave \in Nat
         /\ m.type = "PAUSE" => m.mode \in PauseModes
  BY DEF Message

\* Appending to one of the other channels, and taking from it.
LEMMA PutType ==
  ASSUME NEW D, NEW S, NEW chan \in [D -> Seq(S)], NEW x \in D, NEW m \in S
  PROVE  /\ Put(chan, x, m) \in [D -> Seq(S)]
         /\ Put(chan, x, m)[x] = Append(chan[x], m)
         /\ \A y \in D : y # x => Put(chan, x, m)[y] = chan[y]
<1>1. Append(chan[x], m) \in Seq(S)
  OBVIOUS
<1> QED BY <1>1 DEF Put

LEMMA TakeType ==
  ASSUME NEW D, NEW S, NEW chan \in [D -> Seq(S)], NEW x \in D, chan[x] # << >>
  PROVE  /\ [chan EXCEPT ![x] = Tail(@)] \in [D -> Seq(S)]
         /\ [chan EXCEPT ![x] = Tail(@)][x] = Tail(chan[x])
         /\ \A y \in D : y # x => [chan EXCEPT ![x] = Tail(@)][y] = chan[y]
         /\ Head(chan[x]) \in S
<1>1. chan[x] \in Seq(S)
  OBVIOUS
<1>2. Tail(chan[x]) \in Seq(S) /\ Head(chan[x]) \in S
  BY <1>1, Taken
<1> QED BY <1>2

-----------------------------------------------------------------------------
(* The types.                                                               *)

LEMMA TypedIsTypeOK == Typed => TypeOK
  BY DEF Typed, TypeOK, WaveState, FirstReq, StartWave, Output, EngineState,
         Identities

LEMMA InitInv == Init => WaveInv
<1> SUFFICES ASSUME Init PROVE WaveInv
  OBVIOUS
<1> USE WaveAssumption DEF Init
<1>1. 0 \in Engines /\ 1 \in Clients
  BY DEF Engines, Clients
<1>2. Typed
  BY DEF Typed, Requests, WaveState, EngineState
<1>3. Placed
  BY DEF Placed, HeldPlaced, AddsPlaced, Held, AddAt
<1>4. WavesKnown
  BY <1>1 DEF WavesKnown, WavesAgree, Below, AddsBelow, OutputsBelow
<1>5. \A e \in Engines : Orderly(input[Pauser][e]) /\ ~ HasPause(e) /\ ~ HasResume(e)
  BY <1>1 DEF Orderly, HasPause, HasResume, Has, Pauser
<1>6. RunStage
  BY <1>5 DEF RunStage, Fresh
<1> QED BY <1>2, <1>3, <1>4, <1>5, <1>6 DEF WaveInv, PauseInv

\* Setting fields of an engine.
LEMMA SetWave ==
  ASSUME NEW E, NEW s \in [E -> EngineState], NEW e \in E, NEW w \in Nat, NEW b \in BOOLEAN
  PROVE  [s EXCEPT ![e].current_wave = w, ![e].engines_running = b] \in [E -> EngineState]
  BY DEF EngineState

LEMMA SetPause ==
  ASSUME NEW E, NEW s \in [E -> EngineState], NEW e \in E,
         NEW p \in {"paused_new", "paused_all"}
  PROVE  [s EXCEPT ![e].pause = p, ![e].pending_pause = TRUE, ![e].engines_running = TRUE]
           \in [E -> EngineState]
  BY DEF EngineState

\* The clients keep the types.
LEMMA ClientTypes ==
  ASSUME Typed,
         \/ \E c \in Clients, e \in Engines, n \in Lengths : AddRequest(c, e, n)
         \/ \E mode \in PauseModes : CallPause(mode)
         \/ CallResume
         \/ \E c \in Clients : ClientStep(c)
  PROVE  Typed'
<1> USE WaveAssumption DEF channel_vars, request_vars, engine_vars, pause_vars
<1>0. Pauser \in Clients
  BY DEF Pauser, Clients
<1>1. ASSUME NEW c \in Clients, NEW e \in Engines, NEW n \in Lengths, AddRequest(c, e, n)
      PROVE  Typed'
  <2> DEFINE m == [type |-> "ADD", req |-> sent + 1, wave |-> client[c].wave]
  <2>1. sent + 1 \in Requests /\ sent' = sent + 1 /\ sent' \in 0 .. MaxCalls
    BY <1>1 DEF AddRequest, Typed, Requests
  <2>2. m \in Message
    BY <2>1 DEF Typed, WaveState, Message
  <2>3. input' \in [Clients -> [Engines -> Seq(Message)]]
    BY <1>1, <2>2, Sent DEF AddRequest
  <2>4. first_req' \in [Clients -> Seq(Identities)]
    <3>1. Identity(e) \in Identities
      BY DEF Identities
    <3> QED BY <1>1, <3>1, PutType DEF AddRequest, Typed
  <2>5. left' \in [Requests -> Nat]
    BY <1>1 DEF AddRequest, Typed
  <2>6. done' \subseteq 1 .. sent'
    BY <1>1, <2>1 DEF AddRequest, Typed
  <2> QED BY <1>1, <2>1, <2>3, <2>4, <2>5, <2>6 DEF AddRequest, Typed
<1>2. ASSUME NEW mode \in PauseModes, CallPause(mode) PROVE Typed'
  <2> DEFINE m == [type |-> "PAUSE", mode |-> mode]
  <2>1. m \in Message
    BY DEF Message
  <2>2. \A e \in Engines : Append(input[Pauser][e], m) \in Seq(Message)
    BY <1>0, <2>1, Appended DEF Typed
  <2>3. input' \in [Clients -> [Engines -> Seq(Message)]]
    BY <1>0, <1>2, <2>2 DEF CallPause, Typed
  <2>4. pauses' \in 0 .. MaxCalls
    BY <1>2 DEF CallPause, Typed
  <2> QED BY <1>2, <2>3, <2>4 DEF CallPause, Typed
<1>3. ASSUME CallResume PROVE Typed'
  <2> DEFINE m == [type |-> "RESUME"]
  <2>1. m \in Message
    BY DEF Message
  <2>2. \A e \in Engines : Append(input[Pauser][e], m) \in Seq(Message)
    BY <1>0, <2>1, Appended DEF Typed
  <2>3. input' \in [Clients -> [Engines -> Seq(Message)]]
    BY <1>0, <1>3, <2>2 DEF CallResume, Typed
  <2> QED BY <1>3, <2>3 DEF CallResume, Typed
<1>4. ASSUME NEW c \in Clients, ForwardFirstReq(c) PROVE Typed'
  <2>1. first_req' \in [Clients -> Seq(Identities)] /\ Head(first_req[c]) \in Identities
    <3>1. first_req \in [Clients -> Seq(Identities)]
      BY DEF Typed
    <3>2. first_req[c] # << >> /\ first_req' = [first_req EXCEPT ![c] = Tail(@)]
      BY <1>4 DEF ForwardFirstReq
    <3> QED BY <3>1, <3>2, TakeType
  <2>2. [exclude |-> Head(first_req[c]), wave |-> client[c].wave] \in FirstReq
    BY <2>1 DEF Typed, FirstReq, WaveState
  <2>3. to_coord' \in [Clients -> Seq(FirstReq)]
    BY <1>4, <2>2, PutType DEF ForwardFirstReq, Typed
  <2>4. client' = [client EXCEPT ![c].running = TRUE]
    BY <1>4 DEF ForwardFirstReq
  <2>5. client' \in [Clients -> WaveState]
    <3>1. client \in [Clients -> WaveState]
      BY DEF Typed
    <3> QED BY <2>4, <3>1 DEF WaveState
  <2> QED BY <1>4, <2>1, <2>3, <2>5 DEF ForwardFirstReq, Typed
<1>5. ASSUME NEW c \in Clients, StatsUpdate(c) PROVE Typed'
  <2>1. /\ published' \in [Clients -> Seq(WaveState)]
        /\ Head(published[c]) \in WaveState
    BY <1>5, TakeType DEF StatsUpdate, Typed
  <2> QED BY <1>5, <2>1 DEF StatsUpdate, Typed
<1> QED BY <1>1, <1>2, <1>3, <1>4, <1>5 DEF ClientStep

\* The messages that the coordinator sends to all clients, and to all engines.
LEMMA PublishType ==
  ASSUME Typed, NEW state \in WaveState, PublishState(state)
  PROVE  /\ published' \in [Clients -> Seq(WaveState)]
         /\ \A c \in Clients : published'[c] = Append(published[c], state)
<1>1. \A c \in Clients : Append(published[c], state) \in Seq(WaveState)
  BY Appended DEF Typed
<1> QED BY <1>1 DEF PublishState

LEMMA StartType ==
  ASSUME Typed, NEW w \in Nat, NEW x \in Excludes, SendStartWave(w, x)
  PROVE  /\ starts' \in [Engines -> Seq(StartWave)]
         /\ \A e \in Engines :
              starts'[e] = Append(starts[e], [wave |-> w, exclude |-> x])
<1>1. [wave |-> w, exclude |-> x] \in StartWave
  BY DEF StartWave
<1>2. \A e \in Engines : Append(starts[e], [wave |-> w, exclude |-> x]) \in Seq(StartWave)
  BY <1>1, Appended DEF Typed
<1> QED BY <1>2 DEF SendStartWave

LEMMA CoordTypes ==
  ASSUME Typed, CoordInput \/ CoordPublish
  PROVE  Typed'
<1> USE WaveAssumption DEF channel_vars, request_vars, engine_vars, pause_vars
<1>1. ASSUME NEW c \in Clients, CoordFirstReq(c) PROVE Typed'
  <2>1. to_coord' \in [Clients -> Seq(FirstReq)] /\ Head(to_coord[c]) \in FirstReq
    BY <1>1, TakeType DEF CoordFirstReq, Typed
  <2>2. /\ coord.wave \in Nat
        /\ Head(to_coord[c]).exclude \in Excludes /\ None \in Excludes
    BY <2>1 DEF Typed, WaveState, FirstReq, Identities, Excludes
  <2>3. starts' \in [Engines -> Seq(StartWave)]
    BY <1>1, <2>2, StartType DEF CoordFirstReq, Typed
  <2> QED BY <1>1, <2>1, <2>3 DEF CoordFirstReq, Typed
<1>2. ASSUME NEW e \in Engines, CoordOutput(e) PROVE Typed'
  <2> DEFINE m == Head(outputs[e])
  <2>1. outputs' \in [Engines -> Seq(Output)] /\ m \in Output
    BY <1>2, TakeType DEF CoordOutput, Typed
  <2>2. m.wave \in Nat
    BY <2>1 DEF Output
  <2>3. coord' \in WaveState
    <3>1. \/ coord' = [wave |-> m.wave + 1, running |-> FALSE]
          \/ coord' = [wave |-> m.wave, running |-> TRUE]
          \/ coord' = coord
      BY <1>2 DEF CoordOutput, CoordWaveComplete
    <3>2. coord \in WaveState
      BY DEF Typed
    <3>3. [wave |-> m.wave + 1, running |-> FALSE] \in WaveState
      BY <2>2 DEF WaveState
    <3>4. [wave |-> m.wave, running |-> TRUE] \in WaveState
      BY <2>2 DEF WaveState
    <3> QED BY <3>1, <3>2, <3>3, <3>4
  <2>4. published' \in [Clients -> Seq(WaveState)]
    BY <1>2, <2>3, PublishType DEF CoordOutput, Typed
  <2>5. starts' \in [Engines -> Seq(StartWave)]
    <3>1. Index(e) \in Excludes
      BY DEF Excludes
    <3> QED BY <1>2, <2>2, <3>1, StartType DEF CoordOutput, Typed
  <2> QED BY <1>2, <2>1, <2>3, <2>4, <2>5 DEF CoordOutput, Typed
<1>3. ASSUME CoordPublish PROVE Typed'
  <2>1. published' \in [Clients -> Seq(WaveState)]
    BY <1>3, PublishType DEF CoordPublish, Typed
  <2> QED BY <1>3, <2>1 DEF CoordPublish, Typed
<1> QED BY <1>1, <1>2, <1>3 DEF CoordInput

\* The engines' input handlers and barriers keep them.
LEMMA EngineTypes ==
  ASSUME Typed, Placed,
         (\E e \in Engines : EngineInput(e) \/ EnterForward(e)) \/ ResumeBarrier
  PROVE  Typed'
<1> USE WaveAssumption DEF channel_vars, request_vars, engine_vars, pause_vars
<1>0. /\ Pauser \in Clients /\ engine \in [Engines -> EngineState]
      /\ waiting \in [Engines -> SUBSET Requests] /\ running \in [Engines -> SUBSET Requests]
  BY DEF Pauser, Clients, Typed
<1>1. ASSUME NEW c \in Clients, NEW e \in Engines, HandleAdd(c, e) PROVE Typed'
  <2> DEFINE m == Head(input[c][e])
  <2>1. /\ input' \in [Clients -> [Engines -> Seq(Message)]]
        /\ m.req \in Requests /\ m.wave \in Nat
    BY <1>1, Got, MessageFields DEF HandleAdd
  <2>2. m.req \in 1 .. sent
    <3>1. 1 \in DOMAIN input[c][e] /\ m = input[c][e][1] /\ m.type = "ADD"
      BY <1>1, Got, Taken DEF HandleAdd
    <3> QED BY <2>1, <3>1 DEF Placed, HeldPlaced, AddsPlaced, AddAt, Requests, Typed
  <2>3. outputs' \in [Engines -> Seq(Output)]
    <3>1. [type |-> "start_wave", wave |-> engine[e].current_wave] \in Output
      BY DEF Typed, Output, EngineState
    <3> QED BY <1>1, <3>1, PutType DEF HandleAdd, Typed
  <2>4. engine' \in [Engines -> EngineState]
    <3> DEFINE w == IF m.wave > engine[e].current_wave THEN m.wave
                    ELSE engine[e].current_wave
               b == engine[e].engines_running \/ StaleWave(e, m.wave)
    <3>1. w \in Nat /\ b \in BOOLEAN
      BY <2>1 DEF Typed, EngineState
    <3>2. engine' = [engine EXCEPT ![e].current_wave = w, ![e].engines_running = b]
      BY <1>1 DEF HandleAdd
    <3> HIDE DEF w, b
    <3> QED BY <1>0, <3>1, <3>2, SetWave
  <2>5. waiting' \in [Engines -> SUBSET Requests]
    <3>1. waiting' = waiting \/ waiting' = [waiting EXCEPT ![e] = @ \cup {m.req}]
      BY <1>1 DEF HandleAdd
    <3>2. waiting[e] \cup {m.req} \in SUBSET Requests
      BY <1>0, <2>1
    <3> QED BY <1>0, <3>1, <3>2
  <2>6. done' \subseteq 1 .. sent
    BY <1>1, <2>2 DEF HandleAdd, Typed
  <2> QED BY <1>1, <2>1, <2>3, <2>4, <2>5, <2>6 DEF HandleAdd, Typed
<1>2. ASSUME NEW e \in Engines, HandleStart(e) PROVE Typed'
  <2>1. starts' \in [Engines -> Seq(StartWave)] /\ Head(starts[e]) \in StartWave
    BY <1>2, TakeType DEF HandleStart, Typed
  <2>2. Head(starts[e]).wave \in Nat
    BY <2>1 DEF StartWave
  <2>3. engine' \in [Engines -> EngineState]
    <3> DEFINE w == Head(starts[e]).wave
    <3>1. \/ engine' = engine
          \/ engine' = [engine EXCEPT ![e].current_wave = w, ![e].engines_running = TRUE]
      BY <1>2 DEF HandleStart
    <3> HIDE DEF w
    <3>2. w \in Nat
      BY <2>2 DEF w
    <3> QED BY <1>0, <3>1, <3>2 DEF EngineState
  <2> QED BY <1>2, <2>1, <2>3 DEF HandleStart, Typed
<1>3. ASSUME NEW e \in Engines, HandlePause(e) PROVE Typed'
  <2>1. input' \in [Clients -> [Engines -> Seq(Message)]]
    BY <1>0, <1>3, Got DEF HandlePause
  <2>2. waiting' \in [Engines -> SUBSET Requests] /\ running' \in [Engines -> SUBSET Requests]
    BY <1>3 DEF HandlePause, Typed
  <2>3. done' \subseteq 1 .. sent
    <3>1. waiting[e] \cup running[e] \subseteq 1 .. sent
      BY DEF Typed, Placed, HeldPlaced, AddsPlaced, Held, Requests
    <3> QED BY <1>3, <3>1 DEF HandlePause, Typed
  <2>4. engine' \in [Engines -> EngineState]
    <3>1. PICK p \in {"paused_new", "paused_all"} :
            engine' = [engine EXCEPT ![e].pause = p, ![e].pending_pause = TRUE,
                                     ![e].engines_running = TRUE]
      BY <1>3 DEF HandlePause
    <3> QED BY <1>0, <3>1, SetPause
  <2> QED BY <1>3, <2>1, <2>2, <2>3, <2>4 DEF HandlePause, Typed
<1>4. ASSUME NEW e \in Engines, HandleResume(e) PROVE Typed'
  <2>1. input' \in [Clients -> [Engines -> Seq(Message)]]
    BY <1>0, <1>4, Got DEF HandleResume
  <2>2. engine' \in [Engines -> EngineState]
    <3>1. \/ engine' = engine
          \/ engine' = [engine EXCEPT ![e].pause = "unpaused", ![e].ignore_start = FALSE]
      BY <1>4 DEF HandleResume
    <3> QED BY <1>0, <3>1 DEF EngineState
  <2>3. phase' \in [Engines -> {"input", "forward", "resume"}]
    BY <1>4 DEF HandleResume, Typed
  <2> QED BY <1>4, <2>1, <2>2, <2>3 DEF HandleResume, Typed
<1>5. ASSUME NEW e \in Engines, EnterForward(e) PROVE Typed'
  <2>1. phase' \in [Engines -> {"input", "forward", "resume"}]
    BY <1>5 DEF EnterForward, Typed
  <2>2. waiting' = waiting \/ waiting' = [waiting EXCEPT ![e] = {}]
    BY <1>5 DEF EnterForward
  <2>3. running' = running \/ running' = [running EXCEPT ![e] = @ \cup waiting[e]]
    BY <1>5 DEF EnterForward
  <2>4. waiting' \in [Engines -> SUBSET Requests]
    BY <1>0, <2>2
  <2>5. running' \in [Engines -> SUBSET Requests]
    BY <1>0, <2>3
  <2> QED BY <1>5, <2>1, <2>4, <2>5 DEF EnterForward, Typed
<1>6. ASSUME ResumeBarrier PROVE Typed'
  <2>1. engine' \in [Engines -> EngineState]
    <3> DEFINE b == \E f \in Engines : Unfinished(f) # {}
    <3>1. b \in BOOLEAN
      OBVIOUS
    <3>2. engine' = [e \in Engines |-> [engine[e] EXCEPT !.engines_running = b]]
      BY <1>6 DEF ResumeBarrier
    <3> HIDE DEF b
    <3> QED BY <1>0, <3>1, <3>2 DEF EngineState
  <2>2. phase' \in [Engines -> {"input", "forward", "resume"}]
    BY <1>6 DEF ResumeBarrier
  <2> QED BY <1>6, <2>1, <2>2 DEF ResumeBarrier, Typed
<1> QED BY <1>1, <1>2, <1>3, <1>4, <1>5, <1>6 DEF EngineInput

\* The requests that a forward pass of engine e executes.
Executed(e) == IF engine[e].pause = "paused_all" THEN {} ELSE running[e]

\* The engines in the first phase of a pause.
PendingPauses == {e \in Engines : engine[e].pending_pause}

\* None of the engines is pausing, or some are, or all.
LEMMA PauseCount ==
  /\ Cardinality(PendingPauses) % dp_size = 0 =>
       PendingPauses = {} \/ PendingPauses = Engines
  /\ Cardinality(PendingPauses) = dp_size => PendingPauses = Engines
<1> USE WaveAssumption
<1>1. IsFiniteSet(Engines) /\ Cardinality(Engines) = dp_size
  BY FS_Interval DEF Engines
<1>2. /\ IsFiniteSet(PendingPauses) /\ Cardinality(PendingPauses) <= dp_size
      /\ Cardinality(PendingPauses) = dp_size => PendingPauses = Engines
  BY <1>1, FS_Subset DEF PendingPauses
<1>3. Cardinality(PendingPauses) \in Nat
  BY <1>2, FS_CardinalityType
<1>4. Cardinality(PendingPauses) = 0 => PendingPauses = {}
  BY <1>2, FS_EmptySet
<1>5. \A n \in Nat : n <= dp_size /\ n % dp_size = 0 => n = 0 \/ n = dp_size
  OBVIOUS
<1> QED BY <1>2, <1>3, <1>4, <1>5

\* A forward pass and what follows it, with on for the result of the all-reduce
\* and agreed for the consensus on a pause.
Stepped(on, agreed) ==
  /\ engine' = [e \in Engines |-> [engine[e] EXCEPT
       !.engines_running = on, !.was_running = on,
       !.pending_pause = @ /\ ~ agreed, !.ignore_start = @ \/ agreed,
       !.current_wave = IF on THEN @ ELSE @ + 1]]
  /\ agreed => PendingPauses = Engines
  /\ ~ on => PendingPauses = {} \/ (PendingPauses = Engines /\ agreed)
  /\ ~ on => \A e \in Engines : engine[e].pause = "paused_new" => running'[e] = {}
  /\ pausing' = IF ~ on /\ \A e \in Engines : engine[e].pause # "unpaused"
                THEN "resolved" ELSE pausing
  /\ \/ ~ on /\ outputs' = Put(outputs, 0,
                  [type |-> "wave_complete", wave |-> engine[0].current_wave])
     \/ on /\ outputs' = Put(outputs, 0,
                  [type |-> "start_wave", wave |-> engine[0].current_wave])
     \/ on /\ outputs' = outputs

LEMMA StepIsStepped == ASSUME Step PROVE \E on, agreed \in BOOLEAN : Stepped(on, agreed)
<1> DEFINE executed(e) == IF engine[e].pause = "paused_all" THEN {} ELSE running[e]
           local(e) == CASE engine[e].pause = "paused_all" -> FALSE
                         [] engine[e].pause = "paused_new" -> running'[e] # {}
                         [] OTHER -> waiting[e] \cup running'[e] # {}
           sync == (step_counter + 1) % SyncInterval = 0
           agreed == sync /\ Cardinality(PendingPauses) = dp_size
           on == sync => GlobalUnfinished(\E e \in Engines : local(e),
                                          Cardinality(PendingPauses))
           pending == engine[0].pending_pause /\ ~ agreed
<1>1. /\ engine' = [e \in Engines |-> [engine[e] EXCEPT
             !.engines_running = on, !.was_running = on,
             !.pending_pause = @ /\ ~ agreed, !.ignore_start = @ \/ agreed,
             !.current_wave = IF on THEN @ ELSE @ + 1]]
      /\ outputs' =
           CASE ~ on -> Put(outputs, 0,
                  [type |-> "wave_complete", wave |-> engine[0].current_wave])
             [] on /\ ~ engine[0].was_running /\ ~ pending -> Put(outputs, 0,
                  [type |-> "start_wave", wave |-> engine[0].current_wave])
             [] OTHER -> outputs
      /\ pausing' = IF ~ on /\ \A e \in Engines : engine[e].pause # "unpaused"
                    THEN "resolved" ELSE pausing
  BY Zenon DEF Step, PendingPauses
<1>2. agreed => PendingPauses = Engines
  BY PauseCount
<1>3. ~ on => /\ sync /\ \A e \in Engines : ~ local(e)
              /\ Cardinality(PendingPauses) % dp_size = 0
  BY Zenon DEF GlobalUnfinished
<1>4. ~ on => PendingPauses = {} \/ (PendingPauses = Engines /\ agreed)
  <2>1. SUFFICES ASSUME ~ on, PendingPauses # {} PROVE PendingPauses = Engines /\ agreed
    OBVIOUS
  <2>2. PendingPauses = Engines
    BY <1>3, <2>1, PauseCount
  <2>3. Cardinality(Engines) = dp_size
    BY FS_Interval, WaveAssumption DEF Engines
  <2> QED BY <1>3, <2>1, <2>2, <2>3
<1>5. ~ on => \A e \in Engines : engine[e].pause = "paused_new" => running'[e] = {}
  BY <1>3
<1>6. on \in BOOLEAN /\ agreed \in BOOLEAN
  OBVIOUS
<1> HIDE DEF on, agreed, local
<1>7. \/ ~ on /\ outputs' = Put(outputs, 0,
                  [type |-> "wave_complete", wave |-> engine[0].current_wave])
      \/ on /\ outputs' = Put(outputs, 0,
                  [type |-> "start_wave", wave |-> engine[0].current_wave])
      \/ on /\ outputs' = outputs
  BY <1>1, <1>6
<1>8. Stepped(on, agreed)
  BY <1>1, <1>2, <1>4, <1>5, <1>7 DEF Stepped
<1> QED BY <1>6, <1>8

\* What a forward pass does to the requests.
LEMMA StepRequests ==
  ASSUME Step
  PROVE  /\ running' = [e \in Engines |->
                          running[e] \ {r \in Executed(e) : left[r] = 1}]
         /\ left' = [r \in Requests |-> IF \E e \in Engines : r \in Executed(e)
                                        THEN left[r] - 1 ELSE left[r]]
         /\ done' = done \cup UNION {{r \in Executed(e) : left[r] = 1} : e \in Engines}
         /\ waiting' = waiting /\ sent' = sent /\ input' = input
  BY Zenon DEF Step, Executed, Finishes

LEMMA StepTypes == ASSUME Typed, Placed, Step PROVE Typed'
<1> USE WaveAssumption
<1>1. PICK on \in BOOLEAN, agreed \in BOOLEAN : Stepped(on, agreed)
  BY StepIsStepped
<1>2. engine \in [Engines -> EngineState] /\ outputs \in [Engines -> Seq(Output)]
  BY DEF Typed
<1>3. engine' \in [Engines -> EngineState]
  <2>1. ASSUME NEW s \in EngineState
        PROVE  [s EXCEPT !.engines_running = on, !.was_running = on,
                  !.pending_pause = @ /\ ~ agreed, !.ignore_start = @ \/ agreed,
                  !.current_wave = IF on THEN @ ELSE @ + 1] \in EngineState
    <3> DEFINE p == s.pending_pause /\ ~ agreed
               i == s.ignore_start \/ agreed
               w == IF on THEN s.current_wave ELSE s.current_wave + 1
    <3>1. p \in BOOLEAN /\ i \in BOOLEAN /\ w \in Nat
      BY DEF EngineState
    <3> HIDE DEF p, i, w
    <3>2. [s EXCEPT !.engines_running = on, !.was_running = on, !.pending_pause = p,
             !.ignore_start = i, !.current_wave = w] \in EngineState
      BY <3>1 DEF EngineState
    <3> QED BY <3>2 DEF p, i, w
  <2> QED BY <1>1, <1>2, <2>1 DEF Stepped
<1>4. outputs' \in [Engines -> Seq(Output)]
  <2>1. 0 \in Engines /\ engine[0].current_wave \in Nat
    BY <1>2 DEF Engines, EngineState
  <2>2. /\ [type |-> "wave_complete", wave |-> engine[0].current_wave] \in Output
        /\ [type |-> "start_wave", wave |-> engine[0].current_wave] \in Output
    BY <2>1 DEF Output
  <2>3. \E m \in Output : outputs' = Put(outputs, 0, m) \/ outputs' = outputs
    BY <1>1, <2>2 DEF Stepped
  <2> QED BY <1>2, <2>1, <2>3, PutType
<1>5. running' \in [Engines -> SUBSET Requests]
  BY StepRequests DEF Typed
<1>6. left' \in [Requests -> Nat]
  <2>1. ASSUME NEW r \in Requests, NEW e \in Engines, r \in Executed(e)
        PROVE  left[r] - 1 \in Nat
    <3>1. r \in Held(e)
      BY <2>1 DEF Executed, Held
    <3>2. left[r] \in Nat
      BY DEF Typed
    <3> QED BY <3>1, <3>2 DEF Placed, HeldPlaced, AddsPlaced
  <2>2. \A r \in Requests : left[r] \in Nat
    BY DEF Typed
  <2> QED BY <2>1, <2>2, StepRequests
<1>7. done' \subseteq 1 .. sent'
  <2>1. ASSUME NEW e \in Engines PROVE Executed(e) \subseteq 1 .. sent
    BY DEF Executed, Placed, HeldPlaced, AddsPlaced, Held, Typed, Requests
  <2>2. UNION {{r \in Executed(e) : left[r] = 1} : e \in Engines} \subseteq 1 .. sent
    BY <2>1
  <2>3. done \subseteq 1 .. sent
    BY DEF Typed
  <2> QED BY <2>2, <2>3, StepRequests
<1>8. step_counter' \in 0 .. (SyncInterval - 1)
  <2>1. step_counter' = (step_counter + 1) % SyncInterval \/ step_counter' = 0
    BY DEF Step
  <2>2. step_counter + 1 \in Nat
    BY DEF Typed
  <2> QED BY <2>1, <2>2
<1>9. phase' \in [Engines -> {"input", "forward", "resume"}]
  BY DEF Step
<1>10. pausing' \in {"no", "pending", "resolved"}
  BY <1>1 DEF Stepped, Typed
<1>11. UNCHANGED <<client, first_req, input, to_coord, published, starts, coord, waiting,
                   sent, pauses>>
  BY DEF Step
<1> QED BY <1>3, <1>4, <1>5, <1>6, <1>7, <1>8, <1>9, <1>10, <1>11 DEF Typed

-----------------------------------------------------------------------------
(* Every request is in one place.                                           *)

\* The steps that leave the requests where they are.
LEMMA PlacedUnchanged ==
  ASSUME Placed, UNCHANGED <<input, waiting, running, left, sent>>
  PROVE  Placed'
  BY DEF Placed, HeldPlaced, AddsPlaced, Held, AddAt

LEMMA AddPlaced ==
  ASSUME Typed, Placed, NEW c \in Clients, NEW e \in Engines, NEW n \in Lengths,
         AddRequest(c, e, n)
  PROVE  Placed'
<1> DEFINE m == [type |-> "ADD", req |-> sent + 1, wave |-> client[c].wave]
<1>1. /\ sent \in Nat /\ sent + 1 \in Requests /\ sent' = sent + 1
      /\ waiting' = waiting /\ running' = running
      /\ left' = [left EXCEPT ![sent + 1] = n]
  BY WaveAssumption DEF AddRequest, Typed, Requests
<1>2. m \in Message
  BY <1>1 DEF Typed, WaveState, Message
<1>3. /\ input[c][e] \in Seq(Message) /\ input'[c][e] = Append(input[c][e], m)
      /\ \A d \in Clients, f \in Engines : (d # c \/ f # e) => input'[d][f] = input[d][f]
  BY <1>2, Sent DEF AddRequest
<1> DEFINE k == Len(input[c][e]) + 1
<1>4. ASSUME NEW d \in Clients, NEW f \in Engines, NEW i \in DOMAIN input'[d][f]
      PROVE  \/ i \in DOMAIN input[d][f] /\ input'[d][f][i] = input[d][f][i]
             \/ d = c /\ f = e /\ i = k /\ input'[d][f][i] = m
  BY <1>2, <1>3, Appended
<1>5. \A f \in Engines : Held(f)' = Held(f)
  BY <1>1 DEF Held
<1>6. \A f \in Engines : \A r \in Held(f) : r <= sent /\ left[r] >= 1 /\ r \in Requests
  BY DEF Placed, HeldPlaced, AddsPlaced, Held, Typed
<1>7. \A f \in Engines : sent + 1 \notin Held(f)
  BY <1>1, <1>6
<1>8. \A f \in Engines : \A r \in Held(f)' : r <= sent' /\ left'[r] >= 1
  BY <1>1, <1>5, <1>6, <1>7 DEF Typed, Requests
<1>9. ASSUME NEW d \in Clients, NEW f \in Engines, NEW i \in DOMAIN input[d][f],
             input[d][f][i].type = "ADD"
      PROVE  /\ input[d][f][i].req <= sent /\ input[d][f][i].req \in Requests
             /\ \A g \in Engines : input[d][f][i].req \notin Held(g)
  <2>1. input[d][f][i] \in Message
    BY DEF Typed
  <2> QED BY <1>9, <2>1, MessageFields DEF Placed, HeldPlaced, AddsPlaced, AddAt
<1>10. m.req = sent + 1 /\ m.type = "ADD"
  OBVIOUS
<1> HIDE DEF m, k
<1>11. ASSUME NEW d \in Clients, NEW f \in Engines, NEW i \in DOMAIN input'[d][f],
              AddAt(d, f, i)'
       PROVE  /\ input'[d][f][i].req <= sent'
              /\ \A g \in Engines : input'[d][f][i].req \notin Held(g)'
  <2>1. CASE i \in DOMAIN input[d][f] /\ input'[d][f][i] = input[d][f][i]
    <3>1. input[d][f][i].type = "ADD"
      BY <1>11, <2>1 DEF AddAt
    <3>2. /\ input[d][f][i].req <= sent /\ input[d][f][i].req \in Requests
          /\ \A g \in Engines : input[d][f][i].req \notin Held(g)
      BY <1>9, <2>1, <3>1
    <3> QED BY <1>1, <1>5, <2>1, <3>2 DEF Requests
  <2>2. CASE input'[d][f][i] = m
    BY <1>1, <1>5, <1>7, <1>10, <2>2
  <2> QED BY <1>4, <2>1, <2>2
<1>12. ASSUME NEW d \in Clients, NEW g \in Clients, NEW f \in Engines, NEW h \in Engines,
              NEW i \in DOMAIN input'[d][f], NEW j \in DOMAIN input'[g][h],
              AddAt(d, f, i)', AddAt(g, h, j)', input'[d][f][i].req = input'[g][h][j].req
       PROVE  d = g /\ f = h /\ i = j
  <2>1. /\ \/ i \in DOMAIN input[d][f] /\ input'[d][f][i] = input[d][f][i]
           \/ d = c /\ f = e /\ i = k /\ input'[d][f][i] = m
        /\ \/ j \in DOMAIN input[g][h] /\ input'[g][h][j] = input[g][h][j]
           \/ g = c /\ h = e /\ j = k /\ input'[g][h][j] = m
    BY <1>4
  <2>2. input'[d][f][i].type = "ADD" /\ input'[g][h][j].type = "ADD"
    BY <1>12 DEF AddAt
  <2>3. \A r \in Requests : r <= sent => r # sent + 1
    BY <1>1 DEF Requests
  <2>4. CASE i \in DOMAIN input[d][f] /\ input'[d][f][i] = input[d][f][i]
    <3>1. input[d][f][i].req # sent + 1
      BY <1>9, <2>2, <2>3, <2>4
    <3>2. j \in DOMAIN input[g][h] /\ input'[g][h][j] = input[g][h][j]
      BY <1>10, <1>12, <2>1, <2>4, <3>1
    <3> QED BY <1>12, <2>2, <2>4, <3>2 DEF Placed, HeldPlaced, AddsPlaced, AddAt
  <2>5. CASE d = c /\ f = e /\ i = k /\ input'[d][f][i] = m
    <3>1. input'[g][h][j].req = sent + 1
      BY <1>10, <1>12, <2>5
    <3>2. ~ (j \in DOMAIN input[g][h] /\ input'[g][h][j] = input[g][h][j])
      BY <1>9, <2>2, <2>3, <3>1
    <3> QED BY <2>1, <2>5, <3>2
  <2> QED BY <2>1, <2>4, <2>5
<1>13. /\ \A f \in Engines : (waiting[f] \cap running[f])' = {}
       /\ \A f, g \in Engines : f # g => Held(f)' \cap Held(g)' = {}
  BY <1>1, <1>5 DEF Placed, HeldPlaced, AddsPlaced
<1> QED BY <1>8, <1>11, <1>12, <1>13 DEF Placed, HeldPlaced, AddsPlaced

\* The ADDs of the next state are ADDs of this one, off places up their channel,
\* and none of them is about a request in X.
MovedUp(off, X) ==
  \A d \in Clients, f \in Engines : \A i \in DOMAIN input'[d][f] :
    AddAt(d, f, i)' =>
      /\ i \in Int /\ i + off[d][f] \in DOMAIN input[d][f]
      /\ input'[d][f][i] = input[d][f][i + off[d][f]]
      /\ input'[d][f][i].req \notin X

\* That keeps what Placed says of the ADDs, when X is what the engines get.
LEMMA AddsMovedUp ==
  ASSUME Typed, AddsPlaced, sent' = sent, NEW off \in [Clients -> [Engines -> Nat]], NEW X,
         \A g \in Engines : Held(g)' \subseteq Held(g) \cup X,
         MovedUp(off, X)
  PROVE  AddsPlaced'
<1>1. ASSUME NEW d \in Clients, NEW f \in Engines, NEW i \in DOMAIN input'[d][f],
             AddAt(d, f, i)'
      PROVE  /\ AddAt(d, f, i + off[d][f])
             /\ input'[d][f][i].req = input[d][f][i + off[d][f]].req
             /\ i + off[d][f] \in DOMAIN input[d][f] /\ i \in Int
             /\ input'[d][f][i].req \notin X
  BY <1>1 DEF AddAt, MovedUp
<1>2. ASSUME NEW c \in Clients, NEW e \in Engines, NEW i \in DOMAIN input'[c][e],
             AddAt(c, e, i)'
      PROVE  /\ input'[c][e][i].req <= sent'
             /\ \A f \in Engines : input'[c][e][i].req \notin Held(f)'
  <2>1. /\ input[c][e][i + off[c][e]].req <= sent
        /\ \A f \in Engines : input[c][e][i + off[c][e]].req \notin Held(f)
    BY <1>1, <1>2 DEF Placed, HeldPlaced, AddsPlaced
  <2> QED BY <1>1, <1>2, <2>1
<1>3. ASSUME NEW c \in Clients, NEW d \in Clients, NEW e \in Engines, NEW f \in Engines,
             NEW i \in DOMAIN input'[c][e], NEW j \in DOMAIN input'[d][f],
             AddAt(c, e, i)', AddAt(d, f, j)',
             input'[c][e][i].req = input'[d][f][j].req
      PROVE  c = d /\ e = f /\ i = j
  <2>1. /\ AddAt(c, e, i + off[c][e]) /\ AddAt(d, f, j + off[d][f])
        /\ i + off[c][e] \in DOMAIN input[c][e] /\ j + off[d][f] \in DOMAIN input[d][f]
        /\ input[c][e][i + off[c][e]].req = input[d][f][j + off[d][f]].req
        /\ i \in Int /\ j \in Int
    <3>1. /\ AddAt(c, e, i + off[c][e])
          /\ input'[c][e][i].req = input[c][e][i + off[c][e]].req
          /\ i + off[c][e] \in DOMAIN input[c][e] /\ i \in Int
      BY <1>1, <1>3
    <3>2. /\ AddAt(d, f, j + off[d][f])
          /\ input'[d][f][j].req = input[d][f][j + off[d][f]].req
          /\ j + off[d][f] \in DOMAIN input[d][f] /\ j \in Int
      BY <1>1, <1>3
    <3> QED BY <1>3, <3>1, <3>2
  <2>2. c = d /\ e = f /\ i + off[c][e] = j + off[d][f]
    <3>1. \A k \in DOMAIN input[c][e], l \in DOMAIN input[d][f] :
            /\ AddAt(c, e, k) /\ AddAt(d, f, l)
            /\ input[c][e][k].req = input[d][f][l].req
            => c = d /\ e = f /\ k = l
      BY DEF Placed, HeldPlaced, AddsPlaced
    <3> QED BY <2>1, <3>1, Zenon
  <2>3. off[c][e] \in Nat
    OBVIOUS
  <2> QED BY <2>1, <2>2, <2>3
<1> QED BY <1>2, <1>3 DEF AddsPlaced

\* The engine that takes a message moves the channel up by one.
LEMMA TookOne ==
  ASSUME Typed, NEW c \in Clients, NEW e \in Engines, NEW type, Received(c, e, type)
  PROVE  \E off \in [Clients -> [Engines -> Nat]] :
           \A d \in Clients, f \in Engines : \A i \in DOMAIN input'[d][f] :
             /\ i \in Int /\ i + off[d][f] \in DOMAIN input[d][f]
             /\ input'[d][f][i] = input[d][f][i + off[d][f]]
             /\ d = c /\ e = f => i >= 1 /\ off[d][f] = 1
<1> DEFINE off == [d \in Clients |-> [f \in Engines |-> IF d = c /\ e = f THEN 1 ELSE 0]]
<1>1. off \in [Clients -> [Engines -> Nat]]
  OBVIOUS
<1>2. ASSUME NEW d \in Clients, NEW f \in Engines, NEW i \in DOMAIN input'[d][f]
      PROVE  /\ i \in Int /\ i + off[d][f] \in DOMAIN input[d][f]
             /\ input'[d][f][i] = input[d][f][i + off[d][f]]
             /\ d = c /\ e = f => i >= 1 /\ off[d][f] = 1
  <2>1. CASE d = c /\ f = e
    <3>1. input[c][e] \in Seq(Message) /\ input[c][e] # << >>
          /\ input'[c][e] = Tail(input[c][e])
      BY Got
    <3>2. /\ DOMAIN Tail(input[c][e]) = 1 .. (Len(input[c][e]) - 1)
          /\ Len(input[c][e]) \in Nat
          /\ \A k \in DOMAIN Tail(input[c][e]) :
               /\ k + 1 \in DOMAIN input[c][e]
               /\ Tail(input[c][e])[k] = input[c][e][k + 1]
      BY <3>1, Taken
    <3>3. off[d][f] = 1
      BY <2>1
    <3>4. i \in DOMAIN Tail(input[c][e]) /\ input'[d][f][i] = Tail(input[c][e])[i]
      BY <2>1, <3>1
    <3> HIDE DEF off
    <3>5. i \in 1 .. (Len(input[c][e]) - 1)
      BY <3>2, <3>4, Zenon
    <3>6. i \in Int /\ i >= 1
      BY <3>2, <3>5
    <3> QED BY <2>1, <3>2, <3>3, <3>4, <3>6
  <2>2. CASE ~ (d = c /\ f = e)
    <3>1. input'[d][f] = input[d][f]
      BY <2>2, Got
    <3>2. input[d][f] \in Seq(Message)
      BY DEF Typed
    <3>3. off[d][f] = 0
      BY <2>2
    <3>4. i \in Int /\ i + 0 = i
      BY <3>1, <3>2
    <3> QED BY <2>2, <3>1, <3>3, <3>4
  <2> QED BY <2>1, <2>2
<1> QED BY <1>1, <1>2

\* A call that the Pauser sends to every engine moves nothing.
LEMMA CalledAll ==
  ASSUME Typed, NEW m \in Message,
         input' = [input EXCEPT ![Pauser] = [e \in Engines |-> Append(@[e], m)]]
  PROVE  /\ Pauser \in Clients
         /\ \A e \in Engines :
              input[Pauser][e] \in Seq(Message)
              /\ input'[Pauser][e] = Append(input[Pauser][e], m)
         /\ \A d \in Clients, e \in Engines : d # Pauser => input'[d][e] = input[d][e]
  BY WaveAssumption DEF Typed, Pauser, Clients

LEMMA CallPlaced ==
  ASSUME Typed, Placed, NEW m \in Message, m.type # "ADD",
         input' = [input EXCEPT ![Pauser] = [e \in Engines |-> Append(@[e], m)]],
         UNCHANGED <<waiting, running, left, sent>>
  PROVE  Placed'
<1> DEFINE off == [d \in Clients |-> [f \in Engines |-> 0]]
<1>1. off \in [Clients -> [Engines -> Nat]]
  OBVIOUS
<1>2. ASSUME NEW d \in Clients, NEW f \in Engines, NEW i \in DOMAIN input'[d][f],
             AddAt(d, f, i)'
      PROVE  /\ i \in Int /\ i + off[d][f] \in DOMAIN input[d][f]
             /\ input'[d][f][i] = input[d][f][i + off[d][f]]
             /\ input'[d][f][i].req \notin {}
  <2>1. input[d][f] \in Seq(Message)
    BY DEF Typed
  <2>2. i \in DOMAIN input[d][f] /\ input'[d][f][i] = input[d][f][i]
    <3>1. CASE d = Pauser
      <4>1. input'[d][f] = Append(input[d][f], m)
        BY <3>1, CalledAll
      <4>2. \/ i \in DOMAIN input[d][f] /\ input'[d][f][i] = input[d][f][i]
            \/ input'[d][f][i] = m
        BY <2>1, <4>1, Appended
      <4> QED BY <1>2, <4>2 DEF AddAt
    <3>2. CASE d # Pauser
      BY <3>2, CalledAll
    <3> QED BY <3>1, <3>2
  <2>3. i \in Int /\ i + 0 = i
    BY <2>1, <2>2
  <2>4. off[d][f] = 0
    OBVIOUS
  <2> QED BY <2>2, <2>3, <2>4
<1>3. \A g \in Engines : Held(g)' \subseteq Held(g) \cup {}
  BY DEF Held
<1> HIDE DEF off
<1>4. AddsPlaced'
  <2>1. MovedUp(off, {})
    BY <1>2 DEF MovedUp
  <2> QED BY <1>1, <1>3, <2>1, AddsMovedUp DEF Placed
<1>5. /\ \A e \in Engines : \A r \in Held(e)' : r <= sent' /\ left'[r] >= 1
      /\ \A e \in Engines : waiting'[e] \cap running'[e] = {}
      /\ \A e, f \in Engines : e # f => Held(e)' \cap Held(f)' = {}
  BY DEF Placed, HeldPlaced, AddsPlaced, Held
<1> QED BY <1>4, <1>5 DEF Placed, HeldPlaced

\* An engine takes a message and its own requests change, by no more than the
\* one that an ADD brings.
LEMMA ReceivedPlaced ==
  ASSUME Typed, Placed, NEW c \in Clients, NEW e \in Engines, NEW type,
         Received(c, e, type), UNCHANGED <<left, sent>>,
         \A f \in Engines : f # e => waiting'[f] = waiting[f] /\ running'[f] = running[f],
         running'[e] \subseteq running[e],
         \/ waiting'[e] \subseteq waiting[e]
         \/ /\ type = "ADD" /\ left[Head(input[c][e]).req] # 0
            /\ waiting'[e] = waiting[e] \cup {Head(input[c][e]).req}
  PROVE  Placed'
<1> DEFINE h == Head(input[c][e])
           X == IF type = "ADD" /\ left[h.req] # 0 THEN {h.req} ELSE {}
<1>1. /\ 1 \in DOMAIN input[c][e] /\ input[c][e][1] = h
      /\ h \in Message /\ h.type = type
  BY Got, Taken
<1>2. type = "ADD" =>
        /\ h.req <= sent /\ h.req \in Requests
        /\ \A f \in Engines : h.req \notin Held(f)
        /\ \A d \in Clients, f \in Engines : \A j \in DOMAIN input[d][f] :
             AddAt(d, f, j) /\ input[d][f][j].req = h.req => d = c /\ f = e /\ j = 1
  <2>1. SUFFICES ASSUME type = "ADD"
        PROVE  /\ h.req <= sent /\ h.req \in Requests
               /\ \A f \in Engines : h.req \notin Held(f)
               /\ \A d \in Clients, f \in Engines : \A j \in DOMAIN input[d][f] :
                    AddAt(d, f, j) /\ input[d][f][j].req = h.req => d = c /\ f = e /\ j = 1
    OBVIOUS
  <2>2. AddAt(c, e, 1) /\ input[c][e][1].req = h.req
    BY <1>1, <2>1 DEF AddAt
  <2>3. h.req \in Requests
    BY <1>1, <2>1, MessageFields
  <2> HIDE DEF h
  <2>4. h.req <= sent /\ \A f \in Engines : h.req \notin Held(f)
    BY <1>1, <2>2 DEF Placed, HeldPlaced, AddsPlaced
  <2>5. ASSUME NEW d \in Clients, NEW f \in Engines, NEW j \in DOMAIN input[d][f],
               AddAt(d, f, j), input[d][f][j].req = h.req
        PROVE  d = c /\ f = e /\ j = 1
    BY <1>1, <2>2, <2>5 DEF Placed, HeldPlaced, AddsPlaced
  <2> QED BY <2>3, <2>4, <2>5
<1>3. PICK off \in [Clients -> [Engines -> Nat]] :
           \A d \in Clients, f \in Engines : \A i \in DOMAIN input'[d][f] :
             /\ i \in Int /\ i + off[d][f] \in DOMAIN input[d][f]
             /\ input'[d][f][i] = input[d][f][i + off[d][f]]
             /\ d = c /\ e = f => i >= 1 /\ off[d][f] = 1
  BY TookOne
<1>4. \A g \in Engines : Held(g)' \subseteq Held(g) \cup X
  BY DEF Held
<1>5. X = {} \/ (X = {h.req} /\ type = "ADD" /\ left[h.req] # 0)
  OBVIOUS
<1> HIDE DEF X, h
<1>6. ASSUME NEW d \in Clients, NEW f \in Engines, NEW i \in DOMAIN input'[d][f],
             AddAt(d, f, i)'
      PROVE  input'[d][f][i].req \notin X
  <2>1. SUFFICES ASSUME type = "ADD", input'[d][f][i].req = h.req PROVE FALSE
    BY <1>5
  <2>2. /\ i \in Int /\ i + off[d][f] \in DOMAIN input[d][f]
        /\ input'[d][f][i] = input[d][f][i + off[d][f]]
        /\ d = c /\ e = f => i >= 1 /\ off[d][f] = 1
    BY <1>3
  <2>3. AddAt(d, f, i + off[d][f]) /\ input[d][f][i + off[d][f]].req = h.req
    BY <1>6, <2>1, <2>2 DEF AddAt
  <2>4. d = c /\ f = e /\ i + off[d][f] = 1
    BY <1>2, <2>1, <2>2, <2>3
  <2> QED BY <2>2, <2>4
<1>7. AddsPlaced'
  <2>1. MovedUp(off, X)
    BY <1>3, <1>6 DEF MovedUp
  <2> QED BY <1>3, <1>4, <2>1, AddsMovedUp DEF Placed
<1>8. \A f \in Engines : \A r \in Held(f)' : r <= sent' /\ left'[r] >= 1
  <2>1. \A f \in Engines : \A r \in Held(f) : r <= sent /\ left[r] >= 1
    BY DEF Placed, HeldPlaced, AddsPlaced
  <2>2. X # {} => h.req <= sent /\ left[h.req] >= 1
    BY <1>2, <1>5 DEF Typed
  <2> QED BY <1>4, <1>5, <2>1, <2>2
<1>9. \A f \in Engines : waiting'[f] \cap running'[f] = {}
  <2>1. \A f \in Engines : waiting[f] \cap running[f] = {}
    BY DEF Placed, HeldPlaced, AddsPlaced
  <2>2. type = "ADD" => h.req \notin running[e]
    BY <1>2 DEF Held
  <2> QED BY <2>1, <2>2 DEF h
<1>10. \A f, g \in Engines : f # g => Held(f)' \cap Held(g)' = {}
  <2>1. \A f, g \in Engines : f # g => Held(f) \cap Held(g) = {}
    BY DEF Placed, HeldPlaced, AddsPlaced
  <2>2. \A f \in Engines : f # e => Held(f)' = Held(f)
    BY DEF Held
  <2>3. \A f \in Engines : f # e => Held(e)' \cap Held(f) = {}
    BY <1>2, <1>4, <1>5, <2>1
  <2> QED BY <2>1, <2>2, <2>3
<1> QED BY <1>7, <1>8, <1>9, <1>10 DEF Placed, HeldPlaced

\* The steps that leave the channels alone.
LEMMA AddsUnchanged ==
  ASSUME AddsPlaced, input' = input, sent' = sent,
         \A g \in Engines : Held(g)' \subseteq Held(g)
  PROVE  AddsPlaced'
  BY DEF AddsPlaced, AddAt

LEMMA ForwardPlaced ==
  ASSUME Typed, Placed, NEW e \in Engines, EnterForward(e)
  PROVE  Placed'
<1>1. /\ waiting \in [Engines -> SUBSET Requests] /\ running \in [Engines -> SUBSET Requests]
      /\ \/ waiting' = waiting /\ running' = running
         \/ /\ waiting' = [waiting EXCEPT ![e] = {}]
            /\ running' = [running EXCEPT ![e] = @ \cup waiting[e]]
      /\ UNCHANGED <<input, left, sent>>
  BY DEF EnterForward, Typed, channel_vars
<1>2. /\ \A g \in Engines : Held(g)' = Held(g)
      /\ \A g \in Engines : waiting[g] \cap running[g] = {} => waiting'[g] \cap running'[g] = {}
  BY <1>1 DEF Held
<1>3. AddsPlaced'
  BY <1>1, <1>2, AddsUnchanged DEF Placed
<1>4. HeldPlaced'
  BY <1>1, <1>2 DEF Placed, HeldPlaced
<1> QED BY <1>3, <1>4 DEF Placed

LEMMA StepPlaced ==
  ASSUME Typed, Placed, Step
  PROVE  Placed'
<1>1. \A e \in Engines :
        /\ Executed(e) \subseteq running[e]
        /\ running'[e] = running[e] \ {r \in Executed(e) : left[r] = 1}
        /\ Held(e)' \subseteq Held(e)
  BY StepRequests DEF Executed, Held
<1>2. AddsPlaced'
  BY <1>1, AddsUnchanged, StepRequests DEF Placed
<1>3. ASSUME NEW e \in Engines, NEW r \in Held(e)' PROVE r <= sent' /\ left'[r] >= 1
  <2>1. r \in Requests /\ left[r] \in Nat
    BY <1>1 DEF Typed, Held
  <2>2. r <= sent /\ left[r] >= 1 /\ r \in Held(e)
    BY <1>1, <1>3 DEF Placed, HeldPlaced
  <2>3. CASE \E f \in Engines : r \in Executed(f)
    <3>1. PICK f \in Engines : r \in Executed(f)
      BY <2>3
    <3>2. r \in running[f] /\ r \in Held(f)
      BY <1>1, <3>1 DEF Held
    <3>3. f = e /\ r \notin waiting[e]
      BY <2>2, <3>2 DEF Placed, HeldPlaced
    <3>4. r \in running'[e]
      BY <1>3, <3>3, StepRequests DEF Held
    <3>5. left[r] # 1
      BY <1>1, <3>1, <3>3, <3>4
    <3>6. left'[r] = left[r] - 1
      BY <2>1, <2>3, StepRequests
    <3> QED BY <2>1, <2>2, <3>5, <3>6, StepRequests
  <2>4. CASE ~ \E f \in Engines : r \in Executed(f)
    BY <2>1, <2>2, <2>4, StepRequests
  <2> QED BY <2>3, <2>4
<1>4. /\ \A e \in Engines : waiting'[e] \cap running'[e] = {}
      /\ \A e, f \in Engines : e # f => Held(e)' \cap Held(f)' = {}
  <2>1. /\ \A e \in Engines : waiting[e] \cap running[e] = {}
        /\ \A e, f \in Engines : e # f => Held(e) \cap Held(f) = {}
    BY DEF Placed, HeldPlaced
  <2> QED BY <1>1, <2>1, StepRequests
<1> QED BY <1>2, <1>3, <1>4 DEF Placed, HeldPlaced

LEMMA TypesStep == Typed /\ Placed /\ [Next]_vars => Typed' /\ Placed'
<1> SUFFICES ASSUME Typed, Placed, [Next]_vars PROVE Typed' /\ Placed'
  OBVIOUS
<1> USE DEF channel_vars, request_vars, engine_vars, pause_vars
<1>0. Pauser \in Clients
  BY WaveAssumption DEF Pauser, Clients
<1>1. ASSUME NEW c \in Clients, NEW e \in Engines, NEW n \in Lengths, AddRequest(c, e, n)
      PROVE  Typed' /\ Placed'
  BY <1>1, ClientTypes, AddPlaced
<1>2. ASSUME NEW mode \in PauseModes, CallPause(mode) PROVE Typed' /\ Placed'
  <2>1. [type |-> "PAUSE", mode |-> mode] \in Message
    BY DEF Message
  <2>2. /\ input' = [input EXCEPT ![Pauser] =
               [e \in Engines |-> Append(@[e], [type |-> "PAUSE", mode |-> mode])]]
        /\ UNCHANGED <<waiting, running, left, sent>>
    BY <1>2 DEF CallPause
  <2>3. Placed'
    BY <2>1, <2>2, CallPlaced
  <2> QED BY <1>2, <2>3, ClientTypes
<1>3. ASSUME CallResume PROVE Typed' /\ Placed'
  <2>1. [type |-> "RESUME"] \in Message
    BY DEF Message
  <2>2. /\ input' = [input EXCEPT ![Pauser] =
               [e \in Engines |-> Append(@[e], [type |-> "RESUME"])]]
        /\ UNCHANGED <<waiting, running, left, sent>>
    BY <1>3 DEF CallResume
  <2>3. Placed'
    BY <2>1, <2>2, CallPlaced
  <2> QED BY <1>3, <2>3, ClientTypes
<1>4. ASSUME NEW c \in Clients, ClientStep(c) PROVE Typed' /\ Placed'
  <2>1. Typed'
    BY <1>4, ClientTypes
  <2> QED BY <1>4, <2>1, PlacedUnchanged DEF ClientStep, ForwardFirstReq, StatsUpdate
<1>5. ASSUME CoordInput \/ CoordPublish PROVE Typed' /\ Placed'
  <2>1. Typed'
    BY <1>5, CoordTypes
  <2> QED BY <1>5, <2>1, PlacedUnchanged
          DEF CoordInput, CoordFirstReq, CoordOutput, CoordPublish
<1>6. ASSUME NEW e \in Engines, EngineInput(e) PROVE Typed' /\ Placed'
  <2>0. Typed' /\ waiting \in [Engines -> SUBSET Requests]
               /\ running \in [Engines -> SUBSET Requests]
    BY <1>6, EngineTypes DEF Typed
  <2>1. ASSUME NEW c \in Clients, HandleAdd(c, e) PROVE Placed'
    <3>1. Received(c, e, "ADD") /\ UNCHANGED <<left, sent, running>>
      BY <2>1 DEF HandleAdd
    <3>2. \/ waiting' = waiting
          \/ /\ waiting' = [waiting EXCEPT ![e] = @ \cup {Head(input[c][e]).req}]
             /\ left[Head(input[c][e]).req] # 0
      BY <2>1 DEF HandleAdd
    <3>3. /\ \A f \in Engines : f # e => waiting'[f] = waiting[f] /\ running'[f] = running[f]
          /\ running'[e] \subseteq running[e]
          /\ \/ waiting'[e] \subseteq waiting[e]
             \/ /\ left[Head(input[c][e]).req] # 0
                /\ waiting'[e] = waiting[e] \cup {Head(input[c][e]).req}
      BY <2>0, <3>1, <3>2
    <3> QED BY <3>1, <3>3, ReceivedPlaced
  <2>2. ASSUME HandleStart(e) PROVE Placed'
    BY <2>2, PlacedUnchanged DEF HandleStart
  <2>3. ASSUME HandlePause(e) PROVE Placed'
    <3>1. Received(Pauser, e, "PAUSE") /\ UNCHANGED <<left, sent>>
      BY <2>3 DEF HandlePause
    <3>2. PICK dropped :
            /\ waiting' = [waiting EXCEPT ![e] = @ \ dropped]
            /\ running' = [running EXCEPT ![e] = @ \ dropped]
      BY <2>3 DEF HandlePause
    <3>3. /\ \A f \in Engines : f # e => waiting'[f] = waiting[f] /\ running'[f] = running[f]
          /\ running'[e] \subseteq running[e] /\ waiting'[e] \subseteq waiting[e]
      BY <2>0, <3>2
    <3> QED BY <1>0, <3>1, <3>3, ReceivedPlaced
  <2>4. ASSUME HandleResume(e) PROVE Placed'
    <3>1. Received(Pauser, e, "RESUME") /\ UNCHANGED <<left, sent, waiting, running>>
      BY <2>4 DEF HandleResume
    <3> QED BY <1>0, <3>1, ReceivedPlaced
  <2> QED BY <1>6, <2>0, <2>1, <2>2, <2>3, <2>4 DEF EngineInput
<1>7. ASSUME NEW e \in Engines, EnterForward(e) PROVE Typed' /\ Placed'
  BY <1>7, EngineTypes, ForwardPlaced
<1>8. ASSUME ResumeBarrier PROVE Typed' /\ Placed'
  <2>1. Typed'
    BY <1>8, EngineTypes
  <2> QED BY <1>8, <2>1, PlacedUnchanged DEF ResumeBarrier
<1>9. ASSUME Step PROVE Typed' /\ Placed'
  BY <1>9, StepTypes, StepPlaced
<1>10. ASSUME UNCHANGED vars PROVE Typed' /\ Placed'
  BY <1>10, PlacedUnchanged DEF vars, Typed
<1> QED BY <1>1, <1>2, <1>3, <1>4, <1>5, <1>6, <1>7, <1>8, <1>9, <1>10 DEF Next

-----------------------------------------------------------------------------
(* No one is ahead of the engines.                                          *)

LEMMA BelowKept ==
  ASSUME NEW w \in Nat, NEW v \in Nat, w <= v
  PROVE  /\ \A s \in Seq(WaveState) : Below(s, w) => Below(s, v)
         /\ \A s \in Seq(StartWave) : Below(s, w) => Below(s, v)
         /\ \A s \in Seq(Message) : AddsBelow(s, w) => AddsBelow(s, v)
         /\ \A s \in Seq(Output) : OutputsBelow(s, w) => OutputsBelow(s, v)
<1>1. \A n \in Nat : n <= w => n <= v
  OBVIOUS
<1>2. \A n \in Nat : n < w => n < v
  OBVIOUS
<1>3. ASSUME NEW s \in Seq(WaveState), Below(s, w) PROVE Below(s, v)
  <2>1. \A i \in DOMAIN s : s[i] \in WaveState
    OBVIOUS
  <2>2. \A i \in DOMAIN s : s[i].wave \in Nat
    BY <2>1 DEF WaveState
  <2> QED BY <1>1, <1>3, <2>2 DEF Below
<1>4. ASSUME NEW s \in Seq(StartWave), Below(s, w) PROVE Below(s, v)
  <2>1. \A i \in DOMAIN s : s[i] \in StartWave
    OBVIOUS
  <2>2. \A i \in DOMAIN s : s[i].wave \in Nat
    BY <2>1 DEF StartWave
  <2> QED BY <1>1, <1>4, <2>2 DEF Below
<1>5. ASSUME NEW s \in Seq(Message), AddsBelow(s, w) PROVE AddsBelow(s, v)
  <2>1. \A i \in DOMAIN s : s[i].type = "ADD" => s[i].wave \in Nat
    BY MessageFields
  <2> QED BY <1>1, <1>5, <2>1 DEF AddsBelow
<1>6. ASSUME NEW s \in Seq(Output), OutputsBelow(s, w) PROVE OutputsBelow(s, v)
  <2>1. \A i \in DOMAIN s : s[i] \in Output
    OBVIOUS
  <2>2. \A i \in DOMAIN s : s[i].wave \in Nat
    BY <2>1 DEF Output
  <2> QED BY <1>1, <1>2, <1>6, <2>2 DEF OutputsBelow
<1> QED BY <1>3, <1>4, <1>5, <1>6

LEMMA BelowAppended ==
  ASSUME NEW S, NEW s \in Seq(S), NEW m \in S, NEW w
  PROVE  /\ Below(s, w) /\ m.wave <= w => Below(Append(s, m), w)
         /\ AddsBelow(s, w) /\ (m.type = "ADD" => m.wave <= w) => AddsBelow(Append(s, m), w)
         /\ /\ OutputsBelow(s, w)
            /\ m.wave <= w /\ (m.type = "wave_complete" => m.wave < w)
            => OutputsBelow(Append(s, m), w)
  BY Appended DEF Below, AddsBelow, OutputsBelow

LEMMA BelowTaken ==
  ASSUME NEW S, NEW s \in Seq(S), s # << >>, NEW w
  PROVE  /\ Below(s, w) => Below(Tail(s), w) /\ Head(s).wave <= w
         /\ AddsBelow(s, w) =>
              AddsBelow(Tail(s), w) /\ (Head(s).type = "ADD" => Head(s).wave <= w)
         /\ OutputsBelow(s, w) =>
              /\ OutputsBelow(Tail(s), w) /\ Head(s).wave <= w
              /\ Head(s).type = "wave_complete" => Head(s).wave < w
  BY Taken DEF Below, AddsBelow, OutputsBelow

\* The waves that the parties are in.
LEMMA WaveTypes ==
  ASSUME Typed
  PROVE  /\ 0 \in Engines /\ coord.wave \in Nat
         /\ \A c \in Clients : client[c].wave \in Nat
         /\ \A e \in Engines : engine[e].current_wave \in Nat
         /\ engine[0].current_wave \in Nat
<1>1. 0 \in Engines
  BY WaveAssumption DEF Engines
<1>2. \A e \in Engines : engine[e].current_wave \in Nat
  BY DEF Typed, EngineState
<1>3. coord.wave \in Nat /\ \A c \in Clients : client[c].wave \in Nat
  BY DEF Typed, WaveState
<1> QED BY <1>1, <1>2, <1>3

\* What the clients send keeps within the engines' wave.
LEMMA InputBelow ==
  ASSUME Typed, WavesKnown,
         engine'[0].current_wave = engine[0].current_wave,
         \/ \E c \in Clients, e \in Engines, n \in Lengths : AddRequest(c, e, n)
         \/ \E mode \in PauseModes : CallPause(mode)
         \/ CallResume
         \/ \E c \in Clients, e \in Engines, type \in {"ADD", "PAUSE", "RESUME"} :
              Received(c, e, type)
         \/ input' = input
  PROVE  \A c \in Clients, e \in Engines : AddsBelow(input'[c][e], engine'[0].current_wave)
<1> DEFINE W == engine[0].current_wave
<1>0. /\ \A c \in Clients, e \in Engines :
           AddsBelow(input[c][e], W) /\ input[c][e] \in Seq(Message)
      /\ engine'[0].current_wave = W
  BY DEF WavesKnown, Typed
<1>1. ASSUME NEW c \in Clients, NEW e \in Engines, NEW n \in Lengths, AddRequest(c, e, n)
      PROVE  \A d \in Clients, f \in Engines : AddsBelow(input'[d][f], W)
  <2> DEFINE m == [type |-> "ADD", req |-> sent + 1, wave |-> client[c].wave]
  <2>1. sent + 1 \in Requests
    <3>1. sent + pauses < MaxCalls /\ sent \in Nat /\ pauses \in Nat /\ MaxCalls \in Nat
      BY <1>1, WaveAssumption DEF AddRequest, Typed
    <3> QED BY <3>1 DEF Requests
  <2>2. m \in Message
    BY <2>1 DEF Typed, WaveState, Message
  <2>3. /\ input'[c][e] = Append(input[c][e], m)
        /\ \A d \in Clients, f \in Engines : (d # c \/ f # e) => input'[d][f] = input[d][f]
    BY <1>1, <2>2, Sent DEF AddRequest
  <2>4. client[c].wave <= coord.wave /\ coord.wave <= W
    BY DEF WavesKnown, WavesAgree
  <2>5. client[c].wave \in Nat /\ coord.wave \in Nat /\ W \in Nat
    BY WaveTypes
  <2>7. \A x, y, z \in Nat : x <= y /\ y <= z => x <= z
    OBVIOUS
  <2>8. m.wave = client[c].wave
    OBVIOUS
  <2> HIDE DEF m, W
  <2>9. m.wave <= W
    BY <2>4, <2>5, <2>7, <2>8
  <2>6. AddsBelow(input'[c][e], W)
    BY <1>0, <2>2, <2>3, <2>9, BelowAppended
  <2> QED BY <1>0, <2>3, <2>6
<1>2. ASSUME NEW m \in Message, m.type # "ADD",
             input' = [input EXCEPT ![Pauser] = [e \in Engines |-> Append(@[e], m)]]
      PROVE  \A d \in Clients, f \in Engines : AddsBelow(input'[d][f], W)
  <2>1. /\ \A e \in Engines : input'[Pauser][e] = Append(input[Pauser][e], m)
        /\ \A d \in Clients, e \in Engines : d # Pauser => input'[d][e] = input[d][e]
        /\ Pauser \in Clients
    BY <1>2, CalledAll
  <2> HIDE DEF W
  <2>2. \A e \in Engines : AddsBelow(input'[Pauser][e], W)
    BY <1>0, <1>2, <2>1, BelowAppended
  <2> QED BY <1>0, <2>1, <2>2
<1>3. ASSUME NEW mode \in PauseModes, CallPause(mode)
      PROVE  \A d \in Clients, f \in Engines : AddsBelow(input'[d][f], W)
  <2>1. [type |-> "PAUSE", mode |-> mode] \in Message
    BY DEF Message
  <2> HIDE DEF W
  <2> QED BY <1>2, <1>3, <2>1 DEF CallPause
<1>4. ASSUME CallResume PROVE \A d \in Clients, f \in Engines : AddsBelow(input'[d][f], W)
  <2>1. [type |-> "RESUME"] \in Message
    BY DEF Message
  <2> HIDE DEF W
  <2> QED BY <1>2, <1>4, <2>1 DEF CallResume
<1>5. ASSUME NEW c \in Clients, NEW e \in Engines, NEW type, Received(c, e, type)
      PROVE  \A d \in Clients, f \in Engines : AddsBelow(input'[d][f], W)
  <2>1. /\ input[c][e] # << >> /\ input'[c][e] = Tail(input[c][e])
        /\ \A d \in Clients, f \in Engines : (d # c \/ f # e) => input'[d][f] = input[d][f]
    BY <1>5, Got
  <2> HIDE DEF W
  <2>2. AddsBelow(input'[c][e], W)
    BY <1>0, <2>1, BelowTaken
  <2> QED BY <1>0, <2>1, <2>2
<1> HIDE DEF W
<1> QED BY <1>0, <1>1, <1>3, <1>4, <1>5

\* The steps in which the engines' wave does not change.
LEMMA WavesKept ==
  ASSUME Typed, Typed', WavesKnown,
         \A e \in Engines : engine'[e].current_wave = engine[e].current_wave,
         \A c \in Clients, e \in Engines : AddsBelow(input'[c][e], engine'[0].current_wave),
         coord.wave <= coord'.wave, coord'.wave <= engine[0].current_wave,
         \A c \in Clients : client'[c].wave <= coord'.wave,
         \A c \in Clients : Below(published'[c], coord'.wave),
         \A e \in Engines : Below(starts'[e], engine[0].current_wave),
         \A e \in Engines : OutputsBelow(outputs'[e], engine[0].current_wave)
  PROVE  WavesKnown'
<1>1. 0 \in Engines
  BY WaveAssumption DEF Engines
<1>2. engine'[0].current_wave = engine[0].current_wave
  BY <1>1
<1>3. WavesAgree'
  BY <1>1, <1>2 DEF WavesKnown, WavesAgree
<1>4. /\ \A e \in Engines : Below(starts'[e], engine'[0].current_wave)
      /\ \A e \in Engines : OutputsBelow(outputs'[e], engine'[0].current_wave)
  BY <1>2
<1> QED BY <1>3, <1>4 DEF WavesKnown

\* What WavesKnown says, part by part.
LEMMA WavesFacts ==
  ASSUME Typed, WavesKnown
  PROVE  /\ \A e \in Engines : engine[e].current_wave = engine[0].current_wave
         /\ coord.wave <= coord.wave /\ coord.wave <= engine[0].current_wave
         /\ \A c \in Clients : client[c].wave <= coord.wave
         /\ \A c \in Clients : Below(published[c], coord.wave)
         /\ \A e \in Engines : Below(starts[e], engine[0].current_wave)
         /\ \A e \in Engines : OutputsBelow(outputs[e], engine[0].current_wave)
<1>1. coord.wave <= coord.wave /\ 0 \in Engines
  BY WaveTypes
<1> QED BY <1>1 DEF WavesKnown, WavesAgree

LEMMA ClientWaves ==
  ASSUME Typed, Typed', WavesKnown,
         \/ \E c \in Clients, e \in Engines, n \in Lengths : AddRequest(c, e, n)
         \/ \E mode \in PauseModes : CallPause(mode)
         \/ CallResume
         \/ \E c \in Clients : ClientStep(c)
  PROVE  WavesKnown'
<1> USE DEF channel_vars, engine_vars
<1>1. engine' = engine /\ coord' = coord /\ starts' = starts /\ outputs' = outputs
  BY DEF AddRequest, CallPause, CallResume, ClientStep, ForwardFirstReq, StatsUpdate
<1>2. \A c \in Clients, e \in Engines : AddsBelow(input'[c][e], engine'[0].current_wave)
  <2>1. \/ \E c \in Clients, e \in Engines, n \in Lengths : AddRequest(c, e, n)
        \/ \E mode \in PauseModes : CallPause(mode)
        \/ CallResume
        \/ input' = input
    BY DEF ClientStep, ForwardFirstReq, StatsUpdate
  <2> QED BY <1>1, <2>1, InputBelow
<1>3. /\ \A c \in Clients : client'[c].wave <= coord.wave
      /\ \A c \in Clients : Below(published'[c], coord.wave)
  <2>1. CASE client' = client /\ published' = published
    BY <2>1, WavesFacts
  <2>2. ASSUME NEW c \in Clients, ForwardFirstReq(c)
        PROVE  /\ \A d \in Clients : client'[d].wave = client[d].wave
               /\ published' = published
    <3>1. client' = [client EXCEPT ![c].running = TRUE] /\ published' = published
      BY <2>2 DEF ForwardFirstReq
    <3>2. client \in [Clients -> WaveState]
      BY DEF Typed
    <3> QED BY <3>1, <3>2 DEF WaveState
  <2>3. ASSUME NEW c \in Clients, StatsUpdate(c)
        PROVE  /\ \A d \in Clients : client'[d].wave <= coord.wave
               /\ \A d \in Clients : Below(published'[d], coord.wave)
    <3>1. /\ published[c] # << >> /\ client' = [client EXCEPT ![c] = Head(published[c])]
          /\ published' = [published EXCEPT ![c] = Tail(@)]
      BY <2>3 DEF StatsUpdate
    <3>2. published \in [Clients -> Seq(WaveState)] /\ client \in [Clients -> WaveState]
      BY DEF Typed
    <3>3. Below(Tail(published[c]), coord.wave) /\ Head(published[c]).wave <= coord.wave
      <4>1. Below(published[c], coord.wave) /\ published[c] \in Seq(WaveState)
        BY <3>2, WavesFacts
      <4> QED BY <3>1, <4>1, BelowTaken
    <3>4. ASSUME NEW d \in Clients
          PROVE  client'[d].wave <= coord.wave /\ Below(published'[d], coord.wave)
      <4>1. CASE d = c
        BY <3>1, <3>2, <3>3, <4>1
      <4>2. CASE d # c
        BY <3>1, <3>2, <4>2, WavesFacts
      <4> QED BY <4>1, <4>2
    <3> QED BY <3>4
  <2>4. \/ client' = client /\ published' = published
        \/ \E c \in Clients : ForwardFirstReq(c) \/ StatsUpdate(c)
    BY DEF AddRequest, CallPause, CallResume, ClientStep
  <2> QED BY <2>1, <2>2, <2>3, <2>4, WavesFacts
<1> QED BY <1>1, <1>2, <1>3, WavesFacts, WavesKept

LEMMA CoordWaves ==
  ASSUME Typed, Typed', WavesKnown, CoordInput \/ CoordPublish
  PROVE  WavesKnown'
<1> USE DEF channel_vars, engine_vars
<1> DEFINE W == engine[0].current_wave
<1>1. engine' = engine /\ client' = client /\ input' = input
  BY DEF CoordInput, CoordFirstReq, CoordOutput, CoordPublish
<1>2. \A c \in Clients, e \in Engines : AddsBelow(input'[c][e], engine'[0].current_wave)
  BY <1>1 DEF WavesKnown
<1>3. /\ coord.wave \in Nat /\ W \in Nat
      /\ \A c \in Clients : published[c] \in Seq(WaveState)
      /\ \A e \in Engines : starts[e] \in Seq(StartWave)
      /\ \A e \in Engines : outputs[e] \in Seq(Output)
      /\ \A c \in Clients : client[c].wave \in Nat
  BY WaveTypes DEF Typed
<1> HIDE DEF W
<1>4. ASSUME NEW w \in Nat, w <= W, NEW x \in Excludes, SendStartWave(w, x)
      PROVE  \A e \in Engines : Below(starts'[e], W)
  <2> DEFINE m == [wave |-> w, exclude |-> x]
  <2>1. m \in StartWave /\ m.wave = w
    BY DEF StartWave
  <2>2. \A e \in Engines : starts'[e] = Append(starts[e], m)
    BY <1>4, StartType
  <2>3. \A e \in Engines : Below(starts[e], W)
    BY WavesFacts DEF W
  <2> HIDE DEF m
  <2> QED BY <1>3, <1>4, <2>1, <2>2, <2>3, BelowAppended
<1>5. ASSUME NEW state \in WaveState, coord.wave <= state.wave, PublishState(state)
      PROVE  \A c \in Clients : Below(published'[c], state.wave)
  <2>1. \A c \in Clients : published'[c] = Append(published[c], state)
    BY <1>5, PublishType
  <2>2. state.wave \in Nat /\ state.wave <= state.wave
    BY DEF WaveState
  <2>3. \A c \in Clients : Below(published[c], coord.wave)
    BY WavesFacts
  <2>4. \A c \in Clients : Below(published[c], state.wave)
    BY <1>3, <1>5, <2>2, <2>3, BelowKept
  <2> QED BY <1>3, <2>1, <2>2, <2>4, BelowAppended
<1>6. ASSUME NEW c \in Clients, CoordFirstReq(c) PROVE WavesKnown'
  <2>1. coord' = coord /\ outputs' = outputs /\ published' = published
    BY <1>6 DEF CoordFirstReq
  <2>2. \A e \in Engines : Below(starts'[e], W)
    <3>1. Head(to_coord[c]) \in FirstReq
      BY <1>6, TakeType DEF CoordFirstReq, Typed
    <3>2. Head(to_coord[c]).exclude \in Excludes /\ None \in Excludes
      BY <3>1 DEF FirstReq, Identities, Excludes
    <3>3. \/ starts' = starts
          \/ \E x \in Excludes : SendStartWave(coord.wave, x)
      BY <1>6, <3>2 DEF CoordFirstReq
    <3>4. coord.wave <= W /\ \A e \in Engines : Below(starts[e], W)
      BY WavesFacts DEF W
    <3> QED BY <1>3, <1>4, <3>3, <3>4
  <2> QED BY <1>1, <1>2, <2>1, <2>2, WavesFacts, WavesKept DEF W
<1>7. ASSUME NEW e \in Engines, CoordOutput(e) PROVE WavesKnown'
  <2> DEFINE m == Head(outputs[e])
  <2>1. outputs[e] # << >> /\ outputs' = [outputs EXCEPT ![e] = Tail(@)]
    BY <1>7 DEF CoordOutput
  <2>2. /\ OutputsBelow(Tail(outputs[e]), W)
        /\ m.wave <= W /\ (m.type = "wave_complete" => m.wave < W)
    <3>1. OutputsBelow(outputs[e], W)
      BY WavesFacts DEF W
    <3> QED BY <1>3, <2>1, <3>1, BelowTaken
  <2>3. \A f \in Engines : OutputsBelow(outputs'[f], W)
    <3>1. \A f \in Engines : OutputsBelow(outputs[f], W)
      BY WavesFacts DEF W
    <3>2. outputs \in [Engines -> Seq(Output)]
      BY DEF Typed
    <3> QED BY <2>1, <2>2, <3>1, <3>2
  <2>4. m.wave \in Nat
    <3>1. m \in Output
      BY <1>3, <2>1, Taken
    <3> QED BY <3>1 DEF Output
  <2>5. /\ \/ /\ m.type = "wave_complete" /\ coord.wave <= m.wave
              /\ coord' = [wave |-> m.wave + 1, running |-> FALSE]
              /\ PublishState(coord')
           \/ /\ m.wave > coord.wave \/ m.wave = coord.wave
              /\ coord' = [wave |-> m.wave, running |-> TRUE]
              /\ PublishState(coord')
           \/ coord' = coord /\ published' = published
        /\ starts' = starts \/ SendStartWave(m.wave, Index(e))
    BY <1>7 DEF CoordOutput, CoordWaveComplete
  <2> HIDE DEF m
  <2>6. coord.wave <= coord'.wave /\ coord'.wave <= W
    <3>1. coord.wave <= coord.wave /\ coord.wave <= W
      BY WavesFacts DEF W
    <3>2. CASE coord' = coord
      BY <3>1, <3>2
    <3>3. CASE /\ m.type = "wave_complete" /\ coord.wave <= m.wave
               /\ coord' = [wave |-> m.wave + 1, running |-> FALSE]
      <4>1. coord'.wave = m.wave + 1
        BY <3>3
      <4> QED BY <1>3, <2>2, <2>4, <3>3, <4>1
    <3>4. CASE /\ m.wave > coord.wave \/ m.wave = coord.wave
               /\ coord' = [wave |-> m.wave, running |-> TRUE]
      <4>1. coord'.wave = m.wave
        BY <3>4
      <4> QED BY <1>3, <2>2, <2>4, <3>4, <4>1
    <3> QED BY <2>5, <3>2, <3>3, <3>4
  <2>7. coord' \in WaveState
    BY DEF Typed
  <2>8. \A c \in Clients : Below(published'[c], coord'.wave)
    BY <1>5, <2>5, <2>6, <2>7, WavesFacts
  <2>9. \A f \in Engines : Below(starts'[f], W)
    <3>1. Index(e) \in Excludes
      BY DEF Excludes
    <3> QED BY <1>4, <2>2, <2>4, <2>5, <3>1, WavesFacts DEF W
  <2>10. \A c \in Clients : client'[c].wave <= coord'.wave
    <3>1. \A c \in Clients : client[c].wave <= coord.wave
      BY WavesFacts
    <3>2. coord'.wave \in Nat
      BY <2>7 DEF WaveState
    <3> QED BY <1>1, <1>3, <2>6, <3>1, <3>2
  <2> QED BY <1>1, <1>2, <2>3, <2>6, <2>8, <2>9, <2>10, WavesKept DEF W
<1>8. ASSUME CoordPublish PROVE WavesKnown'
  <2>1. coord' = coord /\ outputs' = outputs /\ starts' = starts
    BY <1>8 DEF CoordPublish
  <2>2. coord \in WaveState /\ PublishState(coord)
    BY <1>8 DEF CoordPublish, Typed
  <2>3. \A c \in Clients : Below(published'[c], coord.wave)
    BY <1>5, <2>2, WavesFacts
  <2> QED BY <1>1, <1>2, <2>1, <2>3, WavesFacts, WavesKept
<1> QED BY <1>6, <1>7, <1>8 DEF CoordInput

\* An engine that takes a message is in the wave it was in before.
LEMMA EngineWaves ==
  ASSUME Typed, Typed', WavesKnown,
         (\E e \in Engines : EngineInput(e) \/ EnterForward(e)) \/ ResumeBarrier
  PROVE  WavesKnown'
<1> USE DEF channel_vars
<1> DEFINE W == engine[0].current_wave
<1>0. /\ engine \in [Engines -> EngineState] /\ 0 \in Engines /\ Pauser \in Clients
      /\ \A e \in Engines : engine[e].current_wave = W /\ W \in Nat
      /\ starts \in [Engines -> Seq(StartWave)] /\ outputs \in [Engines -> Seq(Output)]
  <2>1. Pauser \in Clients
    BY WaveAssumption DEF Pauser, Clients
  <2>2. /\ engine \in [Engines -> EngineState]
        /\ starts \in [Engines -> Seq(StartWave)] /\ outputs \in [Engines -> Seq(Output)]
    BY DEF Typed
  <2> QED BY <2>1, <2>2, WaveTypes, WavesFacts
<1>1. UNCHANGED <<client, coord, published>>
  BY DEF EngineInput, EnterForward, ResumeBarrier, HandleAdd, HandleStart, HandlePause,
         HandleResume
<1>2. ASSUME \A e \in Engines : engine'[e].current_wave = W,
             \/ \E c \in Clients, e \in Engines, type \in {"ADD", "PAUSE", "RESUME"} :
                  Received(c, e, type)
             \/ input' = input,
             \A e \in Engines : Below(starts'[e], W),
             \A e \in Engines : OutputsBelow(outputs'[e], W)
      PROVE  WavesKnown'
  <2>1. \A c \in Clients, e \in Engines : AddsBelow(input'[c][e], engine'[0].current_wave)
    BY <1>0, <1>2, InputBelow
  <2> QED BY <1>0, <1>1, <1>2, <2>1, WavesFacts, WavesKept
<1>3. ASSUME NEW c \in Clients, NEW e \in Engines, HandleAdd(c, e) PROVE WavesKnown'
  <2> DEFINE h == Head(input[c][e])
             w == IF h.wave > engine[e].current_wave THEN h.wave ELSE engine[e].current_wave
             b == engine[e].engines_running \/ StaleWave(e, h.wave)
  <2>1. Received(c, e, "ADD") /\ starts' = starts
    BY <1>3 DEF HandleAdd
  <2>2. engine' = [engine EXCEPT ![e].current_wave = w, ![e].engines_running = b]
    BY <1>3 DEF HandleAdd
  <2>3. h.wave \in Nat /\ h.wave <= W
    <3>1. AddsBelow(input[c][e], W)
      BY DEF WavesKnown
    <3>2. input[c][e] \in Seq(Message) /\ input[c][e] # << >> /\ h.type = "ADD" /\ h \in Message
      BY <2>1, Got
    <3> HIDE DEF W
    <3> QED BY <3>1, <3>2, BelowTaken, MessageFields
  <2>4. w = W
    BY <1>0, <2>3
  <2> HIDE DEF w, b, W
  <2>5. \A f \in Engines : engine'[f].current_wave = W
    BY <1>0, <2>2, <2>4 DEF EngineState
  <2>6. \A f \in Engines : OutputsBelow(outputs'[f], W)
    <3> DEFINE m == [type |-> "start_wave", wave |-> engine[e].current_wave]
    <3>1. outputs' = outputs \/ outputs' = Put(outputs, e, m)
      BY <1>3, Zenon DEF HandleAdd
    <3>2. m \in Output /\ m.wave = W /\ m.type # "wave_complete" /\ W <= W
      BY <1>0 DEF Output
    <3>3. \A f \in Engines : OutputsBelow(outputs[f], W) /\ outputs[f] \in Seq(Output)
      BY <1>0, WavesFacts DEF W
    <3> HIDE DEF m
    <3>4. OutputsBelow(Append(outputs[e], m), W)
      BY <3>2, <3>3, BelowAppended
    <3>5. /\ Put(outputs, e, m)[e] = Append(outputs[e], m)
          /\ \A f \in Engines : f # e => Put(outputs, e, m)[f] = outputs[f]
      <4>1. m \in Output /\ outputs \in [Engines -> Seq(Output)]
        BY <1>0, <3>2
      <4> QED BY ONLY e \in Engines, <4>1, PutType
    <3> QED BY <3>1, <3>3, <3>4, <3>5
  <2>7. \A f \in Engines : Below(starts'[f], W)
    BY <2>1, WavesFacts DEF W
  <2> QED BY <1>2, <2>1, <2>5, <2>6, <2>7
<1>4. ASSUME NEW e \in Engines, HandleStart(e) PROVE WavesKnown'
  <2> DEFINE h == Head(starts[e])
  <2>1. /\ starts[e] # << >> /\ starts' = [starts EXCEPT ![e] = Tail(@)]
        /\ input' = input /\ outputs' = outputs
        /\ \/ engine' = engine
           \/ /\ engine' = [engine EXCEPT ![e].current_wave = h.wave,
                                          ![e].engines_running = TRUE]
              /\ h.wave >= engine[e].current_wave
    BY <1>4 DEF HandleStart, AcceptsStart
  <2>2. /\ \A f \in Engines : Below(starts[f], W) /\ starts[f] \in Seq(StartWave)
        /\ \A f \in Engines : OutputsBelow(outputs[f], W)
    BY <1>0, WavesFacts
  <2> HIDE DEF W
  <2>3. h \in StartWave /\ h.wave <= W /\ Below(Tail(starts[e]), W)
    BY <2>1, <2>2, BelowTaken, Taken
  <2>4. h.wave \in Nat
    BY <2>3 DEF StartWave
  <2>5. h.wave >= engine[e].current_wave => h.wave = W
    BY <1>0, <2>3, <2>4
  <2> HIDE DEF h
  <2>6. \A f \in Engines : engine'[f].current_wave = W
    BY <1>0, <2>1, <2>5 DEF EngineState
  <2>7. \A f \in Engines : Below(starts'[f], W)
    BY <1>0, <2>1, <2>2, <2>3
  <2> QED BY <1>2, <2>1, <2>2, <2>6, <2>7
<1>5. ASSUME NEW e \in Engines, HandlePause(e) \/ HandleResume(e) \/ EnterForward(e)
      PROVE  WavesKnown'
  <2>1. /\ starts' = starts /\ outputs' = outputs
        /\ input' = input \/ Received(Pauser, e, "PAUSE") \/ Received(Pauser, e, "RESUME")
    BY <1>5 DEF HandlePause, HandleResume, EnterForward
  <2>2. \/ engine' = engine
        \/ engine' = [engine EXCEPT ![e].pause = "unpaused", ![e].ignore_start = FALSE]
        \/ \E p : engine' = [engine EXCEPT ![e].pause = p, ![e].pending_pause = TRUE,
                                           ![e].engines_running = TRUE]
    BY <1>5 DEF HandlePause, HandleResume, EnterForward
  <2>3. \A f \in Engines : engine'[f].current_wave = W
    <3> HIDE DEF W
    <3>1. CASE engine' = engine
      BY <1>0, <3>1
    <3>2. CASE engine' = [engine EXCEPT ![e].pause = "unpaused", ![e].ignore_start = FALSE]
      BY <1>0, <3>2 DEF EngineState
    <3>3. ASSUME NEW p, engine' = [engine EXCEPT ![e].pause = p, ![e].pending_pause = TRUE,
                                                 ![e].engines_running = TRUE]
          PROVE  \A f \in Engines : engine'[f].current_wave = W
      BY <1>0, <3>3 DEF EngineState
    <3> QED BY <2>2, <3>1, <3>2, <3>3
  <2> QED BY <1>0, <1>2, <2>1, <2>3, WavesFacts
<1>6. ASSUME ResumeBarrier PROVE WavesKnown'
  <2>1. starts' = starts /\ outputs' = outputs /\ input' = input
    BY <1>6 DEF ResumeBarrier
  <2>2. \E b : engine' = [e \in Engines |-> [engine[e] EXCEPT !.engines_running = b]]
    BY <1>6 DEF ResumeBarrier
  <2>3. \A f \in Engines : engine'[f].current_wave = W
    <3> HIDE DEF W
    <3> QED BY <1>0, <2>2 DEF EngineState
  <2> QED BY <1>2, <2>1, <2>3, WavesFacts
<1> QED BY <1>3, <1>4, <1>5, <1>6 DEF EngineInput

\* The fields of an engine after a forward pass.
LEMMA SteppedFields ==
  ASSUME Typed, NEW on \in BOOLEAN, NEW agreed \in BOOLEAN, Stepped(on, agreed)
  PROVE  \A e \in Engines :
           /\ engine'[e].current_wave =
                IF on THEN engine[e].current_wave ELSE engine[e].current_wave + 1
           /\ engine'[e].engines_running = on
           /\ engine'[e].pending_pause <=> engine[e].pending_pause /\ ~ agreed
           /\ engine'[e].ignore_start <=> engine[e].ignore_start \/ agreed
           /\ engine'[e].pause = engine[e].pause
<1>1. ASSUME NEW s \in EngineState, NEW p, NEW q, NEW w
      PROVE  LET t == [s EXCEPT !.engines_running = on, !.was_running = on,
                         !.pending_pause = p, !.ignore_start = q, !.current_wave = w]
             IN  /\ t.current_wave = w /\ t.engines_running = on /\ t.pending_pause = p
                 /\ t.ignore_start = q /\ t.pause = s.pause
  BY DEF EngineState
<1>2. \A e \in Engines : engine[e] \in EngineState
  BY DEF Typed
<1>3. \A e \in Engines : engine'[e] = [engine[e] EXCEPT
        !.engines_running = on, !.was_running = on,
        !.pending_pause = engine[e].pending_pause /\ ~ agreed,
        !.ignore_start = engine[e].ignore_start \/ agreed,
        !.current_wave = IF on THEN engine[e].current_wave ELSE engine[e].current_wave + 1]
  BY DEF Stepped
<1>4. \A e \in Engines :
        /\ engine'[e].current_wave =
             IF on THEN engine[e].current_wave ELSE engine[e].current_wave + 1
        /\ engine'[e].engines_running = on
        /\ engine'[e].pending_pause = (engine[e].pending_pause /\ ~ agreed)
        /\ engine'[e].ignore_start = (engine[e].ignore_start \/ agreed)
        /\ engine'[e].pause = engine[e].pause
  <2> TAKE e \in Engines
  <2> DEFINE p == engine[e].pending_pause /\ ~ agreed
             q == engine[e].ignore_start \/ agreed
             w == IF on THEN engine[e].current_wave ELSE engine[e].current_wave + 1
  <2>1. engine'[e] = [engine[e] EXCEPT !.engines_running = on, !.was_running = on,
                        !.pending_pause = p, !.ignore_start = q, !.current_wave = w]
    BY <1>3
  <2>2. engine[e] \in EngineState
    BY <1>2
  <2> HIDE DEF p, q, w
  <2>3. /\ engine'[e].current_wave = w /\ engine'[e].engines_running = on
        /\ engine'[e].pending_pause = p
        /\ engine'[e].ignore_start = q /\ engine'[e].pause = engine[e].pause
    BY <1>1, <2>1, <2>2
  <2> QED BY <2>3 DEF p, q, w
<1> QED BY <1>4

\* The engines go on to the next wave together.
LEMMA StepWaves ==
  ASSUME Typed, Typed', WavesKnown, Step
  PROVE  WavesKnown'
<1> DEFINE W == engine[0].current_wave
           V == engine'[0].current_wave
<1>0. /\ engine \in [Engines -> EngineState] /\ 0 \in Engines
      /\ \A e \in Engines : engine[e].current_wave = W /\ W \in Nat
      /\ outputs \in [Engines -> Seq(Output)]
      /\ UNCHANGED <<client, coord, published, starts, input>>
  BY WaveTypes, WavesFacts DEF Typed, Step
<1>1. PICK on \in BOOLEAN, agreed \in BOOLEAN : Stepped(on, agreed)
  BY StepIsStepped
<1>2. \A e \in Engines : engine'[e].current_wave = IF on THEN W ELSE W + 1
  <2>1. \A e \in Engines : engine'[e].current_wave =
          IF on THEN engine[e].current_wave ELSE engine[e].current_wave + 1
    BY <1>1, SteppedFields
  <2> QED BY <1>0, <2>1
<1>3. V = (IF on THEN W ELSE W + 1) /\ V \in Nat /\ W <= V
  BY <1>0, <1>2
<1>4. /\ \A e \in Engines : Below(starts[e], W) /\ starts[e] \in Seq(StartWave)
      /\ \A e \in Engines : OutputsBelow(outputs[e], W) /\ outputs[e] \in Seq(Output)
      /\ \A c \in Clients, e \in Engines :
           AddsBelow(input[c][e], W) /\ input[c][e] \in Seq(Message)
  BY WavesFacts DEF Typed, WavesKnown
<1>5. \E m \in Output :
        /\ m.wave = W /\ (m.type = "wave_complete" => ~ on)
        /\ outputs' = outputs \/ outputs' = Put(outputs, 0, m)
  <2> DEFINE s == [type |-> "start_wave", wave |-> W]
             d == [type |-> "wave_complete", wave |-> W]
  <2>1. s \in Output /\ d \in Output /\ s.wave = W /\ d.wave = W /\ s.type # "wave_complete"
    BY <1>0 DEF Output
  <2>2. \/ ~ on /\ outputs' = Put(outputs, 0, d)
        \/ outputs' = Put(outputs, 0, s)
        \/ outputs' = outputs
    BY <1>1 DEF Stepped
  <2> HIDE DEF s, d, W
  <2> QED BY <2>1, <2>2
<1> HIDE DEF V, W
<1>6. /\ \A e \in Engines : Below(starts[e], V)
      /\ \A e \in Engines : OutputsBelow(outputs[e], V)
      /\ \A c \in Clients, e \in Engines : AddsBelow(input[c][e], V)
  BY <1>0, <1>3, <1>4, BelowKept
<1>7. \A e \in Engines : OutputsBelow(outputs'[e], V)
  <2>1. PICK m \in Output :
        /\ m.wave = W /\ (m.type = "wave_complete" => ~ on)
        /\ outputs' = outputs \/ outputs' = Put(outputs, 0, m)
    BY <1>5
  <2>2. m.wave <= V /\ (m.type = "wave_complete" => m.wave < V)
    BY <1>0, <1>3, <2>1
  <2>3. OutputsBelow(Append(outputs[0], m), V)
    BY <1>0, <1>4, <1>6, <2>2, BelowAppended
  <2>4. /\ Put(outputs, 0, m)[0] = Append(outputs[0], m)
        /\ \A f \in Engines : f # 0 => Put(outputs, 0, m)[f] = outputs[f]
    BY <1>0, PutType
  <2> QED BY <1>6, <2>1, <2>3, <2>4
<1>8. WavesAgree'
  <2>1. coord.wave <= W /\ coord.wave \in Nat
    BY WaveTypes, WavesFacts DEF W
  <2>2. coord.wave <= V
    BY <1>0, <1>3, <2>1
  <2>3. \A c \in Clients : client[c].wave <= coord.wave
    BY WavesFacts
  <2>4. coord'.wave <= engine'[0].current_wave
    BY <1>0, <2>2 DEF V
  <2> QED BY <1>0, <1>2, <2>3, <2>4 DEF WavesAgree
<1> QED BY <1>0, <1>6, <1>7, <1>8 DEF WavesKnown, V

LEMMA WavesStep == Typed /\ Typed' /\ WavesKnown /\ [Next]_vars => WavesKnown'
<1> SUFFICES ASSUME Typed, Typed', WavesKnown, [Next]_vars PROVE WavesKnown'
  OBVIOUS
<1>1. CASE UNCHANGED vars
  BY <1>1 DEF vars, channel_vars, engine_vars, WavesKnown, WavesAgree
<1> QED BY <1>1, ClientWaves, CoordWaves, EngineWaves, StepWaves DEF Next

-----------------------------------------------------------------------------
(* The stages of a pause.                                                   *)

\* What is on its way from the Pauser is the same as before, but for ADDs.
ControlKept ==
  \A e \in Engines :
    /\ HasPause(e)' = HasPause(e) /\ HasResume(e)' = HasResume(e)
    /\ Orderly(input'[Pauser][e])

\* A stopped engine has no work.
LEMMA StoppedIdle ==
  ASSUME Typed, NEW e \in Engines, Stopped(e)
  PROVE  phase[e] = "input" /\ ~ HasWork(e)
<1>1. engine[e].pause \in {"unpaused", "paused_new", "paused_all"}
  BY DEF Typed, EngineState
<1> QED BY <1>1 DEF Stopped, HasWork, Unfinished

\* The steps that only let an engine run that no pause has stopped.
LEMMA StagesKept ==
  ASSUME PauseInv, ControlKept, UNCHANGED <<pausing, phase, running>>,
         \A e \in Engines :
           /\ engine'[e].pause = engine[e].pause
           /\ engine'[e].pending_pause = engine[e].pending_pause
           /\ engine'[e].ignore_start = engine[e].ignore_start
           /\ \/ engine'[e].engines_running = engine[e].engines_running
              \/ /\ phase[e] = "input" /\ engine'[e].engines_running
                 /\ ~ engine[e].ignore_start \/ engine[e].pause = "unpaused"
  PROVE  PauseInv'
<1> USE DEF ControlKept, PauseInv
<1>1. /\ \A e \in Engines : Fresh(e) => Fresh(e)'
      /\ \A e \in Engines : Pausing(e) => Pausing(e)'
      /\ \A e \in Engines : Draining(e) => Draining(e)'
      /\ \A e \in Engines : Stopped(e) => Stopped(e)'
  BY DEF Fresh, Pausing, Draining, Stopped
<1>2. CASE RunStage
  BY <1>1, <1>2 DEF RunStage
<1>3. CASE DrainStage
  BY <1>1, <1>3 DEF DrainStage
<1>4. CASE StopStage
  BY <1>1, <1>4 DEF StopStage
<1>5. CASE ResumeStage
  <2>1. \A e \in Engines : phase[e] = "resume" =>
          engine'[e].engines_running = engine[e].engines_running
    OBVIOUS
  <2>2. ResumeStage'
    BY <1>1, <1>5, <2>1 DEF ResumeStage
  <2> QED BY <2>2
<1> QED BY <1>2, <1>3, <1>4, <1>5

\* An ADD that is sent, or taken, changes nothing for the pause.
LEMMA ControlInput ==
  ASSUME Typed, PauseInv,
         \/ \E c \in Clients, e \in Engines, n \in Lengths : AddRequest(c, e, n)
         \/ \E c \in Clients, e \in Engines : Received(c, e, "ADD")
         \/ input' = input
  PROVE  ControlKept
<1>0. /\ \A e \in Engines : Orderly(input[Pauser][e]) /\ input[Pauser][e] \in Seq(Message)
      /\ Pauser \in Clients
  <2>1. Pauser \in Clients
    BY WaveAssumption DEF Pauser, Clients
  <2> QED BY <2>1 DEF PauseInv, Typed
<1>1. ASSUME NEW c \in Clients, NEW e \in Engines, NEW n \in Lengths, AddRequest(c, e, n)
      PROVE  ControlKept
  <2> DEFINE m == [type |-> "ADD", req |-> sent + 1, wave |-> client[c].wave]
  <2>1. sent + 1 \in Requests
    <3>1. sent + pauses < MaxCalls /\ sent \in Nat /\ pauses \in Nat /\ MaxCalls \in Nat
      BY <1>1, WaveAssumption DEF AddRequest, Typed
    <3> QED BY <3>1 DEF Requests
  <2>2. m \in Message /\ m.type = "ADD"
    BY <2>1 DEF Typed, WaveState, Message
  <2>3. /\ input'[c][e] = Append(input[c][e], m)
        /\ \A d \in Clients, f \in Engines : (d # c \/ f # e) => input'[d][f] = input[d][f]
    BY <1>1, <2>2, Sent DEF AddRequest
  <2> HIDE DEF m
  <2>4. ASSUME NEW f \in Engines
        PROVE  /\ HasPause(f)' = HasPause(f) /\ HasResume(f)' = HasResume(f)
               /\ Orderly(input'[Pauser][f])
    <3>1. CASE c = Pauser /\ e = f
      <4>1. input'[Pauser][f] = Append(input[Pauser][f], m)
        BY <2>3, <3>1
      <4>2. /\ Has(Append(input[Pauser][f], m), "PAUSE") = Has(input[Pauser][f], "PAUSE")
            /\ Has(Append(input[Pauser][f], m), "RESUME") = Has(input[Pauser][f], "RESUME")
        <5>1. Has(input[Pauser][f], "PAUSE") \in BOOLEAN /\ Has(input[Pauser][f], "RESUME") \in BOOLEAN
              /\ Has(Append(input[Pauser][f], m), "PAUSE") \in BOOLEAN
              /\ Has(Append(input[Pauser][f], m), "RESUME") \in BOOLEAN
          BY DEF Has
        <5> QED BY <1>0, <2>2, <5>1, HasAppended
      <4>3. Orderly(Append(input[Pauser][f], m))
        BY <1>0, <2>2, OrderlyAppended
      <4> QED BY <4>1, <4>2, <4>3 DEF HasPause, HasResume
    <3>2. CASE ~ (c = Pauser /\ e = f)
      BY <1>0, <2>3, <3>2 DEF HasPause, HasResume
    <3> QED BY <3>1, <3>2
  <2> QED BY <2>4 DEF ControlKept
<1>2. ASSUME NEW c \in Clients, NEW e \in Engines, Received(c, e, "ADD")
      PROVE  ControlKept
  <2>1. /\ input[c][e] # << >> /\ Head(input[c][e]).type = "ADD"
        /\ input'[c][e] = Tail(input[c][e])
        /\ \A d \in Clients, f \in Engines : (d # c \/ f # e) => input'[d][f] = input[d][f]
    BY <1>2, Got
  <2>2. ASSUME NEW f \in Engines
        PROVE  /\ HasPause(f)' = HasPause(f) /\ HasResume(f)' = HasResume(f)
               /\ Orderly(input'[Pauser][f])
    <3>1. CASE c = Pauser /\ e = f
      <4>1. input'[Pauser][f] = Tail(input[Pauser][f])
        BY <2>1, <3>1
      <4>2. /\ Has(Tail(input[Pauser][f]), "PAUSE") = Has(input[Pauser][f], "PAUSE")
            /\ Has(Tail(input[Pauser][f]), "RESUME") = Has(input[Pauser][f], "RESUME")
        <5>1. Has(input[Pauser][f], "PAUSE") \in BOOLEAN /\ Has(input[Pauser][f], "RESUME") \in BOOLEAN
              /\ Has(Tail(input[Pauser][f]), "PAUSE") \in BOOLEAN
              /\ Has(Tail(input[Pauser][f]), "RESUME") \in BOOLEAN
          BY DEF Has
        <5> QED BY <1>0, <2>1, <3>1, <5>1, HasTaken
      <4>3. Orderly(Tail(input[Pauser][f]))
        BY <1>0, <2>1, <3>1, OrderlyTaken
      <4> QED BY <4>1, <4>2, <4>3 DEF HasPause, HasResume
    <3>2. CASE ~ (c = Pauser /\ e = f)
      BY <1>0, <2>1, <3>2 DEF HasPause, HasResume
    <3> QED BY <3>1, <3>2
  <2> QED BY <2>2 DEF ControlKept
<1>3. CASE input' = input
  BY <1>0, <1>3 DEF ControlKept, HasPause, HasResume
<1> QED BY <1>1, <1>2, <1>3

\* pause_scheduler begins a pause: every engine has it before it, behind a
\* resume perhaps.
LEMMA CallPauseStage ==
  ASSUME Typed, PauseInv, NEW mode \in PauseModes, CallPause(mode)
  PROVE  PauseInv'
<1> DEFINE m == [type |-> "PAUSE", mode |-> mode]
<1>1. m \in Message /\ m.type = "PAUSE" /\ "PAUSE" # "RESUME"
  BY DEF Message
<1>2. /\ \A e \in Engines : input[Pauser][e] \in Seq(Message)
      /\ \A e \in Engines : input'[Pauser][e] = Append(input[Pauser][e], m)
  BY <1>1, CalledAll DEF CallPause
<1>3. /\ pausing = "no" /\ pausing' = "pending"
      /\ engine' = engine /\ phase' = phase /\ running' = running
  BY DEF CallPause, engine_vars, request_vars
<1>4. \A e \in Engines : ~ HasPause(e)
  BY <1>3 DEF PauseInv, RunStage, DrainStage, StopStage, ResumeStage
<1> HIDE DEF m
<1>5. \A e \in Engines : HasPause(e)' /\ (HasResume(e)' <=> HasResume(e))
  <2>1. ASSUME NEW e \in Engines
        PROVE  /\ Has(Append(input[Pauser][e], m), "PAUSE") <=>
                    Has(input[Pauser][e], "PAUSE") \/ m.type = "PAUSE"
               /\ Has(Append(input[Pauser][e], m), "RESUME") <=>
                    Has(input[Pauser][e], "RESUME") \/ m.type = "RESUME"
    BY <1>1, <1>2, HasAppended
  <2> QED BY <1>1, <1>2, <2>1 DEF HasPause, HasResume
<1>6. \A e \in Engines : Orderly(input'[Pauser][e])
  <2>1. \A e \in Engines : Orderly(input[Pauser][e]) /\ ~ Has(input[Pauser][e], "PAUSE")
    BY <1>4 DEF PauseInv, HasPause
  <2>2. ASSUME NEW e \in Engines PROVE Orderly(Append(input[Pauser][e], m))
    BY <1>1, <1>2, <2>1, OrderlyAppended
  <2> QED BY <1>2, <2>2
<1>7. \A e \in Engines : (Fresh(e) => Fresh(e)') /\ (Stopped(e) => Stopped(e)')
  BY <1>3 DEF Fresh, Stopped
<1>8. CASE RunStage
  BY <1>3, <1>5, <1>6, <1>7, <1>8 DEF PauseInv, RunStage
<1>9. CASE ResumeStage
  BY <1>3, <1>5, <1>6, <1>7, <1>9 DEF PauseInv, ResumeStage
<1> QED BY <1>3, <1>8, <1>9 DEF PauseInv, DrainStage, StopStage

\* resume_scheduler finds every engine stopped.
LEMMA CallResumeStage ==
  ASSUME Typed, PauseInv, CallResume
  PROVE  PauseInv'
<1> DEFINE m == [type |-> "RESUME"]
<1>1. m \in Message /\ m.type = "RESUME" /\ "PAUSE" # "RESUME"
  BY DEF Message
<1>2. /\ \A e \in Engines : input[Pauser][e] \in Seq(Message)
      /\ \A e \in Engines : input'[Pauser][e] = Append(input[Pauser][e], m)
  BY <1>1, CalledAll DEF CallResume
<1>3. /\ pausing = "resolved" /\ pausing' = "no"
      /\ engine' = engine /\ phase' = phase /\ running' = running
  BY DEF CallResume, engine_vars, request_vars
<1>4. StopStage
  BY <1>3 DEF PauseInv, RunStage, DrainStage, ResumeStage
<1> HIDE DEF m
<1>5. \A e \in Engines : HasResume(e)' /\ ~ HasPause(e)'
  <2>1. ASSUME NEW e \in Engines
        PROVE  /\ Has(Append(input[Pauser][e], m), "PAUSE") <=>
                    Has(input[Pauser][e], "PAUSE") \/ m.type = "PAUSE"
               /\ Has(Append(input[Pauser][e], m), "RESUME") <=>
                    Has(input[Pauser][e], "RESUME") \/ m.type = "RESUME"
    BY <1>1, <1>2, HasAppended
  <2>2. \A e \in Engines : ~ HasResume(e) /\ ~ HasPause(e)
    BY <1>4 DEF StopStage
  <2> QED BY <1>1, <1>2, <2>1, <2>2 DEF HasPause, HasResume
<1>6. \A e \in Engines : Orderly(input'[Pauser][e])
  <2>1. \A e \in Engines :
          /\ Orderly(input[Pauser][e])
          /\ ~ Has(input[Pauser][e], "PAUSE") /\ ~ Has(input[Pauser][e], "RESUME")
    BY <1>4 DEF PauseInv, HasPause, HasResume, StopStage
  <2>2. ASSUME NEW e \in Engines PROVE Orderly(Append(input[Pauser][e], m))
    BY <1>1, <1>2, <2>1, OrderlyAppended
  <2> QED BY <1>2, <2>2
<1>7. \A e \in Engines : Stopped(e)'
  BY <1>3, <1>4 DEF Stopped, StopStage
<1> QED BY <1>3, <1>5, <1>6, <1>7 DEF PauseInv, ResumeStage

\* An engine begins the pause, or takes the resume: what is left in its channel.
LEMMA ControlTaken ==
  ASSUME Typed, PauseInv, NEW e \in Engines, NEW type \in {"PAUSE", "RESUME"},
         Received(Pauser, e, type)
  PROVE  /\ \A f \in Engines : Orderly(input'[Pauser][f])
         /\ \A f \in Engines : f # e =>
              HasPause(f)' = HasPause(f) /\ HasResume(f)' = HasResume(f)
         /\ type = "PAUSE" => /\ HasPause(e) /\ ~ HasPause(e)'
                              /\ ~ HasResume(e) /\ ~ HasResume(e)'
         /\ type = "RESUME" => /\ HasResume(e) /\ ~ HasResume(e)'
                               /\ HasPause(e)' <=> HasPause(e)
<1> DEFINE s == input[Pauser][e]
<1>0. Pauser \in Clients
  BY WaveAssumption DEF Pauser, Clients
<1>1. /\ s \in Seq(Message) /\ s # << >> /\ Head(s).type = type
      /\ input'[Pauser][e] = Tail(s)
      /\ \A f \in Engines : f # e => input'[Pauser][f] = input[Pauser][f]
  BY <1>0, Got
<1>2. Orderly(s) /\ \A f \in Engines : Orderly(input[Pauser][f])
  BY DEF PauseInv
<1> HIDE DEF s
<1>3. /\ Orderly(Tail(s)) /\ ~ Has(Tail(s), type)
      /\ type = "PAUSE" => ~ Has(s, "RESUME")
  BY <1>1, <1>2, OrderlyTaken
<1>4. /\ Has(s, "PAUSE") <=> Has(Tail(s), "PAUSE") \/ type = "PAUSE"
      /\ Has(s, "RESUME") <=> Has(Tail(s), "RESUME") \/ type = "RESUME"
  BY <1>1, HasTaken
<1>5. /\ HasPause(e) = Has(s, "PAUSE") /\ HasResume(e) = Has(s, "RESUME")
      /\ HasPause(e)' = Has(Tail(s), "PAUSE") /\ HasResume(e)' = Has(Tail(s), "RESUME")
  BY <1>1 DEF HasPause, HasResume, s
<1>6. \A f \in Engines : f # e =>
        HasPause(f)' = HasPause(f) /\ HasResume(f)' = HasResume(f)
  BY <1>1 DEF HasPause, HasResume
<1>7. \A f \in Engines : Orderly(input'[Pauser][f])
  BY <1>1, <1>2, <1>3
<1> QED BY <1>3, <1>4, <1>5, <1>6, <1>7

LEMMA HandlePauseStage ==
  ASSUME Typed, PauseInv, NEW e \in Engines, HandlePause(e)
  PROVE  PauseInv'
<1>1. Received(Pauser, e, "PAUSE") /\ phase[e] = "input" /\ phase' = phase
      /\ pausing' = pausing
  BY DEF HandlePause, Received, pause_vars
<1>2. /\ \A f \in Engines : Orderly(input'[Pauser][f])
      /\ \A f \in Engines : f # e =>
           HasPause(f)' = HasPause(f) /\ HasResume(f)' = HasResume(f)
      /\ HasPause(e) /\ ~ HasPause(e)' /\ ~ HasResume(e) /\ ~ HasResume(e)'
  BY <1>1, ControlTaken
<1>3. RunStage
  BY <1>1, <1>2 DEF PauseInv, DrainStage, StopStage, ResumeStage
<1>4. PICK p \in {"paused_new", "paused_all"} :
        engine' = [engine EXCEPT ![e].pause = p, ![e].pending_pause = TRUE,
                                 ![e].engines_running = TRUE]
  BY DEF HandlePause
<1>5. engine \in [Engines -> EngineState]
  BY DEF Typed
<1>6. /\ \A f \in Engines : f # e => engine'[f] = engine[f]
      /\ engine'[e].pause = p /\ engine'[e].pending_pause /\ engine'[e].engines_running
      /\ engine'[e].ignore_start = engine[e].ignore_start
  BY <1>4, <1>5 DEF EngineState
<1>7. Pausing(e)' /\ pausing = "pending"
  <2>1. Fresh(e) /\ pausing = "pending"
    BY <1>2, <1>3 DEF RunStage, Typed
  <2> QED BY <1>6, <2>1 DEF Fresh, Pausing
<1>8. \A f \in Engines : f # e => (Fresh(f) => Fresh(f)') /\ (Pausing(f) => Pausing(f)')
  BY <1>6 DEF Fresh, Pausing
<1>9. RunStage'
  BY <1>1, <1>2, <1>3, <1>7, <1>8 DEF RunStage
<1> QED BY <1>2, <1>9 DEF PauseInv

LEMMA HandleResumeStage ==
  ASSUME Typed, PauseInv, NEW e \in Engines, HandleResume(e)
  PROVE  PauseInv'
<1>1. Received(Pauser, e, "RESUME") /\ phase[e] = "input" /\ pausing' = pausing
      /\ running' = running
  BY DEF HandleResume, Received, pause_vars, request_vars
<1>2. /\ \A f \in Engines : Orderly(input'[Pauser][f])
      /\ \A f \in Engines : f # e =>
           HasPause(f)' = HasPause(f) /\ HasResume(f)' = HasResume(f)
      /\ HasResume(e) /\ ~ HasResume(e)' /\ (HasPause(e)' <=> HasPause(e))
  BY <1>1, ControlTaken
<1>3. ResumeStage
  BY <1>2 DEF PauseInv, RunStage, DrainStage, StopStage
<1>4. Stopped(e)
  BY <1>2, <1>3 DEF ResumeStage
<1>5. /\ engine' = [engine EXCEPT ![e].pause = "unpaused", ![e].ignore_start = FALSE]
      /\ phase' = [phase EXCEPT ![e] = "resume"]
  BY <1>4 DEF HandleResume, Stopped
<1>6. engine \in [Engines -> EngineState] /\ phase \in [Engines -> {"input", "forward", "resume"}]
  BY DEF Typed
<1>7. /\ \A f \in Engines : f # e => engine'[f] = engine[f] /\ phase'[f] = phase[f]
      /\ engine'[e].pause = "unpaused" /\ ~ engine'[e].ignore_start
      /\ engine'[e].pending_pause = engine[e].pending_pause
      /\ engine'[e].engines_running = engine[e].engines_running
      /\ phase'[e] = "resume"
  BY <1>5, <1>6 DEF EngineState
<1>8. Fresh(e)' /\ ~ engine'[e].engines_running
  BY <1>4, <1>7 DEF Stopped, Fresh
<1>9. \A f \in Engines : f # e => (Fresh(f) => Fresh(f)') /\ (Stopped(f) => Stopped(f)')
  BY <1>1, <1>7 DEF Fresh, Stopped
<1>10. ResumeStage'
  <2>1. pausing' # "resolved"
    BY <1>1, <1>3 DEF ResumeStage
  <2>2. \A f \in Engines : HasPause(f)' <=> pausing' = "pending"
    BY <1>1, <1>2, <1>3 DEF ResumeStage
  <2>3. \A f \in Engines : IF HasResume(f)' THEN Stopped(f)'
          ELSE phase'[f] = "resume" /\ Fresh(f)' /\ ~ engine'[f].engines_running
    BY <1>2, <1>3, <1>7, <1>8, <1>9 DEF ResumeStage
  <2> QED BY <2>1, <2>2, <2>3 DEF ResumeStage
<1> QED BY <1>2, <1>10 DEF PauseInv

LEMMA EnterForwardStage ==
  ASSUME Typed, PauseInv, NEW e \in Engines, EnterForward(e)
  PROVE  PauseInv'
<1>1. /\ phase[e] = "input" /\ HasWork(e) /\ phase' = [phase EXCEPT ![e] = "forward"]
      /\ UNCHANGED <<input, engine, pausing>>
  BY DEF EnterForward, channel_vars, pause_vars
<1>2. ~ Stopped(e)
  BY <1>1, StoppedIdle
<1>3. RunStage \/ DrainStage
  BY <1>1, <1>2 DEF PauseInv, StopStage, ResumeStage
<1>4. \A f \in Engines : phase'[f] # "resume" <=> phase[f] # "resume"
  BY <1>1 DEF Typed
<1>5. \A f \in Engines :
        /\ HasPause(f)' = HasPause(f) /\ HasResume(f)' = HasResume(f)
        /\ Fresh(f) => Fresh(f)'
        /\ Pausing(f) => Pausing(f)'
        /\ Draining(f) => Draining(f)'
        /\ Orderly(input'[Pauser][f])
  BY <1>1 DEF PauseInv, HasPause, HasResume, Fresh, Pausing, Draining
<1>6. CASE RunStage
  BY <1>1, <1>4, <1>5, <1>6 DEF PauseInv, RunStage
<1>7. CASE DrainStage
  BY <1>1, <1>4, <1>5, <1>7 DEF PauseInv, DrainStage
<1> QED BY <1>3, <1>6, <1>7

\* The barrier ends the resume on all the engines.
LEMMA ResumeBarrierStage ==
  ASSUME Typed, PauseInv, ResumeBarrier
  PROVE  PauseInv'
<1>1. /\ \A e \in Engines : phase[e] = "resume"
      /\ \A e \in Engines : phase'[e] = "input"
      /\ UNCHANGED <<input, pausing>>
  BY DEF ResumeBarrier, channel_vars, pause_vars
<1>2. 0 \in Engines
  BY WaveAssumption DEF Engines
<1>3. ResumeStage
  BY <1>1, <1>2 DEF PauseInv, RunStage, DrainStage, StopStage, Stopped
<1>4. \A e \in Engines : ~ HasResume(e) /\ Fresh(e) /\ (HasPause(e) <=> pausing = "pending")
  BY <1>1, <1>3 DEF ResumeStage, Stopped
<1>5. PICK b : engine' = [e \in Engines |-> [engine[e] EXCEPT !.engines_running = b]]
  BY DEF ResumeBarrier
<1>6. \A e \in Engines : engine[e] \in EngineState
  BY DEF Typed
<1>7. \A e \in Engines :
        /\ engine'[e].pause = engine[e].pause
        /\ engine'[e].pending_pause = engine[e].pending_pause
        /\ engine'[e].ignore_start = engine[e].ignore_start
  BY <1>5, <1>6 DEF EngineState
<1>8. \A e \in Engines : Fresh(e)'
  BY <1>4, <1>7 DEF Fresh
<1>9. \A e \in Engines :
        /\ HasPause(e)' = HasPause(e) /\ HasResume(e)' = HasResume(e)
        /\ Orderly(input'[Pauser][e])
  BY <1>1 DEF PauseInv, HasPause, HasResume
<1>10. pausing' # "resolved" /\ pausing' \in {"no", "pending", "resolved"}
  BY <1>1, <1>3 DEF ResumeStage, Typed
<1>11. RunStage'
  BY <1>1, <1>4, <1>8, <1>9, <1>10 DEF RunStage
<1> QED BY <1>9, <1>11 DEF PauseInv

\* A forward pass. When all the engines have begun the pause they agree on it,
\* and drain or stop together; until then none of those that have can stop.
LEMMA StepStage ==
  ASSUME Typed, PauseInv, Step
  PROVE  PauseInv'
<1>1. /\ \A e \in Engines : phase[e] = "forward"
      /\ \A e \in Engines : phase'[e] = "input"
      /\ input' = input
  BY DEF Step
<1>2. 0 \in Engines
  BY WaveAssumption DEF Engines
<1>3. RunStage \/ DrainStage
  BY <1>1, <1>2 DEF PauseInv, StopStage, ResumeStage, Stopped
<1>4. PICK on \in BOOLEAN, agreed \in BOOLEAN : Stepped(on, agreed)
  BY StepIsStepped
<1>5. \A e \in Engines :
        /\ engine'[e].engines_running = on
        /\ engine'[e].pending_pause <=> engine[e].pending_pause /\ ~ agreed
        /\ engine'[e].ignore_start <=> engine[e].ignore_start \/ agreed
        /\ engine'[e].pause = engine[e].pause
  BY <1>4, SteppedFields
<1>6. /\ agreed => \A e \in Engines : engine[e].pending_pause
      /\ ~ on => \/ \A e \in Engines : ~ engine[e].pending_pause
                \/ agreed
      /\ ~ on => \A e \in Engines : engine[e].pause = "paused_new" => running'[e] = {}
      /\ pausing' = IF ~ on /\ \A e \in Engines : engine[e].pause # "unpaused"
                    THEN "resolved" ELSE pausing
  BY <1>4 DEF Stepped, PendingPauses
<1>7. \A e \in Engines :
        /\ HasPause(e)' = HasPause(e) /\ HasResume(e)' = HasResume(e)
        /\ Orderly(input'[Pauser][e])
  BY <1>1 DEF PauseInv, HasPause, HasResume
<1>8. CASE agreed /\ RunStage
  <2>1. \A e \in Engines : Pausing(e) /\ ~ HasPause(e) /\ ~ HasResume(e)
    BY <1>6, <1>8 DEF RunStage, Fresh, Pausing
  <2>2. pausing = "pending"
    BY <1>2, <1>8, <2>1 DEF RunStage, Typed, Fresh, Pausing
  <2>3. CASE on
    <3>1. \A e \in Engines : Draining(e)'
      BY <1>5, <1>8, <2>1, <2>3 DEF Pausing, Draining
    <3> QED BY <1>1, <1>6, <1>7, <2>1, <2>2, <2>3, <3>1 DEF PauseInv, DrainStage
  <2>4. CASE ~ on
    <3>1. \A e \in Engines : Stopped(e)'
      BY <1>1, <1>5, <1>6, <1>8, <2>1, <2>4 DEF Pausing, Stopped
    <3>2. pausing' = "resolved"
      BY <1>6, <2>1, <2>4 DEF Pausing
    <3> QED BY <1>7, <2>1, <3>1, <3>2 DEF PauseInv, StopStage
  <2> QED BY <2>3, <2>4
<1>9. CASE ~ agreed /\ RunStage
  <2>1. \A e \in Engines : Fresh(e) => Fresh(e)'
    BY <1>5, <1>9 DEF Fresh
  <2>2. \A e \in Engines : Pausing(e) => on /\ Pausing(e)'
    BY <1>5, <1>6, <1>9 DEF Pausing
  <2>3. pausing' = pausing
    <3>1. SUFFICES ASSUME ~ on, \A e \in Engines : engine[e].pause # "unpaused" PROVE FALSE
      BY <1>6
    <3>2. ~ Pausing(0) /\ ~ Fresh(0)
      BY <1>2, <2>2, <3>1 DEF Fresh
    <3> QED BY <1>2, <1>9, <3>2 DEF RunStage
  <2> QED BY <1>1, <1>7, <1>9, <2>1, <2>2, <2>3 DEF PauseInv, RunStage
<1>10. CASE DrainStage
  <2>1. \A e \in Engines : Draining(e)
    BY <1>10 DEF DrainStage
  <2>2. ~ agreed
    BY <1>2, <1>6, <2>1 DEF Draining
  <2>3. CASE on
    <3>1. \A e \in Engines : Draining(e)'
      BY <1>5, <2>1, <2>2, <2>3 DEF Draining
    <3> QED BY <1>1, <1>6, <1>7, <1>10, <2>3, <3>1 DEF PauseInv, DrainStage
  <2>4. CASE ~ on
    <3>1. \A e \in Engines : Stopped(e)'
      BY <1>1, <1>5, <1>6, <2>1, <2>2, <2>4 DEF Draining, Stopped
    <3>2. pausing' = "resolved"
      BY <1>6, <2>1, <2>4 DEF Draining
    <3> QED BY <1>7, <1>10, <3>1, <3>2 DEF PauseInv, DrainStage, StopStage
  <2> QED BY <2>3, <2>4
<1> QED BY <1>3, <1>8, <1>9, <1>10

LEMMA PauseStep == Typed /\ PauseInv /\ [Next]_vars => PauseInv'
<1> SUFFICES ASSUME Typed, PauseInv, [Next]_vars PROVE PauseInv'
  OBVIOUS
<1> USE DEF channel_vars, engine_vars, request_vars, pause_vars
<1>0. engine \in [Engines -> EngineState]
  BY DEF Typed
<1>1. ASSUME ControlKept, UNCHANGED <<engine, pausing, phase, running>> PROVE PauseInv'
  BY <1>1, StagesKept
<1>2. ASSUME NEW c \in Clients, NEW e \in Engines, NEW n \in Lengths, AddRequest(c, e, n)
      PROVE  PauseInv'
  <2>1. ControlKept
    BY <1>2, ControlInput
  <2> QED BY <1>1, <1>2, <2>1 DEF AddRequest
<1>3. ASSUME \/ UNCHANGED vars \/ CoordInput \/ CoordPublish
             \/ \E c \in Clients : ClientStep(c)
      PROVE  PauseInv'
  <2>1. UNCHANGED <<input, engine, pausing, phase, running>>
    BY <1>3 DEF vars, CoordInput, CoordPublish, CoordFirstReq, CoordOutput, ClientStep,
                ForwardFirstReq, StatsUpdate
  <2> QED BY <1>1, <2>1, ControlInput
<1>4. ASSUME NEW c \in Clients, NEW e \in Engines, HandleAdd(c, e) PROVE PauseInv'
  <2> DEFINE h == Head(input[c][e])
             w == IF h.wave > engine[e].current_wave THEN h.wave ELSE engine[e].current_wave
             stale == StaleWave(e, h.wave)
             b == engine[e].engines_running \/ stale
  <2>1. /\ Received(c, e, "ADD") /\ phase[e] = "input"
        /\ UNCHANGED <<pausing, phase, running>>
    BY <1>4 DEF HandleAdd, Received
  <2>2. engine' = [engine EXCEPT ![e].current_wave = w, ![e].engines_running = b]
    BY <1>4 DEF HandleAdd
  <2>3. b = engine[e].engines_running \/ (b /\ engine[e].pause = "unpaused")
    <3>1. engine[e].engines_running \in BOOLEAN
      BY <1>0 DEF EngineState
    <3> QED BY <3>1 DEF StaleWave
  <2> HIDE DEF w, b
  <2>4. /\ \A f \in Engines : f # e => engine'[f] = engine[f]
        /\ engine'[e].pause = engine[e].pause
        /\ engine'[e].pending_pause = engine[e].pending_pause
        /\ engine'[e].ignore_start = engine[e].ignore_start
        /\ engine'[e].engines_running = b
    BY <1>0, <2>2 DEF EngineState
  <2>5. ControlKept
    BY <2>1, ControlInput
  <2>6. ASSUME NEW f \in Engines
        PROVE  /\ engine'[f].pause = engine[f].pause
               /\ engine'[f].pending_pause = engine[f].pending_pause
               /\ engine'[f].ignore_start = engine[f].ignore_start
               /\ \/ engine'[f].engines_running = engine[f].engines_running
                  \/ /\ phase[f] = "input" /\ engine'[f].engines_running
                     /\ ~ engine[f].ignore_start \/ engine[f].pause = "unpaused"
    BY <2>1, <2>3, <2>4
  <2> QED BY <2>1, <2>5, <2>6, StagesKept
<1>5. ASSUME NEW e \in Engines, HandleStart(e) PROVE PauseInv'
  <2>1. /\ UNCHANGED <<input, pausing, phase, running>> /\ phase[e] = "input"
        /\ \/ engine' = engine
           \/ /\ engine' = [engine EXCEPT ![e].current_wave = Head(starts[e]).wave,
                                          ![e].engines_running = TRUE]
              /\ ~ engine[e].ignore_start
    BY <1>5 DEF HandleStart, AcceptsStart
  <2>2. ControlKept
    BY <2>1, ControlInput
  <2>3. CASE engine' = engine
    BY <1>1, <2>1, <2>2, <2>3
  <2>4. CASE /\ engine' = [engine EXCEPT ![e].current_wave = Head(starts[e]).wave,
                                         ![e].engines_running = TRUE]
             /\ ~ engine[e].ignore_start
    <3>1. /\ \A f \in Engines : f # e => engine'[f] = engine[f]
          /\ engine'[e].pause = engine[e].pause
          /\ engine'[e].pending_pause = engine[e].pending_pause
          /\ engine'[e].ignore_start = engine[e].ignore_start
          /\ engine'[e].engines_running
      BY <1>0, <2>4 DEF EngineState
    <3>2. ASSUME NEW f \in Engines
          PROVE  /\ engine'[f].pause = engine[f].pause
                 /\ engine'[f].pending_pause = engine[f].pending_pause
                 /\ engine'[f].ignore_start = engine[f].ignore_start
                 /\ \/ engine'[f].engines_running = engine[f].engines_running
                    \/ /\ phase[f] = "input" /\ engine'[f].engines_running
                       /\ ~ engine[f].ignore_start \/ engine[f].pause = "unpaused"
      BY <2>1, <2>4, <3>1
    <3> QED BY <2>1, <2>2, <3>2, StagesKept
  <2> QED BY <2>1, <2>3, <2>4
<1> QED BY <1>2, <1>3, <1>4, <1>5, CallPauseStage, CallResumeStage, HandlePauseStage,
           HandleResumeStage, EnterForwardStage, ResumeBarrierStage, StepStage
        DEF Next, EngineInput

-----------------------------------------------------------------------------
(* The theorems.                                                            *)

\* The inductive invariant.
THEOREM WaveInvariant == Spec => []WaveInv
<1>1. WaveInv /\ [Next]_vars => WaveInv'
  BY TypesStep, WavesStep, PauseStep DEF WaveInv
<1> QED BY <1>1, InitInv, PTL DEF Spec

\* The messages and fields keep the types the code gives them: in particular no
\* request is stepped after its last forward pass, though aborts, pauses and
\* resumes come at any time.
THEOREM WavesTypeCorrect == Spec => []TypeOK
<1>1. WaveInv => TypeOK
  BY TypedIsTypeOK DEF WaveInv
<1> QED BY <1>1, WaveInvariant, PTL

\* The engines count the same waves and no one is ahead of them, for any number
\* of engines, clients, requests and pauses.
THEOREM WavesAlwaysAgree == Spec => []WavesAgree
<1>1. WaveInv => WavesAgree
  BY DEF WaveInv, WavesKnown
<1> QED BY <1>1, WaveInvariant, PTL

\* A pause that has resolved holds until the engines are resumed: none of them
\* has work, whatever is still on its way to it. No assumption is made on when
\* pause_scheduler and resume_scheduler are called and what crosses them.
THEOREM PauseAlwaysHolds == Spec => []PauseHolds
<1>1. WaveInv => PauseHolds
  <2> SUFFICES ASSUME WaveInv, pausing = "resolved", NEW e \in Engines
               PROVE  phase[e] = "input" /\ ~ HasWork(e)
    BY DEF PauseHolds
  <2>1. StopStage /\ Typed
    BY DEF WaveInv, PauseInv, RunStage, DrainStage, ResumeStage
  <2> QED BY <2>1, StoppedIdle DEF StopStage
<1> QED BY <1>1, WaveInvariant, PTL
=============================================================================
