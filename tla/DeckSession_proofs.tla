------------------------- MODULE DeckSession_proofs -------------------------
(* Theorems of DeckSession, for any sources, slots, frames of a batch,        *)
(* settings, capture limits and faults; four of them with the conditions that *)
(* Ordinary, Unhindered and Flawless name.                                    *)
EXTENDS DeckSession, TLAPS

(* What is asked for with each command.                                       *)
Wishes == [playing : [Sources -> BOOLEAN], loop : Loops]
Arguments == {0} \cup Settings \cup Wishes \cup BOOLEAN \cup Modes
Calls == [cmd : Commands, by : {"none", "auto", "user"}, arg : Arguments,
          looped : BOOLEAN, within : BOOLEAN]
Mappings == [gen : Nat, queue : Seq(Batch), last : Nat]

ArgInv ==
    /\ call.cmd = "set" => call.arg \in Settings
    /\ call.cmd = "transport" => call.arg \in Wishes
    /\ call.cmd = "reset" => call.arg \in BOOLEAN
    /\ call.cmd = "capture_start" => call.arg \in Modes

(* A command in flight keeps what it was sent for: a step of process_once     *)
(* still has the frames of its batch, a status has its capture.               *)
CallInv ==
    /\ call.cmd = "none" => reply = "none" /\ ~call.within
    /\ pc = "run" /\ call.within =>
        /\ call.cmd \in {"capture_status", "reset"}
        /\ frames # <<>>
        /\ \A i \in 1 .. Len(frames) : frames[i].gen = host.gen /\ frames[i].seq = host.seq
    /\ pc = "run" /\ call.cmd \in {"capture_status", "capture_stop"} => active # NoCapture

(* The ring holds a batch exactly while its process is acknowledged and not   *)
(* yet received, and is of another generation only while a reset is.          *)
RingInv ==
    pc = "run" =>
        /\ adopted = host.gen
        /\ reply # "ack" \/ call.cmd \notin {"process", "reset"} =>
               mapping.queue = <<>> /\ mapping.gen = adopted
        /\ reply = "ack" /\ call.cmd = "process" =>
               /\ mapping.gen = adopted
               /\ mapping.queue = <<[gen |-> deck.gen, seq |-> deck.seq,
                                     slot |-> mapping.last, set |-> deck.set]>>
        /\ reply = "ack" /\ call.cmd = "reset" =>
               mapping.queue = <<>> /\ mapping.gen = deck.gen

(* As long as the worker has obeyed every command: what each answer says is   *)
(* what the actor expects it to say.                                          *)
Following == IF Capturing(deck) THEN [mode |-> writer.mode, state |-> deck.cap] ELSE NoCapture

\* The capture has gone on, and the actor has not asked for its status yet.
Behind ==
    /\ active.mode = writer.mode
    /\ <<active.state, deck.cap>> \in StatusSteps[active.mode]
    /\ deck = AdoptCapture(deck, deck.cap)

PendingInv ==
    reply = "none" =>
        /\ host = deck
        /\ IF call.cmd = "capture_status" /\ call.within THEN Behind ELSE active = Following

AckInv ==
    reply = "ack" =>
        /\ call.cmd = "process" =>
            /\ ValidProcess(host, deck)
            /\ IF active = NoCapture THEN ~Capturing(deck) ELSE Behind
        /\ call.cmd = "set" => deck = [host EXCEPT !.set = call.arg]
        /\ call.cmd = "transport" => ValidTransport(host, deck, call.arg)
        /\ call.cmd = "reset" => ValidReset(host, deck, call.arg)
        /\ call.cmd \in {"set", "transport", "reset"} => active = Following
        /\ call.cmd = "capture_start" =>
            /\ deck = AdoptCapture(host, "capturing")
            /\ writer.mode = call.arg /\ active = NoCapture
        /\ call.cmd \in {"capture_stop", "capture_status"} =>
            Behind /\ deck = AdoptCapture(host, deck.cap)
Agreed ==
    /\ reply \in {"none", "ack"}
    /\ deck.cap \notin {"aborted", "faulted"}
    /\ Capturing(deck) => deck.state = "capturing" /\ writer.mode \in Modes
    /\ call.cmd = "transport" => active = NoCapture
    /\ call.cmd = "capture_start" => active = NoCapture
    /\ call.cmd = "capture_stop" => active.mode = "live"
    /\ PendingInv /\ AckInv

StepInv ==
    /\ cause \in {"protocol", "ring"} => rejected
    /\ pc = "run" /\ ~rejected => Agreed

-----------------------------------------------------------------------------
(* Type correctness: of the actor, of the command in flight, of the worker.   *)
Views == {"idle", "capturing", "finalizing", "finished", "aborted", "error"}

InRange(d) == d \in DeckType /\ \A s \in Sources : d.head[s] < Count[s]

ActorTypes ==
    /\ InRange(host) /\ frames \in Seq(Frame) /\ active \in CaptureType \cup {NoCapture}
    /\ view \in Views /\ recording \in BOOLEAN
    /\ pc \in {"run", "ending", "stopping", "settling", "dropping", "stopped"}
    /\ cause \in Causes /\ adopted \in Nat

CommandTypes ==
    /\ call \in Calls /\ ArgInv /\ reply \in {"none", "ack", "error", "fatal"}
    /\ rejected \in BOOLEAN /\ left \in 0 .. Requests

WorkerTypes ==
    /\ InRange(deck) /\ writer \in WriterType /\ mapping \in Mappings
    /\ alive \in BOOLEAN /\ seam \in {"none", "open", "crossed"}

Types == ActorTypes /\ CommandTypes /\ WorkerTypes

LEMMA TypesGiveTypeOK == Types => TypeOK
<1> SUFFICES ASSUME Types
             PROVE  TypeOK
  OBVIOUS
<1>1. call.cmd \in Commands /\ call.by \in {"none", "auto", "user"}
  BY DEF Types, CommandTypes, Calls
<1>2. mapping.queue \in Seq(Batch)
  BY DEF Types, WorkerTypes, Mappings
<1> QED
  BY <1>1, <1>2 DEF Types, ActorTypes, CommandTypes, WorkerTypes, InRange, TypeOK, Views

IInv == Types /\ CallInv /\ RingInv /\ FreshFrames /\ ViewTellsEnd

LEMMA LoadedTyped ==
  ASSUME NEW loop \in Loops, NEW set \in Settings
  PROVE  InRange(Loaded(loop, set))
<1>1. loop \in [Sources -> BOOLEAN] /\ \A s \in Sources : Count[s] \in Nat \ {0}
  BY SourcesAssumption, LoopsAssumption
<1> QED
  BY <1>1 DEF InRange, Loaded, DeckType, Caps

LEMMA InitHolds == Init => IInv
<1> SUFFICES ASSUME Init
             PROVE  IInv
  OBVIOUS
<1>1. InRange(host) /\ deck = host /\ host.gen = 1
  <2>1. PICK loop \in Loops, set \in Settings : host = Loaded(loop, set)
    BY DEF Init
  <2> QED
    BY <2>1, LoadedTyped DEF Init, Loaded
<1>2. ActorTypes
  <2>1. <<>> \in Seq(Frame)
    OBVIOUS
  <2>4. "none" \in Causes
    BY DEF Causes
  <2>2. adopted \in Nat /\ active = NoCapture /\ frames = <<>> /\ cause = "none" /\ pc = "run"
    BY DEF Init
  <2>3. view \in Views /\ recording \in BOOLEAN
    BY DEF Init, Views
  <2> QED
    BY <1>1, <2>1, <2>2, <2>3, <2>4 DEF ActorTypes
<1>3. CommandTypes
  <2>1. NoCall \in Calls
    BY DEF NoCall, Calls, Commands, Arguments
  <2>2. ArgInv
    BY DEF Init, NoCall, ArgInv
  <2>3. left \in 0 .. Requests
    BY DeckBoundsAssumption DEF Init
  <2>4. call \in Calls /\ reply = "none" /\ rejected \in BOOLEAN
    BY <2>1 DEF Init
  <2> QED
    BY <2>2, <2>3, <2>4 DEF CommandTypes
<1>4. WorkerTypes
  <2>1. NoWriter \in WriterType
    BY CaptureAssumption DEF NoWriter, WriterType
  <2>2. [gen |-> 1, queue |-> <<>>, last |-> 0] \in Mappings
    BY DEF Mappings
  <2> QED
    BY <1>1, <2>1, <2>2 DEF Init, WorkerTypes
<1>5. CallInv /\ RingInv
  BY <1>1 DEF Init, CallInv, RingInv, NoCall
<1>6. FreshFrames /\ ViewTellsEnd
  BY DEF Init, FreshFrames, ViewTellsEnd, InProgress
<1> QED
  BY <1>2, <1>3, <1>4, <1>5, <1>6 DEF IInv, Types

-----------------------------------------------------------------------------
(* The commands: what a step may leave in call.                               *)
LEMMA SentTyped ==
  ASSUME NEW cmd \in Commands, NEW by \in {"auto", "user"}, NEW arg \in Arguments,
         Send(cmd, by, arg)
  PROVE  /\ call' \in Calls /\ reply' = "none"
         /\ call'.cmd = cmd /\ call'.arg = arg /\ call'.by = by /\ ~call'.within
<1>1. call' = [cmd |-> cmd, by |-> by, arg |-> arg, looped |-> FALSE, within |-> FALSE]
  BY DEF Send, NoCall
<1>2. call' \in Calls
  BY <1>1 DEF Calls
<1>3. reply' = "none"
  BY DEF Send
<1> QED
  BY <1>1, <1>2, <1>3

LEMMA SentWithinTyped ==
  ASSUME call \in Calls, NEW cmd \in Commands, NEW arg \in Arguments, NEW looped \in BOOLEAN,
         SendWithin(cmd, arg, looped)
  PROVE  /\ call' \in Calls /\ reply' = "none"
         /\ call'.cmd = cmd /\ call'.arg = arg /\ call'.by = call.by
         /\ call'.looped = looped /\ call'.within
<1>1. call' = [cmd |-> cmd, by |-> call.by, arg |-> arg, looped |-> looped, within |-> TRUE]
  BY DEF SendWithin, Calls
<1>2. call' \in Calls /\ reply' = "none"
  BY <1>1 DEF SendWithin, Calls
<1> QED
  BY <1>1, <1>2

\* A receive leaves the command as it is and ends the actor, has answered it, or goes on.
Kept == UNCHANGED <<call, reply>> /\ pc' = "ending"
Done == call' = NoCall /\ reply' = "none" /\ pc' \in {pc, "ending"}
Further ==
    /\ call' \in Calls /\ call'.within /\ reply' = "none" /\ call'.by = call.by
    /\ \/ call'.cmd = "capture_status" /\ call'.arg = 0
       \/ call'.cmd = "reset" /\ call'.arg = TRUE
    /\ UNCHANGED <<pc, cause>>

LEMMA ProcessedEnds ==
  ASSUME NEW queue, Processed(queue)
  PROVE  Done /\ frames' \in {queue, Tail(queue)} /\ cause' \in {cause, "caller"}
  BY DEF Processed, Present, Answered, Idle, Goon, Done

LEMMA Continues ==
  ASSUME call \in Calls, NEW looped \in BOOLEAN, NEW queue, Continue(looped, queue)
  PROVE  /\ cause' \in {cause, "caller"}
         /\ \/ looped /\ Further /\ call'.cmd = "reset" /\ frames' = queue
            \/ ~looped /\ Done /\ frames' \in {queue, Tail(queue)}
<1>1. CASE looped /\ SendWithin("reset", TRUE, TRUE) /\ frames' = queue /\ Goon
  <2>1. "reset" \in Commands /\ TRUE \in Arguments
    BY DEF Commands, Arguments
  <2> QED
    BY <1>1, <2>1, SentWithinTyped DEF Further, Goon
<1>2. CASE ~looped /\ Processed(queue)
  BY <1>2, ProcessedEnds
<1> QED
  BY <1>1, <1>2 DEF Continue

LEMMA AfterStatusEnds ==
  ASSUME call \in Calls, AfterStatus
  PROVE  /\ cause' \in {cause, "caller"}
         /\ \/ call.within /\ Further /\ call'.cmd = "reset" /\ frames' = frames
            \/ call.within /\ Done /\ frames' \in {frames, Tail(frames)}
            \/ ~call.within /\ Done /\ frames' = frames
<1>1. CASE call.within /\ Continue(call.looped, frames)
  <2>1. call.looped \in BOOLEAN
    BY DEF Calls
  <2> QED
    BY <1>1, <2>1, Continues
<1>2. CASE ~call.within /\ KeepFrames /\ Answered
  BY <1>2 DEF KeepFrames, Answered, Idle, Goon, Done
<1> QED
  BY <1>1, <1>2 DEF AfterStatus

-----------------------------------------------------------------------------
(* The worker's session stays a session, with every playhead in its source.   *)
LEMMA Counts == \A s \in Sources : Count[s] \in Nat \ {0} /\ 0 < Count[s]
<1>1. \A s \in Sources : Count[s] \in Nat \ {0}
  BY SourcesAssumption
<1>2. \A n \in Nat \ {0} : 0 < n
  OBVIOUS
<1> QED
  BY <1>1, <1>2

LEMMA StateTyped ==
  ASSUME NEW d, InRange(d)
  PROVE  /\ PlayOrPause(d) \in {"playing", "paused"}
         /\ \A c \in Caps : /\ InRange([d EXCEPT !.cap = c])
                            /\ InRange([d EXCEPT !.cap = c, !.state = PlayOrPause(d)])
                            /\ InRange([d EXCEPT !.cap = c, !.state = "capturing"])
<1>1. PlayOrPause(d) \in {"playing", "paused"}
  BY DEF PlayOrPause
<1>2. ASSUME NEW c \in Caps, NEW t \in {"playing", "paused", "capturing"}
      PROVE  InRange([d EXCEPT !.cap = c]) /\ InRange([d EXCEPT !.cap = c, !.state = t])
  BY DEF InRange, DeckType
<1> QED
  BY <1>1, <1>2

LEMMA SteppedTyped ==
  ASSUME InRange(deck)
  PROVE  InRange([deck EXCEPT !.seq = @ + 1])
  BY DEF InRange, DeckType

\* What a process makes of each playhead.
Moved(d, s) ==
    CASE ~d.playing[s] -> d.head[s]
      [] d.playing[s] /\ ~(d.head[s] + 1 >= Count[s]) -> d.head[s] + 1
      [] d.playing[s] /\ d.head[s] + 1 >= Count[s] -> IF d.loop[s] THEN 0 ELSE d.head[s]
Plays(d, s) == d.playing[s] /\ (~(d.head[s] + 1 >= Count[s]) \/ d.loop[s])
Heads(d) == [s \in Sources |-> Moved(d, s)]
Playing(d) == [s \in Sources |-> Plays(d, s)]

LEMMA AdvanceIs ==
  ASSUME NEW d, d \in DeckType
  PROVE  /\ Advance(d).head = Heads(d) /\ Advance(d).playing = Playing(d)
         /\ Advance(d).gen = d.gen /\ Advance(d).seq = d.seq /\ Advance(d).set = d.set
         /\ Advance(d).cap = d.cap /\ Advance(d).loop = d.loop
         /\ Advance(d) \in [state : {d.state, "playing", "paused"}, gen : {d.gen}, seq : {d.seq},
                            set : {d.set}, cap : {d.cap}, loop : {d.loop},
                            playing : {Playing(d)}, head : {Heads(d)}]
         /\ d.cap \in {"idle", "completed"} => Advance(d).state = PlayOrPause(Advance(d))
         /\ d.cap \notin {"idle", "completed"} => Advance(d).state = d.state
<1> DEFINE M == [d EXCEPT !.head = Heads(d), !.playing = Playing(d)]
           N == [M EXCEPT !.state = PlayOrPause(M)]
<1>1. Advance(d) = IF d.cap \in {"idle", "completed"} THEN N ELSE M
  BY DEF Advance, Heads, Playing, Moved, Plays
<1>2. /\ M.head = Heads(d) /\ M.playing = Playing(d) /\ M.gen = d.gen /\ M.seq = d.seq
      /\ M.set = d.set /\ M.cap = d.cap /\ M.loop = d.loop /\ M.state = d.state
      /\ M \in [state : {d.state, "playing", "paused"}, gen : {d.gen}, seq : {d.seq},
                set : {d.set}, cap : {d.cap}, loop : {d.loop},
                playing : {Playing(d)}, head : {Heads(d)}]
  BY DEF DeckType
<1>3. PlayOrPause(M) \in {"playing", "paused"}
  BY DEF PlayOrPause
<1> HIDE DEF M
<1>4. /\ N.head = M.head /\ N.playing = M.playing /\ N.gen = M.gen /\ N.seq = M.seq
      /\ N.set = M.set /\ N.cap = M.cap /\ N.loop = M.loop /\ N.state = PlayOrPause(M)
      /\ N \in [state : {d.state, "playing", "paused"}, gen : {d.gen}, seq : {d.seq},
                set : {d.set}, cap : {d.cap}, loop : {d.loop},
                playing : {Playing(d)}, head : {Heads(d)}]
  BY <1>2, <1>3
<1> HIDE DEF N
<1>5. PlayOrPause(N) = PlayOrPause(M)
  BY <1>4 DEF PlayOrPause, AnyPlaying
<1> QED
  BY <1>1, <1>2, <1>4, <1>5

LEMMA AdvanceTyped ==
  ASSUME NEW d, InRange(d)
  PROVE  InRange(Advance(d))
<1>1. d \in DeckType
  BY DEF InRange
<1>2. \A s \in Sources : /\ d.head[s] \in Nat /\ d.head[s] < Count[s] /\ Count[s] \in Nat
                         /\ d.playing[s] \in BOOLEAN /\ d.loop[s] \in BOOLEAN
  BY Counts DEF InRange, DeckType
<1>3. \A s \in Sources : Moved(d, s) \in Nat /\ Moved(d, s) < Count[s] /\ Plays(d, s) \in BOOLEAN
  <2> SUFFICES ASSUME NEW s \in Sources
               PROVE  Moved(d, s) \in Nat /\ Moved(d, s) < Count[s] /\ Plays(d, s) \in BOOLEAN
    OBVIOUS
  <2>1. CASE ~d.playing[s]
    BY <1>2, <2>1 DEF Moved, Plays
  <2>2. CASE d.playing[s] /\ d.head[s] + 1 >= Count[s]
    BY <1>2, <2>2, Counts DEF Moved, Plays
  <2>3. CASE d.playing[s] /\ ~(d.head[s] + 1 >= Count[s])
    BY <1>2, <2>3 DEF Moved, Plays
  <2> QED
    BY <1>2, <2>1, <2>2, <2>3
<1>4. Heads(d) \in [Sources -> Nat] /\ Playing(d) \in [Sources -> BOOLEAN]
  BY <1>3 DEF Heads, Playing
<1>5. Advance(d) \in DeckType
  BY <1>1, <1>4, AdvanceIs DEF DeckType
<1>6. \A s \in Sources : Advance(d).head[s] < Count[s]
  <2>1. Advance(d).head = Heads(d)
    BY <1>1, AdvanceIs
  <2> QED
    BY <1>3, <2>1 DEF Heads
<1> QED
  BY <1>5, <1>6 DEF InRange

LEMMA StagedTyped ==
  ASSUME WorkerTypes, writer.slots < MaxSlots, NEW d, d \in DeckType
  PROVE  Staged(d) \in WriterType /\ [Staged(d) EXCEPT !.payload = TRUE] \in WriterType
<1>1. [gen |-> d.gen, seq |-> d.seq, mark |-> writer.pending, seam |-> seam] \in Staging
  BY DEF WorkerTypes, WriterType, DeckType, Staging
<1>2. \A e \in Staging : Append(writer.tape, e) \in Seq(Staging)
  BY DEF WorkerTypes, WriterType
<1>3. writer.slots + 1 \in 0 .. MaxSlots
  BY CaptureAssumption DEF WorkerTypes, WriterType
<1>4. Staged(d) \in WriterType
  BY <1>1, <1>2, <1>3 DEF Staged, WorkerTypes, WriterType
<1> QED
  BY <1>4 DEF WriterType

LEMMA DecodedTyped ==
  ASSUME WorkerTypes, NEW d, InRange(d), NEW w \in WriterType, UNCHANGED alive, Decode(d, w)
  PROVE  WorkerTypes'
<1>1. CASE "decode" \in Faults /\ Reject /\ deck' = d /\ UNCHANGED <<mapping, seam>>
  BY <1>1 DEF Decode, WorkerTypes
<1>2. CASE /\ deck' = Advance(d)
           /\ mapping' = [mapping EXCEPT !.last = @ + 1,
                            !.queue = Append(@, [gen |-> d.gen, seq |-> d.seq,
                                                 slot |-> mapping.last + 1, set |-> d.set])]
           /\ seam' = CASE seam # "none" -> "crossed"
                        [] seam = "none" -> IF Wraps(d) THEN "open" ELSE "none"
  <2>1. [gen |-> d.gen, seq |-> d.seq, slot |-> mapping.last + 1, set |-> d.set] \in Batch
    BY DEF WorkerTypes, Mappings, InRange, DeckType, Batch
  <2>2. \A b \in Batch : Append(mapping.queue, b) \in Seq(Batch)
    BY DEF WorkerTypes, Mappings
  <2>3. mapping' \in Mappings
    <3> DEFINE b == [gen |-> d.gen, seq |-> d.seq, slot |-> mapping.last + 1, set |-> d.set]
    <3>1. /\ mapping' = [mapping EXCEPT !.last = mapping.last + 1,
                                       !.queue = Append(mapping.queue, b)]
          /\ mapping \in [gen : Nat, queue : Seq(Batch), last : Nat]
      BY <1>2 DEF WorkerTypes, Mappings
    <3>2. Append(mapping.queue, b) \in Seq(Batch) /\ mapping.last + 1 \in Nat
      BY <2>1, <2>2, <3>1
    <3> HIDE DEF b
    <3> QED
      BY <3>1, <3>2 DEF Mappings
  <2>4. seam' \in {"none", "open", "crossed"}
    BY <1>2 DEF WorkerTypes
  <2> QED
    BY <1>2, <2>3, <2>4, AdvanceTyped DEF Decode, WorkerTypes
<1> QED
  BY <1>1, <1>2 DEF Decode

-----------------------------------------------------------------------------
(* What the actor does when no command is in flight, and what ends it.        *)
Sends ==
    /\ AtRest /\ call' \in Calls /\ ArgInv' /\ ~call'.within /\ reply' = "none"
    /\ call'.cmd # "none" /\ UNCHANGED <<frames, recording, pc, cause>>
    /\ call'.cmd \in {"capture_status", "capture_stop"} => active # NoCapture
    /\ call'.cmd = "capture_stop" => active.mode = "live"
    /\ call'.cmd = "capture_start" => active = NoCapture
    /\ call'.cmd = "transport" /\ TransportLock => active = NoCapture

Rests ==
    /\ UNCHANGED <<call, reply>> /\ recording' \in BOOLEAN
    /\ \/ frames' = frames
       \/ AtRest /\ frames # <<>> /\ frames' = Tail(frames)
    /\ \/ UNCHANGED <<pc, cause>>
       \/ AtRest /\ pc' = "ending" /\ cause' = "shutdown"

OwnSteps ==
    AutoProcess \/ PresentFrame \/ UserRequest \/ AskStatus \/ StopRecording \/ Shutdown

LEMMA Asking ==
  ASSUME AtRest, NEW cmd \in Commands \ {"none"}, NEW by \in {"auto", "user"},
         NEW arg \in Arguments, Send(cmd, by, arg), UNCHANGED actor,
         cmd = "set" => arg \in Settings, cmd = "transport" => arg \in Wishes,
         cmd = "reset" => arg \in BOOLEAN, cmd = "capture_start" => arg \in Modes,
         cmd \in {"capture_status", "capture_stop"} => active # NoCapture,
         cmd = "capture_stop" => active.mode = "live",
         cmd = "capture_start" => active = NoCapture,
         cmd = "transport" /\ TransportLock => active = NoCapture
  PROVE  Sends
<1>1. /\ call' \in Calls /\ reply' = "none" /\ call'.cmd = cmd /\ call'.arg = arg
      /\ ~call'.within
  BY SentTyped
<1> QED
  BY <1>1 DEF Sends, ArgInv, actor

LEMMA OwnStepsDo ==
  ASSUME IInv, OwnSteps
  PROVE  /\ UNCHANGED <<host, active, view, adopted, deck, writer, mapping, alive,
                        rejected, seam>>
         /\ left' \in 0 .. Requests
         /\ Sends \/ Rests
<1> DEFINE Same == UNCHANGED <<host, active, view, adopted, deck, writer, mapping, alive,
                               rejected, seam>>
<1>1. /\ left \in 0 .. Requests /\ recording \in BOOLEAN
      /\ left > 0 => left - 1 \in 0 .. Requests
  BY DeckBoundsAssumption DEF IInv, Types, CommandTypes, ActorTypes
<1>2. /\ \A c \in {"process", "set", "transport", "reset", "capture_start", "capture_stop",
                   "capture_status"} : c \in Commands \ {"none"}
      /\ 0 \in Arguments /\ Settings \subseteq Arguments /\ BOOLEAN \subseteq Arguments
      /\ Modes \subseteq Arguments /\ Wishes \subseteq Arguments
  BY DEF Commands, Arguments
<1>3. CASE AutoProcess
  <2>1. AtRest /\ Send("process", "auto", 0) /\ UNCHANGED actor /\ Same /\ left' = left
    BY <1>3 DEF AutoProcess, actor, worker
  <2> QED
    BY <1>1, <1>2, <2>1, Asking
<1>4. CASE PresentFrame
  BY <1>1, <1>4 DEF PresentFrame, Present, worker, Rests
<1>5. CASE Tick
  <2>1. CASE frames = <<>> /\ InBounds /\ Ask("process", 0)
    <3>1. AtRest /\ Send("process", "user", 0) /\ UNCHANGED actor /\ Same /\ left' \in 0 .. Requests
      BY <1>1, <1>5, <2>1 DEF Tick, Request, Ask, actor, worker
    <3> QED
      BY <1>2, <3>1, Asking
  <2>2. CASE frames # <<>> /\ Present(frames)
             /\ UNCHANGED <<host, active, view, recording, pc, cause, adopted, worker, call,
                            reply, rejected, seam>>
    BY <1>1, <1>5, <2>2 DEF Tick, Request, Present, worker, Rests
  <2> QED
    BY <1>5, <2>1, <2>2 DEF Tick
<1>6. ASSUME NEW set \in Settings, SettingsSet(set)
      PROVE  Same /\ left' \in 0 .. Requests /\ Sends
  <2>1. AtRest /\ Send("set", "user", set) /\ UNCHANGED actor /\ Same /\ left' \in 0 .. Requests
    BY <1>1, <1>6 DEF SettingsSet, Request, Ask, actor, worker
  <2> QED
    BY <1>2, <2>1, Asking
<1>7. ASSUME NEW playing \in [Sources -> BOOLEAN], NEW loop \in Loops, TransportSet(playing, loop)
      PROVE  Same /\ left' \in 0 .. Requests /\ Sends
  <2> DEFINE wish == [playing |-> playing, loop |-> loop]
  <2>1. /\ AtRest /\ Send("transport", "user", wish) /\ UNCHANGED actor /\ Same
        /\ left' \in 0 .. Requests /\ (TransportLock => active = NoCapture)
    BY <1>1, <1>7 DEF TransportSet, Request, Ask, actor, worker
  <2>2. wish \in Wishes
    BY DEF Wishes
  <2> QED
    BY <1>2, <2>1, <2>2, Asking
<1>8. ASSUME NEW preserve \in BOOLEAN, ResetDeck(preserve)
      PROVE  Same /\ left' \in 0 .. Requests /\ Sends
  <2>1. AtRest /\ Send("reset", "user", preserve) /\ UNCHANGED actor /\ Same /\ left' \in 0 .. Requests
    BY <1>1, <1>8 DEF ResetDeck, Request, Ask, actor, worker
  <2> QED
    BY <1>2, <2>1, Asking
<1>9. ASSUME NEW mode \in Modes, StartCapture(mode)
      PROVE  Same /\ left' \in 0 .. Requests /\ Sends
  <2>1. /\ AtRest /\ Send("capture_start", "user", mode) /\ UNCHANGED actor /\ Same
        /\ left' \in 0 .. Requests /\ active = NoCapture
    BY <1>1, <1>9 DEF StartCapture, Request, Ask, actor, worker
  <2> QED
    BY <1>2, <2>1, Asking
<1>10. CASE StopCapture
  <2>1. /\ AtRest /\ Send("capture_stop", "user", 0) /\ UNCHANGED actor /\ Same
        /\ left' \in 0 .. Requests /\ active.mode = "live"
    BY <1>1, <1>10 DEF StopCapture, Request, Ask, actor, worker
  <2>2. active # NoCapture
    BY <2>1 DEF NoCapture
  <2> QED
    BY <1>2, <2>1, <2>2, Asking
<1>11. CASE AskStatus
  <2>1. /\ AtRest /\ Send("capture_status", "user", 0) /\ UNCHANGED actor /\ Same
        /\ left' = left /\ active # NoCapture
    BY <1>11 DEF AskStatus, Ask, actor, worker
  <2> QED
    BY <1>1, <1>2, <2>1, Asking
<1>12. CASE StartRecording
  BY <1>1, <1>12 DEF StartRecording, Request, worker, Rests
<1>13. CASE StopRecording
  BY <1>1, <1>13 DEF StopRecording, worker, Rests
<1>14. CASE Shutdown
  BY <1>1, <1>14 DEF Shutdown, worker, Rests
<1> QED
  BY <1>3, <1>4, <1>5, <1>6, <1>7, <1>8, <1>9, <1>10, <1>11, <1>12, <1>13, <1>14
     DEF OwnSteps, UserRequest

LEMMA WorkerDiesTyped ==
  ASSUME WorkerTypes, ServeShutdown \/ WorkerCrash
  PROVE  /\ WorkerTypes' /\ UNCHANGED <<actor, call, reply, mapping, rejected, left>>
         /\ pc = "run" => UNCHANGED <<deck, writer>>
<1>1. "aborted" \in Caps
  BY DEF Caps, Terminal
<1>2. InRange([deck EXCEPT !.cap = "aborted"])
  BY <1>1, StateTyped DEF WorkerTypes
<1>3. CASE ServeShutdown
  BY <1>2, <1>3 DEF ServeShutdown, WorkerTypes
<1>4. CASE WorkerCrash
  BY <1>4 DEF WorkerCrash, WorkerTypes
<1> QED
  BY <1>3, <1>4

-----------------------------------------------------------------------------
(* What the worker does with a command.                                       *)
Serves ==
    /\ UNCHANGED <<actor, alive, call, left>> /\ reply = "none" /\ call.cmd # "none"
    /\ \/ reply' = "ack" /\ UNCHANGED rejected
       \/ reply' \in {"error", "fatal"} /\ rejected' = TRUE
    /\ \/ /\ reply' = "ack" /\ call.cmd = "process" /\ mapping'.gen = mapping.gen
          /\ mapping'.queue = Append(mapping.queue,
                [gen |-> deck'.gen, seq |-> deck'.seq, slot |-> mapping'.last, set |-> deck'.set])
       \/ reply' = "ack" /\ call.cmd = "reset" /\ mapping'.gen = deck'.gen /\ mapping'.queue = <<>>
       \/ /\ reply' # "ack" \/ call.cmd \notin {"process", "reset"}
          /\ UNCHANGED mapping

LEMMA DecodeServes ==
  ASSUME WorkerTypes, Serving("process"), ServeRest, NEW d, InRange(d), NEW w, Decode(d, w)
  PROVE  Serves
<1>1. /\ UNCHANGED <<actor, alive, call, left>> /\ reply = "none" /\ call.cmd = "process"
  BY DEF Serving, ServeRest
<1>2. CASE "decode" \in Faults /\ Reject /\ deck' = d /\ UNCHANGED <<mapping, seam>>
  BY <1>1, <1>2 DEF Reject, Serves
<1>3. CASE /\ Ack
           /\ deck' = Advance(d)
           /\ mapping' = [mapping EXCEPT !.last = @ + 1,
                            !.queue = Append(@, [gen |-> d.gen, seq |-> d.seq,
                                                 slot |-> mapping.last + 1, set |-> d.set])]
  <2> DEFINE b == [gen |-> d.gen, seq |-> d.seq, slot |-> mapping.last + 1, set |-> d.set]
  <2>1. deck'.gen = d.gen /\ deck'.seq = d.seq /\ deck'.set = d.set
    BY <1>3, AdvanceIs DEF InRange
  <2>2. mapping' = [mapping EXCEPT !.last = mapping.last + 1, !.queue = Append(mapping.queue, b)]
    BY <1>3
  <2> HIDE DEF b
  <2>3. /\ mapping'.gen = mapping.gen /\ mapping'.last = mapping.last + 1
        /\ mapping'.queue = Append(mapping.queue, b)
    BY <2>2 DEF WorkerTypes, Mappings
  <2>4. b = [gen |-> deck'.gen, seq |-> deck'.seq, slot |-> mapping'.last, set |-> deck'.set]
    BY <2>1, <2>3 DEF b
  <2>5. reply' = "ack" /\ UNCHANGED rejected
    BY <1>3 DEF Ack
  <2> QED
    BY <1>1, <2>3, <2>4, <2>5 DEF Serves
<1> QED
  BY <1>2, <1>3 DEF Decode

LEMMA RejectFaultedTyped ==
  ASSUME WorkerTypes, NEW d, InRange(d), NEW w \in WriterType, RejectFaulted(d, w),
         UNCHANGED <<alive, mapping, seam>>
  PROVE  WorkerTypes' /\ reply' \in {"error", "fatal"} /\ rejected' = TRUE
<1>1. "faulted" \in Caps
  BY DEF Caps, Terminal
<1>2. InRange(Faulted(d))
  BY <1>1, StateTyped DEF Faulted
<1>3. [w EXCEPT !.payload = FALSE, !.pending = FALSE] \in WriterType
  BY DEF WriterType
<1> QED
  BY <1>2, <1>3 DEF RejectFaulted, Reject, WorkerTypes

LEMMA ProcessServes ==
  ASSUME WorkerTypes, ServeProcess
  PROVE  Serves /\ WorkerTypes'
<1> DEFINE d == [deck EXCEPT !.seq = @ + 1]
           w == Staged(d)
           finishing == writer.mode = "snapshot" \/ deck.cap = "finalizing"
<1>1. /\ UNCHANGED <<actor, alive, call, left>> /\ reply = "none" /\ call.cmd = "process"
      /\ Serving("process") /\ ServeRest
  BY DEF ServeProcess, Serving, ServeRest
<1>2. InRange(d) /\ d \in DeckType /\ writer \in WriterType
  BY SteppedTyped DEF WorkerTypes, InRange
<1>3. writer.slots < MaxSlots =>
          w \in WriterType /\ [w EXCEPT !.payload = TRUE] \in WriterType
  BY <1>2, StagedTyped
<1>4. InRange(Completed(d))
  <2>1. "completed" \in Caps
    BY DEF Caps, Terminal
  <2> QED
    BY <1>2, <2>1, StateTyped DEF Completed
<1>5. CASE Reject /\ deck' = d /\ UNCHANGED <<writer, mapping, seam>>
  BY <1>1, <1>2, <1>5 DEF Reject, Serves, WorkerTypes
<1>6. CASE ~Capturing(d) /\ Decode(d, writer)
  BY <1>1, <1>2, <1>6, DecodeServes, DecodedTyped
<1>7. CASE RejectFaulted(d, writer) /\ UNCHANGED <<mapping, seam>>
  <2>1. WorkerTypes' /\ reply' \in {"error", "fatal"} /\ rejected' = TRUE
    BY <1>1, <1>2, <1>7, RejectFaultedTyped
  <2> QED
    BY <1>1, <1>7, <2>1 DEF Serves
<1>8. CASE Capturing(d) /\ writer.slots < MaxSlots /\ Decode(d, w)
  BY <1>1, <1>2, <1>3, <1>8, DecodeServes, DecodedTyped
<1>9. CASE writer.slots < MaxSlots /\ Decode(Completed(d), [w EXCEPT !.payload = TRUE])
  <2> HIDE DEF d, w
  <2> QED
    BY <1>1, <1>3, <1>4, <1>9, DecodeServes, DecodedTyped
<1>10. CASE writer.slots < MaxSlots /\ RejectFaulted(d, w) /\ UNCHANGED <<mapping, seam>>
  <2>1. WorkerTypes' /\ reply' \in {"error", "fatal"} /\ rejected' = TRUE
    BY <1>1, <1>2, <1>3, <1>10, RejectFaultedTyped
  <2> QED
    BY <1>1, <1>10, <2>1 DEF Serves
<1> QED
  BY <1>5, <1>6, <1>7, <1>8, <1>9, <1>10 DEF ServeProcess

LEMMA ResetServes ==
  ASSUME Types, ServeReset
  PROVE  Serves /\ WorkerTypes'
<1> DEFINE gen == host.gen + 1
           d == IF deck.cap \in Terminal THEN [deck EXCEPT !.cap = "idle"] ELSE deck
           w == CASE Capturing(deck) -> [writer EXCEPT !.resets = @ + 1, !.pending = TRUE]
                  [] deck.cap \in Terminal -> NoWriter
                  [] OTHER -> writer
           refused == gen <= deck.gen \/ (Capturing(deck) /\ writer.resets >= MaxResets)
           e == [d EXCEPT !.gen = gen, !.seq = 0,
                          !.head = IF call.arg THEN @ ELSE [s \in Sources |-> 0],
                          !.state = IF Capturing(d) THEN "capturing" ELSE "ready"]
<1>1. UNCHANGED <<actor, alive, call, left>> /\ reply = "none" /\ call.cmd = "reset"
  BY DEF ServeReset, Serving, ServeRest
<1>2. InRange(d) /\ writer \in WriterType /\ mapping \in Mappings /\ gen \in Nat
  <2>1. "idle" \in Caps
    BY DEF Caps
  <2>2. InRange(deck) /\ writer \in WriterType /\ mapping \in Mappings
    BY DEF Types, WorkerTypes
  <2>3. host.gen \in Nat
    BY DEF Types, ActorTypes, InRange, DeckType
  <2>4. InRange([deck EXCEPT !.cap = "idle"])
    BY <2>1, <2>2, StateTyped
  <2> QED
    BY <2>2, <2>3, <2>4
<1>3. ~refused => w \in WriterType
  <2>1. NoWriter \in WriterType
    BY CaptureAssumption DEF NoWriter, WriterType
  <2>2. Capturing(deck) /\ ~refused => [writer EXCEPT !.resets = @ + 1, !.pending = TRUE] \in WriterType
    <3>1. Capturing(deck) /\ ~refused => writer.resets + 1 \in 0 .. MaxResets
      <4> HIDE DEF d, w, gen
      <4> QED
        BY <1>2, CaptureAssumption DEF WriterType
    <3>2. \A r \in 0 .. MaxResets : [writer EXCEPT !.resets = r, !.pending = TRUE] \in WriterType
      BY <1>2 DEF WriterType
    <3> QED
      BY <3>1, <3>2
  <2> HIDE DEF d, gen
  <2> QED
    BY <1>2, <2>1, <2>2
<1>4. CASE Reject /\ UNCHANGED <<deck, writer, mapping, seam>>
  BY <1>1, <1>4 DEF Reject, Serves, WorkerTypes, Types
<1>5. CASE ~refused /\ Reject /\ deck' = d /\ writer' = w /\ UNCHANGED <<mapping, seam>>
  <2> HIDE DEF d, w
  <2> QED
    BY <1>1, <1>2, <1>3, <1>5 DEF Reject, Serves, WorkerTypes, Types
<1>6. CASE /\ ~refused /\ Ack /\ writer' = w /\ deck' = e
           /\ mapping' = [gen |-> gen, queue |-> <<>>, last |-> 0]
           /\ seam' = IF seam = "open" THEN "none" ELSE seam
  <2>1. InRange(e) /\ e.gen = gen
    <3> HIDE DEF d, gen
    <3>2. e \in DeckType /\ e.gen = gen /\ e.head \in {d.head, [s \in Sources |-> 0]}
      BY <1>2 DEF InRange, DeckType
    <3> HIDE DEF e
    <3>3. \A s \in Sources : e.head[s] < Count[s]
      BY <1>2, <3>2, Counts DEF InRange
    <3> QED
      BY <3>2, <3>3 DEF InRange
  <2>2. mapping' \in Mappings /\ mapping'.gen = gen /\ mapping'.queue = <<>>
    BY <1>2, <1>6 DEF Mappings
  <2>3. seam' \in {"none", "open", "crossed"} /\ reply' = "ack" /\ UNCHANGED rejected
    BY <1>6 DEF Types, WorkerTypes, Ack
  <2> HIDE DEF d, w, e
  <2>4. WorkerTypes'
    BY <1>1, <1>3, <1>6, <2>1, <2>2, <2>3 DEF WorkerTypes, Types
  <2> QED
    BY <1>1, <1>6, <2>1, <2>2, <2>3, <2>4 DEF Serves
<1> QED
  BY <1>4, <1>5, <1>6 DEF ServeReset

LEMMA CaptureServes ==
  ASSUME Types, ServeCaptureStart \/ ServeCaptureStop \/ ServeCaptureStatus
  PROVE  Serves /\ WorkerTypes'
<1>1. /\ InRange(deck) /\ writer \in WriterType
      /\ "capturing" \in Caps /\ "finalizing" \in Caps /\ "completed" \in Caps
  BY DEF Types, WorkerTypes, Caps, InProgress, Terminal
<1>2. CASE ServeCaptureStart
  <2>1. InRange([deck EXCEPT !.cap = "capturing", !.state = "capturing"])
    BY <1>1, StateTyped
  <2>2. call.arg \in Modes => [NoWriter EXCEPT !.mode = call.arg] \in WriterType
    <3>1. NoWriter \in WriterType
      BY CaptureAssumption DEF NoWriter, WriterType
    <3> QED
      BY <3>1 DEF WriterType
  <2>3. call.arg \in Modes
    BY <1>2 DEF ServeCaptureStart, Serving, Types, CommandTypes, ArgInv
  <2> QED
    BY <1>2, <2>1, <2>2, <2>3 DEF ServeCaptureStart, Serving, ServeRest, Reject, Ack, Serves,
       Types, WorkerTypes
<1>3. CASE ServeCaptureStop
  <2> DEFINE d == [deck EXCEPT !.cap = "finalizing"]
  <2>1. InRange(d)
    BY <1>1, StateTyped
  <2>2. InRange(Completed(d)) /\ [writer EXCEPT !.payload = TRUE] \in WriterType
    BY <1>1, <2>1, StateTyped DEF Completed, WriterType
  <2>3. /\ UNCHANGED <<actor, alive, call, left, mapping, seam>> /\ reply = "none"
        /\ call.cmd = "capture_stop"
    BY <1>3 DEF ServeCaptureStop, Serving, ServeRest
  <2>4. CASE RejectFaulted(d, writer)
    <3>1. WorkerTypes' /\ reply' \in {"error", "fatal"} /\ rejected' = TRUE
      BY <1>1, <2>1, <2>3, <2>4, RejectFaultedTyped DEF Types
    <3> QED
      BY <2>3, <3>1 DEF Serves
  <2>5. CASE (Ack \/ Reject) /\ deck' \in {deck, d, Completed(d)}
             /\ writer' \in {writer, [writer EXCEPT !.payload = TRUE]}
    <3> HIDE DEF d
    <3> QED
      BY <1>1, <2>1, <2>2, <2>3, <2>5 DEF Reject, Ack, Serves, Types, WorkerTypes
  <2> QED
    BY <1>3, <2>4, <2>5 DEF ServeCaptureStop
<1>4. CASE ServeCaptureStatus
  BY <1>4 DEF ServeCaptureStatus, Serving, ServeRest, Ack, Serves, Types, WorkerTypes
<1> QED
  BY <1>2, <1>3, <1>4

LEMMA ServeDoes ==
  ASSUME Types, Serve
  PROVE  Serves /\ WorkerTypes'
<1>1. InRange(deck)
  BY DEF Types, WorkerTypes
<1>2. CASE ServeSet
  <2>1. call.arg \in Settings
    BY <1>2 DEF ServeSet, Serving, Types, CommandTypes, ArgInv
  <2>2. InRange([deck EXCEPT !.set = call.arg])
    BY <1>1, <2>1 DEF InRange, DeckType
  <2> QED
    BY <1>2, <2>2 DEF ServeSet, Serving, ServeRest, Ack, Serves, Types, WorkerTypes
<1>3. CASE ServeTransport
  <2> DEFINE d == [deck EXCEPT !.playing = call.arg.playing, !.loop = call.arg.loop]
  <2>1. call.arg \in Wishes
    BY <1>3 DEF ServeTransport, Serving, Types, CommandTypes, ArgInv
  <2>2. call.arg.playing \in [Sources -> BOOLEAN] /\ call.arg.loop \in [Sources -> BOOLEAN]
    BY <2>1, LoopsAssumption DEF Wishes
  <2>3. d \in DeckType /\ d.head = deck.head
    BY <1>1, <2>2 DEF InRange, DeckType
  <2>4. PlayOrPause(d) \in {"playing", "paused"}
    BY DEF PlayOrPause
  <2>5. [d EXCEPT !.state = PlayOrPause(d)] \in DeckType
        /\ [d EXCEPT !.state = PlayOrPause(d)].head = deck.head
    <3> HIDE DEF d
    <3> QED
      BY <2>3, <2>4 DEF DeckType
  <2>6. InRange([d EXCEPT !.state = PlayOrPause(d)])
    BY <1>1, <2>5 DEF InRange
  <2> QED
    BY <1>3, <2>6 DEF ServeTransport, Serving, ServeRest, Ack, Serves, Types, WorkerTypes
<1> QED
  BY <1>2, <1>3, ProcessServes, ResetServes, CaptureServes DEF Serve, Types

-----------------------------------------------------------------------------
(* Frames and the batch they come from.                                       *)
FreshIn(q, h) ==
    \A i \in 1 .. Len(q) :
        /\ q[i].set = h.set
        /\ \/ q[i].gen = h.gen /\ q[i].seq = h.seq
           \/ q[i].gen + 1 = h.gen /\ h.seq = 0
OfStatus(q, h) ==
    \A i \in 1 .. Len(q) : q[i].set = h.set /\ q[i].gen = h.gen /\ q[i].seq = h.seq

LEMMA TailFresh ==
  ASSUME NEW q \in Seq(Frame), q # <<>>, NEW h
  PROVE  /\ Tail(q) \in Seq(Frame)
         /\ FreshIn(q, h) => FreshIn(Tail(q), h)
<1>1. /\ Tail(q) \in Seq(Frame) /\ Len(q) \in Nat /\ Len(Tail(q)) = Len(q) - 1
      /\ \A i \in 1 .. Len(Tail(q)) : Tail(q)[i] = q[i + 1] /\ i + 1 \in 1 .. Len(q)
  OBVIOUS
<1> QED
  BY <1>1 DEF FreshIn

LEMMA SplitFresh ==
  ASSUME NEW b \in Batch
  PROVE  /\ Split(b) \in Seq(Frame) /\ Split(b) # <<>>
         /\ \A i \in 1 .. Len(Split(b)) : /\ Split(b)[i].set = b.set
                                          /\ Split(b)[i].gen = b.gen
                                          /\ Split(b)[i].seq = b.seq
<1> DEFINE f(i) == [gen |-> b.gen, seq |-> b.seq, i |-> i, set |-> b.set]
<1>1. \A i \in 1 .. Frames : f(i) \in Frame
  BY DEF Frame, Batch
<1>2. Split(b) = [i \in 1 .. Frames |-> f(i)]
  BY DEF Split
<1>3. \A i \in 1 .. Frames : f(i).set = b.set /\ f(i).gen = b.gen /\ f(i).seq = b.seq
  OBVIOUS
<1> HIDE DEF f
<1>4. Split(b) \in Seq(Frame) /\ Len(Split(b)) = Frames /\ Frames \in Nat \ {0}
  BY <1>1, <1>2, FramesAssumption
<1> QED
  BY <1>2, <1>3, <1>4

LEMMA FreshIsIn == FreshFrames <=> FreshIn(frames, host)
  BY DEF FreshFrames, FreshIn

LEMMA OfStatusFresh ==
  ASSUME NEW q, NEW h, OfStatus(q, h)
  PROVE  FreshIn(q, h)
  BY DEF OfStatus, FreshIn

(* A receive keeps the invariant if its outcome fits what it did to the ring  *)
(* and to the frames.                                                         *)
ReceivesWell ==
    /\ UNCHANGED <<recording, deck, writer, alive, rejected, seam, left>>
    /\ InRange(host') /\ active' \in CaptureType \cup {NoCapture} /\ view' \in Views
    /\ cause' \in Causes /\ adopted' = host'.gen /\ mapping' \in Mappings
    /\ frames' \in Seq(Frame) /\ FreshIn(frames', host')
    /\ active' # NoCapture <=> view' \in InProgress
    /\ \/ Kept
       \/ /\ Done \/ Further
          /\ mapping'.queue = <<>> /\ mapping'.gen = adopted'
          /\ Further => frames' # <<>> /\ OfStatus(frames', host')
          /\ Further /\ call'.cmd = "capture_status" => active' # NoCapture

LEMMA ReceivesKeep ==
  ASSUME IInv, pc = "run", call.cmd # "none", ReceivesWell
  PROVE  IInv'
<1>1. /\ pc' \in {"run", "ending"}
      /\ pc' = "run" => Done \/ Further
  BY DEF ReceivesWell, Kept, Done, Further
<1>2. adopted' \in Nat
  BY DEF ReceivesWell, InRange, DeckType
<1>3. ActorTypes'
  BY <1>1, <1>2 DEF ReceivesWell, ActorTypes, InRange, IInv, Types
<1>4. CommandTypes'
  <2>1. CASE Kept
    BY <2>1 DEF Kept, ReceivesWell, IInv, Types, CommandTypes, ArgInv
  <2>2. CASE Done
    <3>1. NoCall \in Calls
      BY DEF NoCall, Calls, Commands, Arguments
    <3>2. ArgInv'
      BY <2>2 DEF Done, NoCall, ArgInv
    <3> QED
      BY <2>2, <3>1, <3>2 DEF Done, ReceivesWell, IInv, Types, CommandTypes
  <2>3. CASE Further
    <3>1. ArgInv'
      BY <2>3 DEF Further, ArgInv
    <3> QED
      BY <2>3, <3>1 DEF Further, ReceivesWell, IInv, Types, CommandTypes
  <2> QED
    BY <2>1, <2>2, <2>3 DEF ReceivesWell
<1>5. WorkerTypes'
  BY DEF ReceivesWell, IInv, Types, WorkerTypes, InRange
<1>6. CallInv'
  <2>1. CASE Kept
    BY <2>1 DEF Kept, CallInv, IInv
  <2>2. CASE Done
    BY <2>2 DEF Done, NoCall, CallInv
  <2>3. CASE Further /\ ~Kept
    <3>1. /\ frames' # <<>> /\ OfStatus(frames', host')
          /\ call'.cmd = "capture_status" => active' # NoCapture
      BY <2>3 DEF ReceivesWell, Done, Further, NoCall
    <3> QED
      BY <2>3, <3>1 DEF Further, CallInv, OfStatus
  <2> QED
    BY <2>1, <2>2, <2>3 DEF ReceivesWell
<1>7. RingInv'
  <2>1. CASE pc' # "run"
    BY <2>1 DEF RingInv
  <2>2. CASE pc' = "run"
    <3>1. reply' = "none" /\ mapping'.queue = <<>> /\ mapping'.gen = adopted' /\ adopted' = host'.gen
      BY <2>2 DEF ReceivesWell, Kept, Done, Further
    <3> QED
      BY <3>1 DEF RingInv
  <2> QED
    BY <2>1, <2>2
<1>8. FreshFrames' /\ ViewTellsEnd'
  BY DEF ReceivesWell, FreshFrames, FreshIn, ViewTellsEnd
<1> QED
  BY <1>3, <1>4, <1>5, <1>6, <1>7, <1>8 DEF IInv, Types

LEMMA Facts ==
  ASSUME IInv, pc = "run"
  PROVE  /\ InRange(host) /\ InRange(deck) /\ host \in DeckType /\ deck \in DeckType
         /\ active \in CaptureType \cup {NoCapture} /\ view \in Views /\ cause \in Causes
         /\ adopted = host.gen /\ mapping \in Mappings /\ call \in Calls
         /\ frames \in Seq(Frame) /\ FreshIn(frames, host)
         /\ active # NoCapture <=> view \in InProgress
         /\ call.within => frames # <<>> /\ OfStatus(frames, host)
         /\ call.within => call.cmd \in {"capture_status", "reset"}
<1>1. FreshIn(frames, host)
  BY FreshIsIn DEF IInv
<1>2. \A i \in 1 .. Len(frames) : frames[i].set = host.set
  BY DEF IInv, FreshFrames
<1>3. call.within => frames # <<>> /\ OfStatus(frames, host)
  BY <1>2 DEF IInv, CallInv, OfStatus
<1> QED
  BY <1>1, <1>3 DEF IInv, Types, ActorTypes, CommandTypes, WorkerTypes, InRange, RingInv,
     ViewTellsEnd, CallInv

LEMMA RefuseKeeps ==
  ASSUME IInv, pc = "run", call.cmd # "none", NEW why \in Causes, Refuse(why), ReceiveRest
  PROVE  IInv'
<1>1. ReceivesWell
  BY Facts DEF Refuse, Fail, KeepStatus, KeepFrames, KeepRing, ReceiveRest, ReceivesWell, Kept
<1> QED
  BY <1>1, ReceivesKeep

LEMMA CausesAre ==
    /\ "caller" \in Causes /\ "remote" \in Causes /\ "timeout" \in Causes /\ "worker" \in Causes
    /\ "protocol" \in Causes /\ "ring" \in Causes /\ "import" \in Causes
    /\ "artifact" \in Causes /\ "shutdown" \in Causes
  BY DEF Causes

-----------------------------------------------------------------------------
(* Each receive.                                                              *)
LEMMA QuietRing ==
  ASSUME IInv, pc = "run", reply # "ack" \/ call.cmd \notin {"process", "reset"}
  PROVE  mapping.queue = <<>> /\ mapping.gen = adopted
  BY DEF IInv, RingInv

LEMMA AdoptTyped ==
  ASSUME NEW d, InRange(d), NEW cap \in Caps
  PROVE  /\ InRange(AdoptCapture(d, cap))
         /\ AdoptCapture(d, cap).gen = d.gen /\ AdoptCapture(d, cap).seq = d.seq
         /\ AdoptCapture(d, cap).set = d.set /\ AdoptCapture(d, cap).cap = cap
         /\ \A q : /\ FreshIn(q, d) => FreshIn(q, AdoptCapture(d, cap))
                   /\ OfStatus(q, d) => OfStatus(q, AdoptCapture(d, cap))
<1> DEFINE t == IF cap \in InProgress THEN "capturing" ELSE PlayOrPause(d)
           e == [d EXCEPT !.cap = cap, !.state = t]
<1>1. AdoptCapture(d, cap) = e
  BY DEF AdoptCapture
<1>2. InRange(e)
  BY StateTyped
<1>3. e.gen = d.gen /\ e.seq = d.seq /\ e.set = d.set /\ e.cap = cap
  <2> HIDE DEF t
  <2> QED
    BY DEF InRange, DeckType
<1> HIDE DEF e
<1>4. \A q : (FreshIn(q, d) => FreshIn(q, e)) /\ (OfStatus(q, d) => OfStatus(q, e))
  BY <1>3 DEF FreshIn, OfStatus
<1> QED
  BY <1>1, <1>2, <1>3, <1>4

LEMMA ReceiveProcessKeeps == IInv /\ ReceiveProcess => IInv'
<1> SUFFICES ASSUME IInv, ReceiveProcess
             PROVE  IInv'
  OBVIOUS
<1>1. /\ pc = "run" /\ call.cmd = "process" /\ reply = "ack" /\ ReceiveRest /\ call.cmd # "none"
      /\ ~call.within
  BY DEF ReceiveProcess, Received, IInv, CallInv
<1>2. CASE Refuse("protocol") \/ Refuse("ring")
  BY <1>1, <1>2, RefuseKeeps, CausesAre
<1>3. CASE ~(Refuse("protocol") \/ Refuse("ring"))
  <2> DEFINE queue == Split(Head(mapping.queue))
             looped == Looped(host, deck)
             b == [gen |-> deck.gen, seq |-> deck.seq, slot |-> mapping.last, set |-> deck.set]
  <2>1. /\ ValidProcess(host, deck) /\ host' = deck
        /\ mapping' = [mapping EXCEPT !.queue = Tail(@)]
        /\ UNCHANGED <<active, view, adopted>>
        /\ \/ active # NoCapture /\ SendWithin("capture_status", 0, looped) /\ frames' = queue /\ Goon
           \/ active = NoCapture /\ Continue(looped, queue)
    BY <1>3 DEF ReceiveProcess
  <2>2. /\ mapping.queue = <<b>> /\ mapping.gen = adopted /\ mapping \in Mappings
        /\ InRange(deck) /\ adopted = host.gen /\ deck.gen = host.gen
    BY <1>1, <2>1, Facts DEF IInv, RingInv, ValidProcess
  <2>3. b \in Batch /\ b.gen = deck.gen /\ b.seq = deck.seq /\ b.set = deck.set
    BY <2>2 DEF Batch, InRange, DeckType, Mappings
  <2> HIDE DEF b
  <2>4. Head(mapping.queue) = b /\ Tail(mapping.queue) = <<>> /\ <<>> \in Seq(Batch)
    BY <2>2
  <2>5. queue \in Seq(Frame) /\ queue # <<>> /\ OfStatus(queue, deck)
    BY <2>3, <2>4, SplitFresh DEF OfStatus
  <2> HIDE DEF queue, looped
  <2>6. mapping' \in Mappings /\ mapping'.queue = <<>> /\ mapping'.gen = adopted
    BY <2>1, <2>2, <2>4 DEF Mappings
  <2>7. looped \in BOOLEAN
    BY DEF looped, Looped
  <2>8. \/ Further /\ frames' = queue /\ active # NoCapture /\ cause' = cause
        \/ Further /\ frames' = queue /\ call'.cmd = "reset" /\ cause' \in {cause, "caller"}
        \/ Done /\ frames' \in {queue, Tail(queue)} /\ cause' \in {cause, "caller"}
    <3>1. CASE /\ active # NoCapture /\ SendWithin("capture_status", 0, looped)
               /\ frames' = queue /\ Goon
      <4>1. "capture_status" \in Commands /\ 0 \in Arguments
        BY DEF Commands, Arguments
      <4> QED
        BY <1>1, <2>7, <3>1, <4>1, SentWithinTyped, Facts DEF Further, Goon
    <3>2. CASE active = NoCapture /\ Continue(looped, queue)
      BY <1>1, <2>7, <3>2, Continues, Facts
    <3> QED
      BY <2>1, <3>1, <3>2
  <2>9. /\ FreshIn(queue, deck) /\ FreshIn(Tail(queue), deck) /\ Tail(queue) \in Seq(Frame)
    BY <2>5, OfStatusFresh, TailFresh
  <2>10. ~(Done /\ Further)
    BY DEF Done, Further, NoCall
  <2>11. ReceivesWell
    BY <1>1, <2>1, <2>2, <2>5, <2>6, <2>8, <2>9, <2>10, Facts, CausesAre
       DEF ReceivesWell, ReceiveRest
  <2> QED
    BY <1>1, <2>11, ReceivesKeep
<1> QED
  BY <1>2, <1>3

LEMMA ReceiveSettingsKeep == IInv /\ (ReceiveSet \/ ReceiveTransport) => IInv'
<1> SUFFICES ASSUME IInv, ReceiveSet \/ ReceiveTransport
             PROVE  IInv'
  OBVIOUS
<1>1. /\ pc = "run" /\ call.cmd # "none" /\ ReceiveRest
      /\ reply # "ack" \/ call.cmd \notin {"process", "reset"}
  BY DEF ReceiveSet, ReceiveTransport, Received
<1>2. CASE Refuse("protocol")
  BY <1>1, <1>2, RefuseKeeps, CausesAre
<1>3. CASE ~Refuse("protocol")
  <2>1. /\ host' = deck /\ frames' = <<>> /\ UNCHANGED <<active, view>> /\ KeepRing /\ Answered
        /\ deck.gen = host.gen
    <3>1. CASE ReceiveSet
      <4>1. deck = [host EXCEPT !.set = call.arg]
        BY <1>3, <3>1 DEF ReceiveSet
      <4>2. deck.gen = host.gen
        BY <1>1, <4>1, Facts DEF DeckType
      <4> QED
        BY <1>3, <3>1, <4>2 DEF ReceiveSet
    <3>2. CASE ReceiveTransport
      BY <1>3, <3>2 DEF ReceiveTransport, ValidTransport
    <3> QED
      BY <3>1, <3>2
  <2>2. Done /\ cause' \in {cause, "caller"} /\ ~Further
    BY <2>1 DEF Answered, Idle, Goon, Done, Further, NoCall
  <2>3. <<>> \in Seq(Frame) /\ FreshIn(<<>>, deck)
    BY DEF FreshIn
  <2>4. mapping.queue = <<>> /\ mapping.gen = adopted
    BY <1>1, QuietRing
  <2>5. ReceivesWell
    BY <1>1, <2>1, <2>2, <2>3, <2>4, Facts, CausesAre DEF ReceivesWell, ReceiveRest, KeepRing
  <2> QED
    BY <1>1, <2>5, ReceivesKeep
<1> QED
  BY <1>2, <1>3

LEMMA ReceiveResetKeeps == IInv /\ ReceiveReset => IInv'
<1> SUFFICES ASSUME IInv, ReceiveReset
             PROVE  IInv'
  OBVIOUS
<1>1. pc = "run" /\ call.cmd = "reset" /\ reply = "ack" /\ ReceiveRest /\ call.cmd # "none"
  BY DEF ReceiveReset, Received
<1>2. CASE Refuse("protocol") \/ Refuse("ring")
  BY <1>1, <1>2, RefuseKeeps, CausesAre
<1>3. CASE ~(Refuse("protocol") \/ Refuse("ring"))
  <2>1. /\ ValidReset(host, deck, call.arg) /\ mapping.gen = deck.gen /\ mapping.queue = <<>>
        /\ host' = deck /\ adopted' = deck.gen /\ UNCHANGED <<active, view, mapping>>
        /\ \/ call.within /\ Processed(frames)
           \/ ~call.within /\ frames' = <<>> /\ Answered
    BY <1>3 DEF ReceiveReset
  <2>2. deck.gen = host.gen + 1 /\ deck.seq = 0 /\ deck.set = host.set
    BY <2>1 DEF ValidReset
  <2>3. call.within => FreshIn(frames, deck)
    <3>1. call.within => OfStatus(frames, host)
      BY <1>1, Facts
    <3> QED
      BY <2>2, <3>1 DEF OfStatus, FreshIn
  <2>4. Done /\ cause' \in {cause, "caller"} /\ ~Further
    <3>1. Done /\ cause' \in {cause, "caller"}
      BY <2>1, ProcessedEnds DEF Answered, Idle, Goon, Done
    <3> QED
      BY <3>1 DEF Done, Further, NoCall
  <2>5. frames' \in Seq(Frame) /\ FreshIn(frames', deck)
    <3>1. CASE call.within /\ Processed(frames)
      <4>1. frames' \in {frames, Tail(frames)} /\ frames # <<>> /\ frames \in Seq(Frame)
        BY <1>1, <3>1, ProcessedEnds, Facts
      <4> QED
        BY <2>3, <3>1, <4>1, TailFresh
    <3>2. CASE frames' = <<>>
      BY <3>2 DEF FreshIn
    <3> QED
      BY <2>1, <3>1, <3>2
  <2>6. ReceivesWell
    BY <1>1, <2>1, <2>4, <2>5, Facts, CausesAre DEF ReceivesWell, ReceiveRest
  <2> QED
    BY <1>1, <2>6, ReceivesKeep
<1> QED
  BY <1>2, <1>3

LEMMA ReceiveCaptureStartKeeps == IInv /\ ReceiveCaptureStart => IInv'
<1> SUFFICES ASSUME IInv, ReceiveCaptureStart
             PROVE  IInv'
  OBVIOUS
<1>1. /\ pc = "run" /\ call.cmd = "capture_start" /\ ReceiveRest /\ KeepFrames /\ KeepRing
      /\ deck.cap = "capturing" /\ active' = [mode |-> call.arg, state |-> deck.cap]
      /\ host' = AdoptCapture(host, deck.cap) /\ view' = "capturing" /\ Answered
      /\ call.cmd # "none"
  BY DEF ReceiveCaptureStart, Received
<1>2. call.arg \in Modes
  BY <1>1 DEF IInv, Types, CommandTypes, ArgInv
<1>3. active' \in CaptureType /\ active' # NoCapture /\ view' \in Views /\ view' \in InProgress
  BY <1>1, <1>2, CaptureAssumption DEF CaptureType, NoCapture, Views, InProgress
<1>4. "capturing" \in Caps
  BY DEF Caps, InProgress
<1>5. InRange(host') /\ host'.gen = host.gen /\ FreshIn(frames, host')
  BY <1>1, <1>4, Facts, AdoptTyped
<1>6. Done /\ cause' \in {cause, "caller"} /\ ~Further
  BY <1>1 DEF Answered, Idle, Goon, Done, Further, NoCall
<1>7. mapping.queue = <<>> /\ mapping.gen = adopted
  BY <1>1, QuietRing
<1>8. ReceivesWell
  BY <1>1, <1>3, <1>5, <1>6, <1>7, Facts, CausesAre DEF ReceivesWell, ReceiveRest, KeepRing, KeepFrames
<1> QED
  BY <1>1, <1>8, ReceivesKeep

\* What is left of a status once the capture has been looked at.
LEMMA AfterStatusKeeps ==
  ASSUME IInv, pc = "run", call.cmd \in {"capture_stop", "capture_status"}, ReceiveRest, KeepRing,
         host' = AdoptCapture(host, deck.cap),
         active' \in CaptureType \cup {NoCapture}, view' \in Views,
         active' # NoCapture <=> view' \in InProgress,
         \/ AfterStatus
         \/ KeepFrames /\ Answered
         \/ KeepFrames /\ \E why \in Causes : Fail(why)
  PROVE  IInv'
<1>1. deck.cap \in Caps
  BY Facts DEF DeckType
<1>2. /\ InRange(host') /\ host'.gen = host.gen
      /\ FreshIn(frames, host) => FreshIn(frames, host')
      /\ FreshIn(Tail(frames), host) => FreshIn(Tail(frames), host')
      /\ OfStatus(frames, host) => OfStatus(frames, host')
  BY <1>1, Facts, AdoptTyped
<1>3. mapping.queue = <<>> /\ mapping.gen = adopted
  BY QuietRing
<1>4. \/ Further /\ call'.cmd = "reset" /\ call.within /\ frames' = frames /\ cause' \in {cause, "caller"}
      \/ Done /\ call.within /\ frames' \in {frames, Tail(frames)} /\ cause' \in {cause, "caller"}
      \/ Done /\ frames' = frames /\ cause' \in {cause, "caller"}
      \/ Kept /\ frames' = frames /\ cause' \in Causes
  <2>1. CASE AfterStatus
    BY <2>1, AfterStatusEnds, Facts
  <2>2. CASE KeepFrames /\ Answered
    BY <2>2 DEF KeepFrames, Answered, Idle, Goon, Done
  <2>3. CASE KeepFrames /\ \E why \in Causes : Fail(why)
    BY <2>3 DEF KeepFrames, Fail, Kept
  <2> QED
    BY <2>1, <2>2, <2>3
<1>5. ~(Done /\ Further) /\ (Kept => ~Further)
  BY DEF Done, Further, Kept, NoCall
<1>6. frames' \in Seq(Frame) /\ FreshIn(frames', host')
  <2>1. call.within => Tail(frames) \in Seq(Frame) /\ FreshIn(Tail(frames), host)
    BY Facts, TailFresh
  <2> QED
    BY <1>2, <1>4, <2>1, Facts
<1>7. ReceivesWell
  BY <1>2, <1>3, <1>4, <1>5, <1>6, Facts, CausesAre DEF ReceivesWell, ReceiveRest, KeepRing
<1>8. call.cmd # "none"
  OBVIOUS
<1> QED
  BY <1>7, <1>8, ReceivesKeep

LEMMA ReceiveStatusKeeps == IInv /\ ReceiveStatus => IInv'
<1> SUFFICES ASSUME IInv, ReceiveStatus
             PROVE  IInv'
  OBVIOUS
<1>1. /\ pc = "run" /\ call.cmd \in {"capture_stop", "capture_status"} /\ ReceiveRest /\ KeepRing
      /\ active # NoCapture /\ call.cmd # "none"
  BY DEF ReceiveStatus, Received, IInv, CallInv
<1>2. /\ NoCapture \in CaptureType \cup {NoCapture}
      /\ {"finished", "error"} \subseteq Views /\ InProgress \subseteq Views
      /\ "finished" \notin InProgress /\ "error" \notin InProgress
  BY DEF Views, InProgress
<1>3. CASE ApplyStatus
  <2>1. host' = AdoptCapture(host, deck.cap)
    BY <1>3 DEF ApplyStatus
  <2>2. CASE Finalize
    <3>1. /\ active' = NoCapture /\ view' \in {"finished", "error"}
          /\ \/ AfterStatus
             \/ KeepFrames /\ Answered
             \/ KeepFrames /\ \E why \in Causes : Fail(why)
      BY <2>2, CausesAre DEF Finalize
    <3> QED
      BY <1>1, <1>2, <2>1, <3>1, AfterStatusKeeps
  <2>3. CASE active' = NoCapture /\ view' = "error" /\ AfterStatus
    BY <1>1, <1>2, <2>1, <2>3, AfterStatusKeeps
  <2>4. CASE /\ deck.cap \in InProgress
             /\ active' = [active EXCEPT !.state = deck.cap] /\ view' = deck.cap /\ AfterStatus
    <3>1. active \in CaptureType
      BY <1>1, Facts
    <3>2. active' \in CaptureType
      BY <2>4, <3>1 DEF CaptureType
    <3>3. active' # NoCapture
      BY <3>2, CaptureAssumption DEF CaptureType, NoCapture
    <3> QED
      BY <1>1, <1>2, <2>1, <2>4, <3>2, <3>3, AfterStatusKeeps
  <2> QED
    BY <1>3, <2>2, <2>3, <2>4 DEF ApplyStatus
<1>4. CASE /\ active' = NoCapture /\ view' = "error"
           /\ host' = AdoptCapture(host, "faulted") /\ KeepFrames /\ Fail("protocol")
  <2>1. "faulted" \in Caps
    BY DEF Caps, Terminal
  <2>2. InRange(host') /\ host'.gen = host.gen /\ FreshIn(frames, host')
    BY <1>1, <1>4, <2>1, Facts, AdoptTyped
  <2>3. Kept /\ cause' \in Causes
    BY <1>4, CausesAre DEF Fail, Kept
  <2>4. ReceivesWell
    BY <1>1, <1>2, <1>4, <2>2, <2>3, Facts DEF ReceivesWell, ReceiveRest, KeepRing, KeepFrames
  <2> QED
    BY <1>1, <2>4, ReceivesKeep
<1> QED
  BY <1>3, <1>4 DEF ReceiveStatus

LEMMA ReceiveErrorKeeps == IInv /\ ReceiveError => IInv'
<1> SUFFICES ASSUME IInv, ReceiveError
             PROVE  IInv'
  OBVIOUS
<1>1. /\ pc = "run" /\ reply \in {"error", "fatal"} /\ ReceiveRest /\ KeepStatus /\ KeepFrames /\ KeepRing
      /\ call.cmd # "none" /\ reply # "ack"
  BY DEF ReceiveError, IInv, CallInv
<1>2. mapping.queue = <<>> /\ mapping.gen = adopted
  BY <1>1, QuietRing
<1>3. cause' \in Causes /\ (Kept \/ Done)
  BY Facts, CausesAre DEF ReceiveError, Fail, Answered, Idle, Goon, Kept, Done
<1>4. Done => ~Further
  BY DEF Done, Further, NoCall
<1>5. ReceivesWell
  BY <1>1, <1>2, <1>3, <1>4, Facts DEF ReceivesWell, ReceiveRest, KeepStatus, KeepFrames, KeepRing
<1> QED
  BY <1>1, <1>5, ReceivesKeep

-----------------------------------------------------------------------------
(* The invariant is inductive.                                                *)
LEMMA OwnStepsKeep == IInv /\ OwnSteps => IInv'
<1> SUFFICES ASSUME IInv, OwnSteps
             PROVE  IInv'
  OBVIOUS
<1>1. /\ UNCHANGED <<host, active, view, adopted, deck, writer, mapping, alive, rejected, seam>>
      /\ left' \in 0 .. Requests
  BY OwnStepsDo
<1>2. CASE Sends
  <2>1. pc = "run" /\ call.cmd = "none" /\ reply = "none"
    BY <1>2 DEF Sends, AtRest, IInv, CallInv
  <2>2. mapping.queue = <<>> /\ mapping.gen = adopted
    BY <2>1, QuietRing
  <2>3. Types'
    BY <1>1, <1>2 DEF Sends, IInv, Types, ActorTypes, CommandTypes, WorkerTypes, InRange
  <2>4. CallInv' /\ RingInv'
    BY <1>1, <1>2, <2>1, <2>2 DEF Sends, CallInv, RingInv, IInv
  <2>5. FreshFrames' /\ ViewTellsEnd'
    BY <1>1, <1>2 DEF Sends, FreshFrames, ViewTellsEnd, IInv
  <2> QED
    BY <2>3, <2>4, <2>5 DEF IInv
<1>3. CASE Rests
  <2>1. /\ frames' \in Seq(Frame) /\ FreshFrames'
        /\ frames' = frames \/ AtRest
    <3>1. CASE frames' = frames
      BY <1>1, <3>1 DEF FreshFrames, IInv, Types, ActorTypes
    <3>2. CASE AtRest /\ frames # <<>> /\ frames' = Tail(frames)
      <4>1. pc = "run"
        BY <3>2 DEF AtRest
      <4>2. frames' \in Seq(Frame) /\ FreshIn(frames', host)
        BY <3>2, <4>1, Facts, TailFresh
      <4> QED
        BY <1>1, <3>2, <4>2 DEF FreshFrames, FreshIn
    <3> QED
      BY <1>3, <3>1, <3>2 DEF Rests
  <2>2. /\ UNCHANGED <<call, reply>> /\ recording' \in BOOLEAN
        /\ \/ UNCHANGED <<pc, cause>>
           \/ AtRest /\ pc' = "ending" /\ cause' = "shutdown"
    BY <1>3 DEF Rests
  <2>3. Types'
    BY <1>1, <2>1, <2>2, CausesAre
       DEF IInv, Types, ActorTypes, CommandTypes, WorkerTypes, InRange, ArgInv
  <2>4. CallInv'
    BY <1>1, <2>1, <2>2 DEF IInv, CallInv, AtRest
  <2>5. RingInv' /\ ViewTellsEnd'
    BY <1>1, <2>2 DEF IInv, RingInv, ViewTellsEnd
  <2> QED
    BY <2>1, <2>3, <2>4, <2>5 DEF IInv
<1> QED
  BY <1>2, <1>3, OwnStepsDo

LEMMA ServeKeeps == IInv /\ Serve => IInv'
<1> SUFFICES ASSUME IInv, Serve
             PROVE  IInv'
  OBVIOUS
<1>1. Serves /\ WorkerTypes'
  BY ServeDoes DEF IInv
<1>2. /\ UNCHANGED <<host, frames, active, view, recording, pc, cause, adopted, call, left>>
      /\ reply = "none" /\ call.cmd # "none" /\ reply' \in {"ack", "error", "fatal"}
      /\ rejected' \in BOOLEAN
  BY <1>1 DEF Serves, actor, IInv, Types, CommandTypes
<1>3. Types'
  BY <1>1, <1>2 DEF IInv, Types, ActorTypes, CommandTypes, InRange, ArgInv
<1>4. CallInv'
  BY <1>2 DEF IInv, CallInv
<1>5. RingInv'
  <2>1. CASE pc = "run"
    <3>1. mapping.queue = <<>> /\ mapping.gen = adopted /\ adopted = host.gen
      BY <1>2, <2>1, QuietRing DEF IInv, RingInv
    <3>2. CASE /\ reply' = "ack" /\ call.cmd = "process" /\ mapping'.gen = mapping.gen
               /\ mapping'.queue = Append(mapping.queue,
                     [gen |-> deck'.gen, seq |-> deck'.seq, slot |-> mapping'.last,
                      set |-> deck'.set])
      <4>1. \A e : Append(<<>>, e) = <<e>>
        OBVIOUS
      <4> QED
        BY <1>2, <3>1, <3>2, <4>1 DEF RingInv
    <3>3. CASE reply' = "ack" /\ call.cmd = "reset" /\ mapping'.gen = deck'.gen /\ mapping'.queue = <<>>
      BY <1>2, <3>1, <3>3 DEF RingInv
    <3>4. CASE (reply' # "ack" \/ call.cmd \notin {"process", "reset"}) /\ UNCHANGED mapping
      BY <1>2, <3>1, <3>4 DEF RingInv
    <3> QED
      BY <1>1, <3>2, <3>3, <3>4 DEF Serves
  <2>2. CASE pc # "run"
    BY <1>2, <2>2 DEF RingInv
  <2> QED
    BY <2>1, <2>2
<1>6. FreshFrames' /\ ViewTellsEnd'
  BY <1>2 DEF IInv, FreshFrames, ViewTellsEnd
<1> QED
  BY <1>3, <1>4, <1>5, <1>6 DEF IInv

(* A step of the end of a session leaves the actor in its end.               *)
LEMMA EndSessionDoes ==
  ASSUME EndSession
  PROVE  /\ pc # "run" /\ pc' \in {"stopping", "settling", "dropping", "stopped"}
         /\ UNCHANGED <<frames, cause, adopted, call, reply, deck, writer, mapping, rejected,
                        seam, left>>
         /\ alive' \in {alive, FALSE} /\ recording' \in {recording, FALSE}
         /\ \/ UNCHANGED <<host, view, active>>
            \/ active' = NoCapture /\ view' = "aborted" /\ host' = AdoptCapture(host, "aborted")
<1> USE DEF Ends
<1>1. CASE StopWorker
  BY <1>1 DEF StopWorker
<1>2. CASE WorkerStopped
  BY <1>2 DEF WorkerStopped
<1>3. CASE SettleCapture
  BY <1>3 DEF SettleCapture
<1>4. CASE DropActor
  BY <1>4 DEF DropActor
<1> QED
  BY <1>1, <1>2, <1>3, <1>4 DEF EndSession

LEMMA EndSessionKeeps == IInv /\ EndSession => IInv'
<1> SUFFICES ASSUME IInv, EndSession
             PROVE  IInv'
  OBVIOUS
<1>1. /\ pc' \in {"stopping", "settling", "dropping", "stopped"} /\ alive' \in BOOLEAN /\ recording' \in BOOLEAN
      /\ UNCHANGED <<frames, cause, adopted, call, reply, deck, writer, mapping, rejected, seam, left>>
      /\ \/ UNCHANGED <<host, view, active>>
         \/ active' = NoCapture /\ view' = "aborted" /\ host' = AdoptCapture(host, "aborted")
  BY EndSessionDoes DEF IInv, Types, ActorTypes, WorkerTypes
<1>2. InRange(host) /\ FreshIn(frames, host) /\ "aborted" \in Caps
  BY FreshIsIn DEF IInv, Types, ActorTypes, Caps, Terminal
<1>3. InRange(host') /\ FreshIn(frames, host')
  BY <1>1, <1>2, AdoptTyped
<1>4. view' \in Views /\ active' \in CaptureType \cup {NoCapture} /\ ViewTellsEnd'
  BY <1>1 DEF IInv, Types, ActorTypes, ViewTellsEnd, Views, InProgress
<1>5. Types'
  BY <1>1, <1>3, <1>4 DEF IInv, Types, ActorTypes, CommandTypes, WorkerTypes, InRange, ArgInv
<1>6. CallInv' /\ RingInv' /\ ViewTellsEnd'
  BY <1>1, <1>4 DEF IInv, CallInv, RingInv, ViewTellsEnd
<1>7. FreshFrames'
  BY <1>1, <1>3 DEF FreshFrames, FreshIn
<1> QED
  BY <1>5, <1>6, <1>7 DEF IInv

LEMMA Inductive == IInv /\ [Next]_vars => IInv'
<1> SUFFICES ASSUME IInv, [Next]_vars
             PROVE  IInv'
  OBVIOUS
<1>1. CASE GiveUp
  <2>1. pc = "run" /\ call.cmd # "none" /\ ReceiveRest /\ (Refuse("timeout") \/ Refuse("worker"))
    BY <1>1 DEF GiveUp
  <2> QED
    BY <2>1, RefuseKeeps, CausesAre
<1>2. CASE ServeShutdown \/ WorkerCrash
  <2>1. /\ WorkerTypes' /\ UNCHANGED <<actor, call, reply, mapping, rejected, left>>
        /\ pc = "run" => UNCHANGED <<deck, writer>>
    BY <1>2, WorkerDiesTyped DEF IInv, Types
  <2>2. Types'
    BY <2>1 DEF actor, IInv, Types, ActorTypes, CommandTypes, InRange, ArgInv
  <2>3. CallInv' /\ RingInv' /\ FreshFrames' /\ ViewTellsEnd'
    BY <2>1 DEF actor, IInv, CallInv, RingInv, FreshFrames, ViewTellsEnd
  <2> QED
    BY <2>2, <2>3 DEF IInv
<1>3. CASE UNCHANGED vars
  BY <1>3 DEF vars, actor, worker, IInv, Types, ActorTypes, CommandTypes, WorkerTypes, InRange, ArgInv,
     CallInv, RingInv, FreshFrames, ViewTellsEnd
<1> QED
  BY <1>1, <1>2, <1>3, OwnStepsKeep, ServeKeeps, EndSessionKeeps, ReceiveProcessKeeps,
     ReceiveSettingsKeep, ReceiveResetKeeps, ReceiveCaptureStartKeeps, ReceiveStatusKeeps,
     ReceiveErrorKeeps DEF Next, Receive, OwnSteps

LEMMA Holds == Spec => []IInv
<1> QED
  BY InitHolds, Inductive, PTL DEF Spec

\* The variables stay typed, every playhead inside its source and every capture inside
\* its declared limits, whatever the worker refuses and whoever dies.
THEOREM TypeCorrect == Spec => []TypeOK
<1>1. IInv => TypeOK
  BY TypesGiveTypeOK DEF IInv
<1> QED
  BY <1>1, Holds, PTL

\* Between two commands the ring is empty and in the generation of the actor's status,
\* errors or not: whatever the actor reads next was published for what it asks next.
THEOREM RingFollows == Spec => []RingInStep
<1>1. IInv => RingInStep
  BY DEF IInv, CallInv, RingInv, RingInStep, AtRest
<1> QED
  BY <1>1, Holds, PTL

\* Frames that wait to be presented are those of the status: no command, no answer and
\* no failure leaves a frame of earlier settings or of an earlier generation in line.
THEOREM FramesFresh == Spec => []FreshFrames
<1>1. IInv => FreshFrames
  BY DEF IInv
<1> QED
  BY <1>1, Holds, PTL

\* What the actor publishes of its capture is in progress exactly while it has one, so
\* the monitor that follows it releases the output neither early nor never.
THEOREM ViewTrue == Spec => []ViewTellsEnd
<1>1. IInv => ViewTellsEnd
  BY DEF IInv
<1> QED
  BY <1>1, Holds, PTL

-----------------------------------------------------------------------------
(* Step by step with an obedient worker, if transport waits for the end of a  *)
(* capture and no source is a single slot: of such a one the worker says that *)
(* it is at its end, which validate_reset_status does not expect of a reset.  *)
Ordinary == TransportLock = TRUE /\ \A s \in Sources : Count[s] # 1

LEMMA FollowingTyped ==
  ASSUME NEW d \in DeckType, d.state = IF d.cap \in InProgress THEN "capturing" ELSE PlayOrPause(d)
  PROVE  d = AdoptCapture(d, d.cap)
<1>1. AdoptCapture(d, d.cap) = [d EXCEPT !.cap = d.cap, !.state = d.state]
  BY DEF AdoptCapture
<1> QED
  BY <1>1 DEF DeckType

LEMMA Capture ==
  ASSUME IInv, pc = "run", active = Following, active # NoCapture, Agreed
  PROVE  Behind /\ Capturing(deck) /\ active.state = deck.cap /\ active.mode = writer.mode
<1>1. /\ Capturing(deck) /\ deck.cap \in InProgress /\ active = [mode |-> writer.mode, state |-> deck.cap]
      /\ deck.state = "capturing" /\ writer.mode \in {"snapshot", "live"}
  BY CaptureAssumption DEF Following, Capturing, Agreed
<1>2. <<deck.cap, deck.cap>> \in StatusSteps[writer.mode]
  BY <1>1 DEF InProgress, StatusSteps
<1>3. deck = AdoptCapture(deck, deck.cap)
  BY <1>1, Facts, FollowingTyped
<1> QED
  BY <1>1, <1>2, <1>3 DEF Behind

(* An obedient worker stays within what the validators allow.                 *)
LEMMA PlayheadSteps ==
  ASSUME NEW p, InRange(p), NEW d, InRange(d), d.head = p.head, d.playing = p.playing, d.loop = p.loop,
         NEW s \in Sources
  PROVE  TransportStep(p, Advance(d), s)
<1>1. /\ p.head[s] \in Nat /\ p.head[s] < Count[s] /\ Count[s] \in Nat
      /\ p.playing[s] \in BOOLEAN /\ p.loop[s] \in BOOLEAN
  BY Counts DEF InRange, DeckType
<1>2. /\ Advance(d).head[s] = Moved(d, s) /\ Advance(d).playing[s] = Plays(d, s)
      /\ Advance(d).loop[s] = p.loop[s]
  <2>1. Advance(d).head = Heads(d) /\ Advance(d).playing = Playing(d) /\ Advance(d).loop = d.loop
    BY AdvanceIs DEF InRange
  <2> QED
    BY <2>1 DEF Heads, Playing
<1>3. CASE ~p.playing[s] \/ ~(p.head[s] + 1 >= Count[s]) \/ p.loop[s]
  <2>1. Plays(d, s) = p.playing[s]
    BY <1>1, <1>3 DEF Plays
  <2> QED
    BY <1>2, <2>1 DEF TransportStep
<1>4. CASE p.playing[s] /\ p.head[s] + 1 >= Count[s] /\ ~p.loop[s]
  <2>1. ~Plays(d, s) /\ Moved(d, s) = p.head[s] /\ p.head[s] + 1 = Count[s]
    BY <1>1, <1>4 DEF Plays, Moved
  <2> QED
    BY <1>1, <1>2, <1>4, <2>1 DEF TransportStep, EndOfStream
<1> QED
  BY <1>1, <1>3, <1>4

LEMMA ProcessIsValid ==
  ASSUME InRange(deck), NEW d, InRange(d), d.gen = deck.gen, d.seq = deck.seq + 1, d.set = deck.set,
         d.head = deck.head, d.playing = deck.playing, d.loop = deck.loop,
         <<deck.cap, d.cap>> \in CaptureSteps
  PROVE  ValidProcess(deck, Advance(d))
<1>1. \A s \in Sources : TransportStep(deck, Advance(d), s)
  BY PlayheadSteps
<1>2. /\ Advance(d).gen = d.gen /\ Advance(d).seq = d.seq /\ Advance(d).set = d.set
      /\ Advance(d).cap = d.cap
  BY AdvanceIs DEF InRange
<1> QED
  BY <1>1, <1>2 DEF ValidProcess

LEMMA DecodeAgrees ==
  ASSUME IInv, StepInv, pc = "run", ~rejected, ServeProcess, ~rejected'
  PROVE  Agreed'
<1> DEFINE d == [deck EXCEPT !.seq = @ + 1]
           w == Staged(d)
           c == Completed(d)
<1>1. /\ UNCHANGED <<actor, call>> /\ reply = "none" /\ call.cmd = "process" /\ Agreed
  BY DEF ServeProcess, Serving, ServeRest, StepInv
<1>2. host = deck /\ active = Following
  BY <1>1 DEF Agreed, PendingInv
<1>3. /\ InRange(deck) /\ deck \in DeckType /\ InRange(d) /\ d \in DeckType
      /\ writer \in WriterType
  BY SteppedTyped DEF IInv, Types, WorkerTypes, InRange
<1>4. /\ d.gen = deck.gen /\ d.seq = deck.seq + 1 /\ d.set = deck.set /\ d.head = deck.head
      /\ d.playing = deck.playing /\ d.loop = deck.loop /\ d.cap = deck.cap /\ d.state = deck.state
  BY <1>3 DEF DeckType
<1>5. /\ InRange(c) /\ c \in DeckType
      /\ c.gen = deck.gen /\ c.seq = deck.seq + 1 /\ c.set = deck.set /\ c.head = deck.head
      /\ c.playing = deck.playing /\ c.loop = deck.loop /\ c.cap = "completed"
  <2> HIDE DEF d
  <2>1. "completed" \in Caps
    BY DEF Caps, Terminal
  <2>2. c = [d EXCEPT !.cap = "completed", !.state = PlayOrPause(d)]
    BY DEF Completed
  <2>3. InRange([d EXCEPT !.cap = "completed", !.state = PlayOrPause(d)])
    BY <1>3, <2>1, StateTyped
  <2> HIDE DEF c
  <2>4. InRange(c)
    BY <2>2, <2>3
  <2> QED
    BY <1>3, <1>4, <2>2, <2>4 DEF DeckType, InRange
<1>6. /\ w.mode = writer.mode /\ [w EXCEPT !.payload = TRUE].mode = writer.mode
  <2> HIDE DEF d
  <2>1. w.mode = writer.mode
    BY <1>3 DEF Staged, WriterType
  <2>2. \A v : [v EXCEPT !.payload = TRUE].mode = v.mode
    OBVIOUS
  <2> QED
    BY <2>1, <2>2
<1> HIDE DEF d, w, c
<1>7. ASSUME ~Capturing(d), Decode(d, writer)
      PROVE  Agreed'
  <2>1. deck' = Advance(d) /\ reply' = "ack" /\ writer' = writer
    BY <1>7 DEF Decode, Reject, Ack
  <2>2. active = NoCapture /\ ~Capturing(deck') /\ deck'.cap = deck.cap
    BY <1>2, <1>3, <1>4, <1>7, <2>1, AdvanceIs DEF Following, Capturing
  <2>3. ValidProcess(host, deck')
    <3>1. <<deck.cap, d.cap>> \in CaptureSteps
      BY <1>3, <1>4 DEF CaptureSteps, DeckType, Caps, InProgress, Terminal
    <3> QED
      BY <1>2, <1>3, <1>4, <2>1, <3>1, ProcessIsValid
  <2> QED
    BY <1>1, <2>1, <2>2, <2>3 DEF actor, Agreed, PendingInv, AckInv
<1>8. ASSUME Capturing(d), NEW e, e \in {d, c}, NEW v, v.mode = writer.mode, Decode(e, v)
      PROVE  Agreed'
  <2>1. deck' = Advance(e) /\ reply' = "ack" /\ writer' = v
    BY <1>8 DEF Decode, Reject, Ack
  <2>2. /\ InRange(e) /\ e \in DeckType /\ e.cap \in {deck.cap, "completed"}
        /\ e.gen = deck.gen /\ e.seq = deck.seq + 1 /\ e.set = deck.set /\ e.head = deck.head
        /\ e.playing = deck.playing /\ e.loop = deck.loop
        /\ e.cap = "completed" \/ (e.cap = deck.cap /\ e.state = deck.state)
    <3>1. CASE e = d
      BY <1>3, <1>4, <3>1
    <3>2. CASE e = c
      BY <1>5, <3>2
    <3> QED
      BY <1>8, <3>1, <3>2
  <2>3. /\ deck.cap \in {"capturing", "finalizing"} /\ active # NoCapture
        /\ deck.state = "capturing" /\ writer.mode \in {"snapshot", "live"}
        /\ active.mode = writer.mode /\ active.state = deck.cap
    BY <1>1, <1>2, <1>4, <1>8, CaptureAssumption
       DEF Capturing, Following, NoCapture, Agreed, InProgress
  <2>4. ValidProcess(host, deck')
    <3>1. <<deck.cap, e.cap>> \in CaptureSteps
      BY <2>2, <2>3 DEF CaptureSteps
    <3> QED
      BY <1>2, <1>3, <2>1, <2>2, <3>1, ProcessIsValid
  <2>5. /\ deck'.cap = e.cap /\ InRange(deck') /\ deck' \in DeckType
        /\ e.cap = "completed" => deck'.state = PlayOrPause(deck')
        /\ e.cap # "completed" => deck'.state = "capturing"
    <3>1. InRange(Advance(e)) /\ Advance(e).cap = e.cap
      BY <2>2, AdvanceIs, AdvanceTyped
    <3> QED
      BY <2>1, <2>2, <2>3, <3>1, AdvanceIs DEF InRange
  <2>6. deck' = AdoptCapture(deck', deck'.cap)
    <3>1. deck'.state = IF deck'.cap \in InProgress THEN "capturing" ELSE PlayOrPause(deck')
      BY <2>2, <2>3, <2>5 DEF InProgress
    <3> QED
      BY <2>5, <3>1, FollowingTyped
  <2>7. <<active.state, deck'.cap>> \in StatusSteps[active.mode]
    BY <2>2, <2>3, <2>5 DEF StatusSteps
  <2>8. Behind'
    BY <1>1, <1>8, <2>1, <2>3, <2>6, <2>7 DEF actor, Behind
  <2>9. /\ deck'.cap \notin {"aborted", "faulted"}
        /\ Capturing(deck') => deck'.state = "capturing" /\ writer'.mode \in Modes
    BY <1>1, <1>4, <1>8, <2>1, <2>2, <2>3, <2>5 DEF Capturing, InProgress, Agreed
  <2> QED
    BY <1>1, <2>1, <2>3, <2>4, <2>8, <2>9 DEF actor, Agreed, PendingInv, AckInv
<1>9. ~Reject
  BY DEF Reject
<1> QED
  BY <1>6, <1>7, <1>8, <1>9 DEF ServeProcess, RejectFaulted, d, w, c

LEMMA ServeAgrees ==
  ASSUME Ordinary, IInv, StepInv, pc = "run", ~rejected, Serve, ~rejected'
  PROVE  Agreed'
<1>1. /\ UNCHANGED <<host, active, pc, call>> /\ reply = "none" /\ reply' = "ack" /\ Agreed
      /\ call.cmd # "none"
  BY ServeDoes DEF IInv, Serves, actor, StepInv
<1>2. /\ host = deck
      /\ call.cmd # "capture_status" => active = Following
  BY <1>1 DEF Agreed, PendingInv
<1>3. InRange(deck) /\ deck \in DeckType /\ host \in DeckType /\ writer \in WriterType
  BY <1>1, Facts DEF IInv, Types, WorkerTypes
<1>4. CASE ServeProcess
  BY <1>4, DecodeAgrees
<1>5. CASE ServeSet
  <2>1. /\ deck' = [deck EXCEPT !.set = call.arg] /\ writer' = writer /\ call.cmd = "set"
    BY <1>5 DEF ServeSet, Serving
  <2>2. deck'.cap = deck.cap /\ deck'.state = deck.state
    BY <1>3, <2>1 DEF DeckType
  <2>3. Following' = Following
    BY <2>1, <2>2 DEF Following, Capturing
  <2> QED
    BY <1>1, <1>2, <2>1, <2>2, <2>3 DEF Agreed, PendingInv, AckInv, Capturing
<1>6. CASE ServeTransport
  <2> DEFINE d == [deck EXCEPT !.playing = call.arg.playing, !.loop = call.arg.loop]
  <2>1. deck' = [d EXCEPT !.state = PlayOrPause(d)] /\ writer' = writer /\ call.cmd = "transport"
    BY <1>6 DEF ServeTransport, Serving
  <2>2. /\ d.cap = deck.cap /\ d.playing = call.arg.playing /\ d.loop = call.arg.loop
        /\ d.head = deck.head /\ d.gen = deck.gen /\ d.seq = deck.seq /\ d.set = deck.set
        /\ d \in [state : {deck.state}, gen : {deck.gen}, seq : {deck.seq}, set : {deck.set},
                  cap : {deck.cap}, loop : {d.loop}, playing : {d.playing}, head : {deck.head}]
    BY <1>3 DEF DeckType
  <2> HIDE DEF d
  <2>3. /\ deck'.cap = deck.cap /\ deck'.playing = call.arg.playing /\ deck'.loop = call.arg.loop
        /\ deck'.head = deck.head /\ deck'.gen = deck.gen /\ deck'.seq = deck.seq
        /\ deck'.set = deck.set /\ deck'.state = PlayOrPause(d) /\ deck'.playing = d.playing
    BY <2>1, <2>2
  <2>4. ValidTransport(host, deck', call.arg)
    <3>1. PlayOrPause(deck') = PlayOrPause(d)
      BY <2>3 DEF PlayOrPause, AnyPlaying
    <3> QED
      BY <1>2, <2>3, <3>1 DEF ValidTransport
  <2>5. active = NoCapture /\ active = Following
    BY <1>1, <1>2, <2>1 DEF Agreed
  <2>6. ~Capturing(deck)
    BY <1>1, <2>5, CaptureAssumption DEF Following, NoCapture, Agreed
  <2>7. ~Capturing(deck') /\ Following' = NoCapture
    BY <2>3, <2>6 DEF Capturing, Following
  <2> QED
    BY <1>1, <2>1, <2>3, <2>4, <2>5, <2>7 DEF Agreed, PendingInv, AckInv
<1>7. CASE ServeReset
  <2> DEFINE gen == host.gen + 1
             d == IF deck.cap \in Terminal THEN [deck EXCEPT !.cap = "idle"] ELSE deck
  <2>1. /\ deck' = [d EXCEPT !.gen = gen, !.seq = 0,
                             !.head = IF call.arg THEN @ ELSE [s \in Sources |-> 0],
                             !.state = IF Capturing(d) THEN "capturing" ELSE "ready"]
        /\ call.cmd = "reset"
        /\ writer' = CASE Capturing(deck) -> [writer EXCEPT !.resets = @ + 1, !.pending = TRUE]
                       [] deck.cap \in Terminal -> NoWriter
                       [] OTHER -> writer
    BY <1>1, <1>7 DEF ServeReset, Serving, Reject
  <2>2. /\ d \in DeckType /\ d.head = deck.head /\ d.playing = deck.playing /\ d.loop = deck.loop
        /\ d.set = deck.set /\ d.cap = IF deck.cap \in Terminal THEN "idle" ELSE deck.cap
    BY <1>3 DEF DeckType, Caps
  <2> HIDE DEF d
  <2>3. /\ deck'.gen = host.gen + 1 /\ deck'.seq = 0 /\ deck'.playing = deck.playing
        /\ deck'.loop = deck.loop /\ deck'.set = deck.set /\ deck'.cap = d.cap
        /\ deck'.head = IF call.arg THEN deck.head ELSE [s \in Sources |-> 0]
        /\ deck'.state = IF Capturing(d) THEN "capturing" ELSE "ready"
    BY <2>1, <2>2 DEF DeckType
  <2>4. ~call.arg => \A s \in Sources : deck'.head[s] = 0 /\ ~EndOfStream(deck', s)
    <3> SUFFICES ASSUME ~call.arg, NEW s \in Sources
                 PROVE  deck'.head[s] = 0 /\ ~EndOfStream(deck', s)
      OBVIOUS
    <3>1. deck'.head[s] = 0
      BY <2>3
    <3>2. Count[s] \in Nat /\ Count[s] # 0 /\ Count[s] # 1
      BY Counts DEF Ordinary
    <3>3. ~(0 + 1 >= Count[s])
      BY <3>2
    <3> QED
      BY <3>1, <3>3 DEF EndOfStream
  <2>5. ValidReset(host, deck', call.arg)
    BY <1>2, <2>2, <2>3, <2>4 DEF ValidReset
  <2>6. Capturing(deck') <=> Capturing(deck)
    BY <2>2, <2>3 DEF Capturing, InProgress, Terminal
  <2>7. /\ Capturing(deck) => writer'.mode = writer.mode /\ deck'.cap = deck.cap
        /\ Capturing(d) <=> Capturing(deck)
    <3>1. Capturing(deck) => deck.cap \notin Terminal
      BY DEF Capturing, InProgress, Terminal
    <3> QED
      BY <1>3, <2>1, <2>2, <2>3, <2>6, <3>1 DEF WriterType, Capturing
  <2>8. active = Following'
    BY <1>1, <1>2, <2>1, <2>6, <2>7 DEF Following
  <2>9. deck'.cap \notin {"aborted", "faulted"}
    BY <1>1, <2>2, <2>3 DEF Agreed
  <2> QED
    BY <1>1, <2>1, <2>3, <2>5, <2>6, <2>7, <2>8, <2>9 DEF Agreed, PendingInv, AckInv
<1>8. CASE ServeCaptureStart
  <2>1. /\ deck' = [deck EXCEPT !.cap = "capturing", !.state = "capturing"]
        /\ writer' = [NoWriter EXCEPT !.mode = call.arg] /\ call.cmd = "capture_start"
    BY <1>1, <1>8 DEF ServeCaptureStart, Serving, Reject
  <2>2. deck' = AdoptCapture(host, "capturing") /\ deck'.cap = "capturing" /\ deck'.state = "capturing"
    BY <1>2, <1>3, <2>1 DEF AdoptCapture, InProgress, DeckType
  <2>3. writer'.mode = call.arg /\ call.arg \in Modes
    BY <2>1 DEF NoWriter, IInv, Types, CommandTypes, ArgInv
  <2> QED
    BY <1>1, <2>1, <2>2, <2>3 DEF Agreed, PendingInv, AckInv
<1>9. CASE ServeCaptureStop
  <2> DEFINE d == [deck EXCEPT !.cap = "finalizing"]
             c == Completed(d)
  <2>1. call.cmd = "capture_stop" /\ active # NoCapture /\ active = Following /\ active.mode = "live"
    BY <1>1, <1>2, <1>9 DEF ServeCaptureStop, Serving, IInv, CallInv, Agreed
  <2>2. /\ Behind /\ Capturing(deck) /\ active.state = deck.cap /\ active.mode = writer.mode
        /\ deck.cap \in {"capturing", "finalizing"} /\ deck.state = "capturing"
        /\ writer.mode \in Modes
    BY <1>1, <2>1, Capture DEF Agreed, Capturing, InProgress
  <2>3. writer'.mode = writer.mode /\ deck' \in {deck, d, c}
    <3>1. [writer EXCEPT !.payload = TRUE].mode = writer.mode
      BY <1>3 DEF WriterType
    <3> QED
      BY <1>1, <1>9, <3>1 DEF ServeCaptureStop, Reject, RejectFaulted
  <2>4. /\ d \in DeckType /\ d.cap = "finalizing" /\ d.state = "capturing" /\ d.playing = deck.playing
        /\ d = AdoptCapture(host, "finalizing")
    BY <1>2, <1>3, <2>2 DEF DeckType, Caps, InProgress, AdoptCapture
  <2>5. /\ c \in DeckType /\ c.cap = "completed" /\ c.state = PlayOrPause(c)
        /\ c = AdoptCapture(host, "completed")
    <3>1. PlayOrPause(d) = PlayOrPause(deck) /\ PlayOrPause(d) \in {"playing", "paused"}
      BY <2>4 DEF PlayOrPause, AnyPlaying
    <3>2. c = [deck EXCEPT !.cap = "completed", !.state = PlayOrPause(deck)]
      BY <1>3, <3>1 DEF Completed, DeckType
    <3>3. c = AdoptCapture(host, "completed")
      BY <1>2, <3>2 DEF AdoptCapture, InProgress
    <3> HIDE DEF c
    <3>4. /\ c.cap = "completed" /\ c.state = PlayOrPause(deck) /\ c.playing = deck.playing
          /\ c \in DeckType
      BY <1>3, <3>1, <3>2 DEF DeckType, Caps, Terminal
    <3>5. PlayOrPause(c) = PlayOrPause(deck)
      BY <3>4 DEF PlayOrPause, AnyPlaying
    <3> QED
      BY <3>3, <3>4, <3>5
  <2> HIDE DEF d, c
  <2>6. /\ deck' \in DeckType /\ deck'.cap \in {deck.cap, "finalizing", "completed"}
        /\ deck'.state = IF deck'.cap \in InProgress THEN "capturing" ELSE PlayOrPause(deck')
        /\ deck' = AdoptCapture(host, deck'.cap)
    <3>1. CASE deck' = deck
      BY <1>2, <1>3, <2>2, <3>1 DEF InProgress, Behind
    <3>2. CASE deck' = d
      BY <2>4, <3>2 DEF InProgress
    <3>3. CASE deck' = c
      BY <2>5, <3>3 DEF InProgress
    <3> QED
      BY <2>3, <3>1, <3>2, <3>3
  <2>7. deck' = AdoptCapture(deck', deck'.cap)
    BY <2>6, FollowingTyped
  <2>8. <<active.state, deck'.cap>> \in StatusSteps[active.mode]
    BY <2>1, <2>2, <2>6 DEF StatusSteps
  <2>9. Behind'
    BY <1>1, <2>2, <2>3, <2>7, <2>8 DEF Behind
  <2>10. /\ deck'.cap \notin {"aborted", "faulted"}
         /\ Capturing(deck') => deck'.state = "capturing" /\ writer'.mode \in Modes
    BY <2>2, <2>3, <2>6 DEF Capturing, InProgress
  <2> QED
    BY <1>1, <2>1, <2>6, <2>9, <2>10 DEF Agreed, PendingInv, AckInv
<1>10. CASE ServeCaptureStatus
  <2>1. UNCHANGED <<deck, writer>> /\ call.cmd = "capture_status" /\ active # NoCapture
    BY <1>1, <1>10 DEF ServeCaptureStatus, Serving, IInv, CallInv
  <2>2. Behind
    BY <1>1, <2>1, Capture DEF Agreed, PendingInv
  <2>3. Behind' /\ deck' = AdoptCapture(host', deck'.cap)
    BY <1>1, <1>2, <2>1, <2>2 DEF Behind
  <2> QED
    BY <1>1, <2>1, <2>3 DEF Agreed, PendingInv, AckInv
<1> QED
  BY <1>4, <1>5, <1>6, <1>7, <1>8, <1>9, <1>10 DEF Serve

(* The actor then accepts what it is told, and follows.                       *)
Lands ==
    /\ UNCHANGED <<deck, writer, rejected>> /\ cause' \notin {"protocol", "ring"}
    /\ \/ Kept
       \/ /\ host' = deck
          /\ \/ Done /\ active' = Following
             \/ Further /\ call'.cmd = "reset" /\ active' = Following
             \/ Further /\ call'.cmd = "capture_status" /\ Behind'

LEMMA LandsAgree ==
  ASSUME StepInv, pc = "run", ~rejected, Lands
  PROVE  StepInv'
<1>1. /\ deck.cap \notin {"aborted", "faulted"}
      /\ Capturing(deck) => deck.state = "capturing" /\ writer.mode \in Modes
  BY DEF StepInv, Agreed
<1>2. Following' = Following
  BY DEF Lands, Following, Capturing
<1>3. CASE Kept
  BY <1>3 DEF Lands, Kept, StepInv
<1>4. CASE host' = deck /\ Done /\ active' = Following
  BY <1>1, <1>2, <1>4 DEF Lands, Done, NoCall, StepInv, Agreed, PendingInv, AckInv, Capturing
<1>5. CASE host' = deck /\ Further /\ call'.cmd = "reset" /\ active' = Following
  BY <1>1, <1>2, <1>5 DEF Lands, Further, StepInv, Agreed, PendingInv, AckInv, Capturing
<1>6. CASE host' = deck /\ Further /\ call'.cmd = "capture_status" /\ Behind'
  BY <1>1, <1>6 DEF Lands, Further, StepInv, Agreed, PendingInv, AckInv, Capturing
<1> QED
  BY <1>3, <1>4, <1>5, <1>6 DEF Lands

LEMMA ReceiveAgrees ==
  ASSUME IInv, StepInv, pc = "run", ~rejected, Receive
  PROVE  StepInv'
<1>1. /\ Agreed /\ cause \notin {"protocol", "ring"} /\ reply = "ack"
      /\ UNCHANGED <<deck, writer, rejected>> /\ call.cmd # "none"
  BY DEF StepInv, Agreed, Receive, ReceiveProcess, ReceiveSet, ReceiveTransport, ReceiveReset,
     ReceiveCaptureStart, ReceiveStatus, ReceiveError, Received, ReceiveRest
<1>2. /\ deck \in DeckType /\ host \in DeckType /\ call \in Calls /\ adopted = host.gen
      /\ active \in CaptureType \cup {NoCapture}
  BY Facts
<1>3. CASE ReceiveProcess
  <2> DEFINE queue == Split(Head(mapping.queue))
             looped == Looped(host, deck)
  <2>1. call.cmd = "process" /\ ValidProcess(host, deck)
        /\ IF active = NoCapture THEN ~Capturing(deck) ELSE Behind
    BY <1>1, <1>3 DEF ReceiveProcess, Received, Agreed, AckInv
  <2>2. BatchOf(deck)
    <3> DEFINE b == [gen |-> deck.gen, seq |-> deck.seq, slot |-> mapping.last, set |-> deck.set]
    <3>1. mapping.gen = adopted /\ mapping.queue = <<b>>
      BY <1>1, <2>1 DEF IInv, RingInv
    <3>2. b.gen = deck.gen /\ b.seq = deck.seq /\ b.slot = mapping.last
      OBVIOUS
    <3> HIDE DEF b
    <3>3. mapping.queue # <<>> /\ Head(mapping.queue) = b
      BY <3>1
    <3> QED
      BY <3>1, <3>2, <3>3 DEF BatchOf
  <2>3. /\ host' = deck /\ UNCHANGED <<active, view>>
        /\ \/ active # NoCapture /\ SendWithin("capture_status", 0, looped) /\ frames' = queue /\ Goon
           \/ active = NoCapture /\ Continue(looped, queue)
    BY <1>3, <2>1, <2>2 DEF ReceiveProcess
  <2>4. looped \in BOOLEAN
    BY DEF Looped
  <2> HIDE DEF looped, queue
  <2>5. CASE active # NoCapture /\ SendWithin("capture_status", 0, looped) /\ frames' = queue /\ Goon
    <3>1. "capture_status" \in Commands /\ 0 \in Arguments
      BY DEF Commands, Arguments
    <3>2. Further /\ call'.cmd = "capture_status" /\ cause' = cause
      BY <1>2, <2>4, <2>5, <3>1, SentWithinTyped DEF Further, Goon
    <3>3. Behind'
      BY <1>1, <2>1, <2>3, <2>5 DEF Behind
    <3>4. Lands
      BY <1>1, <2>3, <3>2, <3>3 DEF Lands
    <3> QED
      BY <3>4, LandsAgree
  <2>6. CASE active = NoCapture /\ Continue(looped, queue)
    <3>1. /\ cause' \in {cause, "caller"}
          /\ Done \/ (Further /\ call'.cmd = "reset")
      BY <1>2, <2>4, <2>6, Continues
    <3>2. active' = Following
      BY <2>1, <2>3, <2>6 DEF Following
    <3>3. Lands
      BY <1>1, <2>3, <3>1, <3>2 DEF Lands
    <3> QED
      BY <3>3, LandsAgree
  <2> QED
    BY <2>3, <2>5, <2>6
<1>4. CASE ReceiveSet \/ ReceiveTransport
  <2>1. /\ host' = deck /\ active' = active /\ active = Following /\ Answered
    BY <1>1, <1>4 DEF ReceiveSet, ReceiveTransport, Received, Agreed, AckInv
  <2>2. Lands
    BY <1>1, <2>1 DEF Answered, Idle, Goon, Done, Lands
  <2> QED
    BY <2>2, LandsAgree
<1>5. CASE ReceiveReset
  <2>1. call.cmd = "reset" /\ ValidReset(host, deck, call.arg) /\ active = Following
    BY <1>1, <1>5 DEF ReceiveReset, Received, Agreed, AckInv
  <2>2. mapping.gen = deck.gen /\ mapping.queue = <<>> /\ deck.gen > adopted
    <3>1. mapping.gen = deck.gen /\ mapping.queue = <<>>
      BY <1>1, <2>1 DEF IInv, RingInv
    <3>2. deck.gen = host.gen + 1 /\ host.gen \in Nat
      BY <1>2, <2>1 DEF ValidReset, DeckType
    <3> QED
      BY <1>2, <3>1, <3>2
  <2>3. /\ host' = deck /\ active' = active
        /\ Processed(frames) \/ Answered
    BY <1>5, <2>1, <2>2 DEF ReceiveReset
  <2>4. Done /\ cause' \in {cause, "caller"}
    BY <2>3, ProcessedEnds DEF Answered, Idle, Goon, Done
  <2>5. Lands
    BY <1>1, <2>1, <2>3, <2>4 DEF Lands
  <2> QED
    BY <2>5, LandsAgree
<1>6. CASE ReceiveCaptureStart
  <2>1. /\ call.cmd = "capture_start" /\ deck.cap = "capturing" /\ host' = AdoptCapture(host, deck.cap)
        /\ active' = [mode |-> call.arg, state |-> deck.cap] /\ Answered
    BY <1>6 DEF ReceiveCaptureStart, Received
  <2>2. deck = AdoptCapture(host, "capturing") /\ writer.mode = call.arg
    BY <1>1, <2>1 DEF Agreed, AckInv
  <2>3. host' = deck /\ active' = Following
    BY <2>1, <2>2 DEF Following, Capturing, InProgress
  <2>4. Lands
    BY <1>1, <2>1, <2>3 DEF Answered, Idle, Goon, Done, Lands
  <2> QED
    BY <2>4, LandsAgree
<1>7. CASE ReceiveStatus
  <2>1. /\ call.cmd \in {"capture_stop", "capture_status"}
        /\ Behind /\ deck = AdoptCapture(host, deck.cap)
    BY <1>1, <1>7 DEF ReceiveStatus, Received, Agreed, AckInv
  <2>2. ApplyStatus /\ host' = deck
    BY <1>7, <2>1 DEF ReceiveStatus, ApplyStatus, Behind
  <2>3. CASE deck.cap = "completed" /\ Finalize
    <3>1. /\ active' = NoCapture
          /\ AfterStatus \/ Answered \/ (Kept /\ cause' \in {"import", "artifact"})
      BY <2>3 DEF Finalize, Fail, Kept
    <3>2. active' = Following
      BY <2>3, <3>1 DEF Following, Capturing, InProgress
    <3>3. \/ cause' \in {cause, "caller"} /\ (Done \/ (Further /\ call'.cmd = "reset"))
          \/ Kept /\ cause' \in {"import", "artifact"}
      BY <1>2, <3>1, AfterStatusEnds DEF Answered, Idle, Goon, Done
    <3>4. Lands
      BY <1>1, <2>2, <3>2, <3>3 DEF Lands
    <3> QED
      BY <3>4, LandsAgree
  <2>4. CASE /\ deck.cap \in InProgress
             /\ active' = [active EXCEPT !.state = deck.cap] /\ view' = deck.cap /\ AfterStatus
    <3>1. active \in CaptureType /\ active.mode = writer.mode
      BY <1>1, <1>2, <2>1 DEF IInv, CallInv, Behind
    <3>2. active' = [mode |-> writer.mode, state |-> deck.cap]
      BY <2>4, <3>1 DEF CaptureType
    <3>3. active' = Following
      BY <2>4, <3>2 DEF Following, Capturing
    <3>4. cause' \in {cause, "caller"} /\ (Done \/ (Further /\ call'.cmd = "reset"))
      BY <1>2, <2>4, AfterStatusEnds
    <3>5. Lands
      BY <1>1, <2>2, <3>3, <3>4 DEF Lands
    <3> QED
      BY <3>5, LandsAgree
  <2>5. deck.cap \notin {"aborted", "faulted"}
    BY <1>1 DEF Agreed
  <2> QED
    BY <2>2, <2>3, <2>4, <2>5 DEF ApplyStatus
<1> QED
  BY <1>1, <1>3, <1>4, <1>5, <1>6, <1>7 DEF Receive, ReceiveError

LEMMA StepsAgree ==
  ASSUME Ordinary
  PROVE  IInv /\ StepInv /\ [Next]_vars => StepInv'
<1> SUFFICES ASSUME IInv, StepInv, [Next]_vars
             PROVE  StepInv'
  OBVIOUS
<1>1. rejected => rejected'
  <2>1. OwnSteps => UNCHANGED rejected
    BY OwnStepsDo
  <2>2. Serve => UNCHANGED rejected \/ rejected' = TRUE
    BY ServeDoes DEF IInv, Serves
  <2>3. Receive \/ GiveUp \/ ServeShutdown \/ WorkerCrash \/ EndSession \/ UNCHANGED vars
            => UNCHANGED rejected
    BY EndSessionDoes DEF Receive, ReceiveProcess, ReceiveSet, ReceiveTransport, ReceiveReset, ReceiveCaptureStart,
       ReceiveStatus, ReceiveError, ReceiveRest, GiveUp, ServeShutdown, WorkerCrash, vars
  <2> QED
    BY <2>1, <2>2, <2>3 DEF Next, OwnSteps
<1>2. CASE rejected'
  BY <1>2 DEF StepInv
<1>3. CASE ~rejected'
  <2>1. ~rejected /\ cause \notin {"protocol", "ring"}
    BY <1>1, <1>3 DEF StepInv
  <2>2. CASE OwnSteps
    <3>1. UNCHANGED <<host, active, deck, writer, rejected>>
      BY <2>2, OwnStepsDo
    <3>2. CASE Sends
      <4>1. /\ pc = "run" /\ call.cmd = "none" /\ reply = "none" /\ Agreed
        BY <2>1, <3>2 DEF Sends, AtRest, IInv, CallInv, StepInv
      <4>2. host = deck /\ active = Following
        BY <4>1 DEF Agreed, PendingInv
      <4>3. Following' = Following
        BY <3>1 DEF Following, Capturing
      <4> QED
        BY <2>1, <3>1, <3>2, <4>1, <4>2, <4>3
           DEF Ordinary, Sends, StepInv, Agreed, PendingInv, AckInv, Capturing
    <3>3. CASE Rests
      <4>1. /\ UNCHANGED <<call, reply>>
            /\ \/ UNCHANGED <<pc, cause>>
               \/ pc' = "ending" /\ cause' = "shutdown"
        BY <3>3 DEF Rests
      <4> QED
        BY <2>1, <3>1, <4>1 DEF StepInv, Agreed, PendingInv, AckInv, Behind, Following, Capturing
    <3> QED
      BY <2>2, <3>2, <3>3, OwnStepsDo
  <2>3. CASE Serve
    <3>1. UNCHANGED <<pc, cause>>
      BY <2>3, ServeDoes DEF IInv, Serves, actor
    <3> QED
      BY <1>3, <2>1, <2>3, <3>1, ServeAgrees DEF StepInv
  <2>4. CASE Receive
    <3>1. pc = "run"
      BY <2>4 DEF Receive, ReceiveProcess, ReceiveSet, ReceiveTransport, ReceiveReset,
         ReceiveCaptureStart, ReceiveStatus, ReceiveError, Received
    <3> QED
      BY <2>1, <2>4, <3>1, ReceiveAgrees
  <2>5. CASE GiveUp
    <3>1. pc' = "ending" /\ cause' \in {"timeout", "worker"}
      BY <2>5 DEF GiveUp, Refuse, Fail
    <3> QED
      BY <3>1 DEF StepInv
  <2>6. CASE ServeShutdown \/ EndSession
    <3>1. pc' # "run" /\ cause' = cause
      BY <2>6, EndSessionDoes DEF ServeShutdown, actor
    <3> QED
      BY <2>1, <3>1 DEF StepInv
  <2>7. CASE WorkerCrash \/ UNCHANGED vars
    <3>1. UNCHANGED <<host, active, pc, cause, call, reply, deck, writer, rejected>>
      BY <2>7 DEF WorkerCrash, vars, actor, worker
    <3> QED
      BY <3>1 DEF StepInv, Agreed, PendingInv, AckInv, Behind, Following, Capturing
  <2> QED
    BY <2>2, <2>3, <2>4, <2>5, <2>6, <2>7 DEF Next, OwnSteps
<1> QED
  BY <1>2, <1>3

LEMMA StartsAgreed == Init => StepInv
<1> SUFFICES ASSUME Init
             PROVE  StepInv
  OBVIOUS
<1>1. deck.cap = "idle" /\ deck = host
  BY DEF Init, Loaded
<1>2. /\ active = NoCapture /\ call.cmd = "none" /\ reply = "none" /\ cause = "none"
  BY DEF Init, NoCall
<1> QED
  BY <1>1, <1>2 DEF StepInv, Agreed, PendingInv, AckInv, Following, Capturing, InProgress

LEMMA AgreedAlways ==
  ASSUME Ordinary
  PROVE  Spec => []StepInv
<1>1. Init => StepInv
  BY StartsAgreed
<1>2. IInv /\ StepInv /\ [Next]_vars => StepInv'
  BY StepsAgree
<1> QED
  BY <1>1, <1>2, Holds, PTL DEF Spec

\* Between two commands the actor's status is the worker's session to the last field, and
\* it follows a capture exactly as long as the worker runs one, in every session in which
\* the worker has refused nothing; transport has to wait for the end of a capture, and a
\* source has to have two slots.
THEOREM StepsTogether ==
  ASSUME Ordinary
  PROVE  Spec => []InStep
<1>1. IInv /\ StepInv => InStep
  BY DEF IInv, CallInv, AtRest, StepInv, Agreed, PendingInv, Following, InStep
<1>2. Spec => []StepInv
  BY AgreedAlways
<1> QED
  BY <1>1, <1>2, Holds, PTL

\* The validators demand of each answer what an obedient worker does, so that a session is
\* never ended as a protocol fault or a ring fault of such a worker, under the same two
\* conditions; without either of them it is.
THEOREM NeverAccused ==
  ASSUME Ordinary
  PROVE  Spec => []NeverMisjudged
<1>1. StepInv => NeverMisjudged
  BY DEF StepInv, NeverMisjudged
<1>2. Spec => []StepInv
  BY AgreedAlways
<1> QED
  BY <1>1, <1>2, PTL

-----------------------------------------------------------------------------
(* Seams.  A wrapped source gets its reset if the decoder and the import refuse nothing,  *)
(* the capture has a reset event left for every generation, and a wrap can be seen: the   *)
(* playhead of a single slot does not move.                                               *)
Unhindered ==
    /\ "decoder" \notin Faults /\ "import" \notin Faults
    /\ MaxGeneration <= MaxResets + 1 /\ \A s \in Sources : Count[s] # 1

(* The actor's playheads are the worker's, but for what it is still to hear of.           *)
CaptureCalls == {"capture_start", "capture_stop", "capture_status"}
Same(h, d) == h.gen = d.gen /\ h.head = d.head /\ h.playing = d.playing /\ h.loop = d.loop
Abreast == reply # "ack" \/ call.cmd \in CaptureCalls => Same(host, deck)

(* A decode has wrapped a source and the reset it owes is to come: the actor has the      *)
(* reply to look at, asks for the status of the capture first, or has sent the reset.     *)
Owed ==
    \/ call.cmd = "process" /\ reply = "ack" /\ Looped(host, deck)
    \/ call.within /\ call.cmd = "capture_status" /\ call.looped /\ reply \in {"none", "ack"}
    \/ call.within /\ call.cmd = "reset" /\ reply = "none"

SeamInv ==
    /\ seam \in {"none", "open"}
    /\ call.cmd = "process" => host.gen < MaxGeneration /\ (reply = "none" => seam = "none")
    /\ call.within => host.gen < MaxGeneration
    /\ seam = "open" /\ pc = "run" => Owed
    /\ writer.resets < deck.gen
    /\ Abreast

LEMMA LoopedSame ==
  ASSUME NEW h, NEW d, NEW c, Same(h, d)
  PROVE  Looped(h, c) <=> Looped(d, c)
  BY DEF Same, Looped

(* What a request starts with.                                                            *)
LEMMA Requested ==
  ASSUME IInv, OwnSteps, Sends
  PROVE  /\ call'.cmd = "process" => host.gen < MaxGeneration
         /\ call'.cmd = "reset" => ~Capturing(host)
<1>1. AtRest /\ call.cmd = "none" /\ call'.cmd # "none"
  BY DEF Sends, AtRest
<1>2. CASE AutoProcess
  BY <1>2 DEF AutoProcess, Send, InBounds, NoCall
<1>3. CASE PresentFrame \/ StopRecording \/ Shutdown \/ StartRecording
  BY <1>1, <1>3 DEF PresentFrame, StopRecording, Shutdown, StartRecording
<1>4. CASE Tick
  BY <1>1, <1>4 DEF Tick, Ask, Send, InBounds, NoCall
<1>5. ASSUME NEW set, SettingsSet(set) PROVE call'.cmd = "set"
  BY <1>5 DEF SettingsSet, Ask, Send, NoCall
<1>6. ASSUME NEW playing, NEW loop, TransportSet(playing, loop) PROVE call'.cmd = "transport"
  BY <1>6 DEF TransportSet, Ask, Send, NoCall
<1>7. ASSUME NEW preserve, ResetDeck(preserve) PROVE call'.cmd = "reset" /\ ~Capturing(host)
  BY <1>7 DEF ResetDeck, Ask, Send, NoCall, Capturing, InProgress, Terminal
<1>8. ASSUME NEW mode, StartCapture(mode) PROVE call'.cmd = "capture_start"
  BY <1>8 DEF StartCapture, Ask, Send, NoCall
<1>9. CASE StopCapture
  BY <1>9 DEF StopCapture, Ask, Send, NoCall
<1>10. CASE AskStatus
  BY <1>10 DEF AskStatus, Ask, Send, NoCall
<1> QED
  BY <1>2, <1>3, <1>4, <1>5, <1>6, <1>7, <1>8, <1>9, <1>10 DEF OwnSteps, UserRequest

(* What the actor makes of a reply: it ends or drops the command, or goes on to what the  *)
(* wrap asks for.                                                                         *)
Heard ==
    /\ UNCHANGED <<deck, writer, seam>> /\ pc = "run" /\ reply # "none" /\ call.cmd # "none"
    /\ \/ Kept /\ Same(host', host)
       \/ /\ reply = "ack" /\ call.cmd = "process" /\ host' = deck /\ deck.gen = host.gen
          /\ \/ Done /\ ~Looped(host, deck)
             \/ /\ Further
                /\ call'.cmd = "capture_status" /\ Looped(host, deck) => call'.looped
       \/ reply = "ack" /\ call.cmd \in {"set", "transport", "reset"} /\ host' = deck /\ Done
       \/ /\ reply = "ack" /\ call.cmd \in CaptureCalls /\ Same(host', host) /\ host'.cap = deck.cap
          /\ \/ Done /\ (call.cmd = "capture_status" /\ call.within => ~call.looped)
             \/ Further /\ call.within /\ call'.cmd = "reset"
       \/ reply \in {"error", "fatal"} /\ host' = host /\ Done

LEMMA AdoptSame ==
  ASSUME NEW d, InRange(d), NEW cap \in Caps
  PROVE  Same(AdoptCapture(d, cap), d) /\ AdoptCapture(d, cap).cap = cap
<1> DEFINE t == IF cap \in InProgress THEN "capturing" ELSE PlayOrPause(d)
<1>1. AdoptCapture(d, cap) = [d EXCEPT !.cap = cap, !.state = t] /\ d \in DeckType
  BY DEF AdoptCapture, InRange
<1> HIDE DEF t
<1> QED
  BY <1>1 DEF Same, DeckType

LEMMA HeardStatus ==
  ASSUME "import" \notin Faults, IInv, ReceiveStatus
  PROVE  Heard
<1>1. /\ reply = "ack" /\ call.cmd \in {"capture_stop", "capture_status"} /\ pc = "run"
      /\ UNCHANGED <<deck, writer, seam>>
  BY DEF ReceiveStatus, Received, ReceiveRest
<1>2. call \in Calls /\ deck.cap \in Caps /\ InRange(host) /\ "faulted" \in Caps
      /\ (call.within => call.cmd = "capture_status")
  BY <1>1, Facts DEF DeckType, Caps, Terminal
<1>3. CASE Kept /\ \E cap \in Caps : host' = AdoptCapture(host, cap)
  BY <1>1, <1>2, <1>3, AdoptSame DEF Heard
<1>4. CASE AfterStatus /\ host' = AdoptCapture(host, deck.cap)
  <2>1. Same(host', host) /\ host'.cap = deck.cap
    BY <1>2, <1>4, AdoptSame
  <2>2. \/ Done /\ (call.cmd = "capture_status" /\ call.within => ~call.looped)
        \/ Further /\ call.within /\ call'.cmd = "reset"
    <3>1. CASE call.within /\ Continue(call.looped, frames)
      <4>1. call.looped \in BOOLEAN
        BY <1>2 DEF Calls
      <4> QED
        BY <1>2, <3>1, <4>1, Continues
    <3>2. CASE ~call.within /\ KeepFrames /\ Answered
      BY <3>2 DEF Answered, Idle, Goon, Done
    <3> QED
      BY <1>4, <3>1, <3>2 DEF AfterStatus
  <2> QED
    BY <1>1, <2>1, <2>2 DEF Heard, CaptureCalls
<1>5. \/ AfterStatus /\ host' = AdoptCapture(host, deck.cap)
      \/ Kept /\ \E cap \in Caps : host' = AdoptCapture(host, cap)
  <2>1. CASE ApplyStatus
    BY <1>2, <2>1 DEF ApplyStatus, Finalize, Fail, Kept
  <2>2. CASE host' = AdoptCapture(host, "faulted") /\ Fail("protocol")
    BY <1>2, <2>2 DEF Fail, Kept
  <2> QED
    BY <2>1, <2>2 DEF ReceiveStatus
<1> QED
  BY <1>3, <1>4, <1>5

LEMMA HeardProcess ==
  ASSUME IInv, ReceiveProcess
  PROVE  Heard
<1>1. /\ reply = "ack" /\ call.cmd = "process" /\ pc = "run"
      /\ UNCHANGED <<deck, writer, seam>>
  BY DEF ReceiveProcess, Received, ReceiveRest
<1>2. CASE Refuse("protocol") \/ Refuse("ring")
  BY <1>1, <1>2 DEF Refuse, Fail, KeepStatus, Kept, Heard, Same
<1> DEFINE queue == Split(Head(mapping.queue))
           looped == Looped(host, deck)
<1>3. CASE /\ ValidProcess(host, deck) /\ host' = deck
           /\ \/ SendWithin("capture_status", 0, looped) /\ Goon
              \/ Continue(looped, queue)
  <2>1. looped \in BOOLEAN /\ call \in Calls /\ deck.gen = host.gen
    BY <1>1, <1>3, Facts DEF Looped, ValidProcess
  <2>2. CASE SendWithin("capture_status", 0, looped) /\ Goon
    <3>1. /\ call' = [call EXCEPT !.cmd = "capture_status", !.arg = 0, !.looped = looped,
                                  !.within = TRUE]
          /\ reply' = "none" /\ UNCHANGED <<pc, cause>>
      BY <2>2 DEF SendWithin, Goon
    <3> HIDE DEF looped
    <3>2. /\ call' \in Calls /\ call'.within /\ call'.by = call.by /\ call'.cmd = "capture_status"
          /\ call'.arg = 0 /\ call'.looped = looped
      BY <2>1, <3>1 DEF Calls, Commands, Arguments
    <3>3. Further
      BY <3>1, <3>2 DEF Further
    <3> QED
      BY <1>1, <1>3, <2>1, <3>2, <3>3 DEF Heard, looped
  <2>3. CASE Continue(looped, queue)
    <3>1. \/ Further /\ call'.cmd = "reset"
          \/ ~looped /\ Done
      BY <2>1, <2>3, Continues
    <3> QED
      BY <1>1, <1>3, <2>1, <3>1 DEF Heard
  <2> QED
    BY <1>3, <2>2, <2>3
<1> QED
  BY <1>2, <1>3 DEF ReceiveProcess

LEMMA Hears ==
  ASSUME "import" \notin Faults, IInv, Receive
  PROVE  Heard
<1>1. CASE ReceiveSet \/ ReceiveTransport \/ ReceiveReset
  <2>1. /\ reply = "ack" /\ call.cmd \in {"set", "transport", "reset"} /\ pc = "run"
        /\ UNCHANGED <<deck, writer, seam>>
    BY <1>1 DEF ReceiveSet, ReceiveTransport, ReceiveReset, Received, ReceiveRest
  <2>2. CASE Refuse("protocol") \/ Refuse("ring")
    BY <2>1, <2>2 DEF Refuse, Fail, KeepStatus, Kept, Heard, Same
  <2>3. CASE Done /\ host' = deck
    BY <2>1, <2>3 DEF Heard
  <2> QED
    BY <1>1, <2>2, <2>3, ProcessedEnds
       DEF ReceiveSet, ReceiveTransport, ReceiveReset, Answered, Idle, Goon, Done
<1>2. CASE ReceiveCaptureStart
  <2>1. /\ reply = "ack" /\ call.cmd = "capture_start" /\ pc = "run"
        /\ UNCHANGED <<deck, writer, seam>> /\ host' = AdoptCapture(host, deck.cap) /\ Answered
    BY <1>2 DEF ReceiveCaptureStart, Received, ReceiveRest
  <2>2. deck.cap \in Caps /\ InRange(host)
    BY <2>1, Facts DEF DeckType
  <2>3. Same(host', host) /\ host'.cap = deck.cap
    BY <2>1, <2>2, AdoptSame
  <2> QED
    BY <2>1, <2>3 DEF Heard, CaptureCalls, Answered, Idle, Goon, Done
<1>3. CASE ReceiveError
  <2>1. /\ reply \in {"error", "fatal"} /\ pc = "run" /\ host' = host
        /\ UNCHANGED <<deck, writer, seam>>
        /\ Fail("remote") \/ Answered
    BY <1>3 DEF ReceiveError, ReceiveRest, KeepStatus
  <2>2. call.cmd # "none"
    BY <2>1 DEF IInv, CallInv
  <2> QED
    BY <2>1, <2>2 DEF Fail, Kept, Heard, Same, Answered, Idle, Goon, Done
<1> QED
  BY <1>1, <1>2, <1>3, HeardStatus, HeardProcess DEF Receive

(* What the worker makes of a process: the playheads move if it is acknowledged, and a    *)
(* wrap is one the actor sees.                                                            *)
Decodes ==
    /\ deck'.gen = deck.gen /\ writer'.resets = writer.resets
    /\ reply' # "ack" => UNCHANGED seam /\ Same(deck', deck)
    /\ reply' = "ack" => seam' \in {"none", "open"} /\ (seam' = "open" => Looped(deck, deck'))

LEMMA WrapLoops ==
  ASSUME NEW p, InRange(p), NEW d, InRange(d), Same(d, p), Wraps(d), \A s \in Sources : Count[s] # 1
  PROVE  Looped(p, Advance(d))
<1>1. PICK s \in Sources : d.playing[s] /\ d.loop[s] /\ d.head[s] + 1 >= Count[s]
  BY DEF Wraps
<1>2. Advance(d).head[s] = 0
  <2>1. Advance(d).head = Heads(d) /\ d.playing[s] \in BOOLEAN
    BY AdvanceIs DEF InRange, DeckType
  <2> QED
    BY <1>1, <2>1 DEF Heads, Moved
<1>3. p.head[s] \in Nat /\ p.head[s] # 0
  <2>1. p.head[s] \in Nat /\ Count[s] \in Nat /\ Count[s] # 0 /\ Count[s] # 1 /\ p.head[s] + 1 >= Count[s]
    BY <1>1, Counts DEF InRange, DeckType, Same
  <2> QED
    BY <2>1
<1> QED
  BY <1>1, <1>2, <1>3 DEF Looped, Same

LEMMA DecodeDecodes ==
  ASSUME \A s \in Sources : Count[s] # 1, InRange(deck), NEW d, InRange(d), Same(d, deck),
         NEW w, w.resets = writer.resets, seam = "none", Decode(d, w)
  PROVE  Decodes
<1>1. CASE Reject /\ deck' = d /\ UNCHANGED seam
  BY <1>1 DEF Reject, Decode, Decodes, Same
<1>2. CASE Ack /\ deck' = Advance(d) /\ seam' = IF Wraps(d) THEN "open" ELSE "none"
  <2>1. Advance(d).gen = d.gen
    BY AdvanceIs DEF InRange
  <2>2. Wraps(d) => Looped(deck, Advance(d))
    BY WrapLoops
  <2>3. writer' = w /\ reply' = "ack"
    BY <1>2 DEF Decode, Ack
  <2>4. seam' \in {"none", "open"} /\ (seam' = "open" => Wraps(d))
    BY <1>2
  <2> QED
    BY <1>2, <2>1, <2>2, <2>3, <2>4 DEF Decodes, Same
<1> QED
  BY <1>1, <1>2 DEF Decode

LEMMA ProcessDecodes ==
  ASSUME Unhindered, WorkerTypes, ServeProcess, seam = "none"
  PROVE  Decodes
<1> DEFINE d == [deck EXCEPT !.seq = @ + 1]
           w == Staged(d)
           c == Completed(d)
           full == [w EXCEPT !.payload = TRUE]
<1>1. /\ InRange(deck) /\ deck \in DeckType /\ writer \in WriterType /\ InRange(d)
      /\ Same(d, deck) /\ d \in DeckType
  BY SteppedTyped DEF WorkerTypes, InRange, DeckType, Same
<1>2. w.resets = writer.resets /\ full.resets = writer.resets
  BY <1>1 DEF Staged, WriterType
<1>3. InRange(c) /\ Same(c, d)
  <2>1. "completed" \in Caps
    BY DEF Caps, Terminal
  <2> HIDE DEF d
  <2>2. InRange(c)
    BY <1>1, <2>1, StateTyped DEF Completed
  <2> QED
    BY <1>1, <2>2 DEF Completed, Same, DeckType
<1>4. Same(Faulted(d), d)
  <2> HIDE DEF d
  <2> QED
    BY <1>1 DEF Faulted, Same, DeckType
<1> HIDE DEF d, w, c, full
<1>5. Same(c, deck) /\ Same(Faulted(d), deck)
  BY <1>1, <1>3, <1>4 DEF Same
<1>6. CASE Reject /\ deck' = d /\ UNCHANGED <<writer, seam>>
  BY <1>1, <1>6 DEF Reject, Decodes, Same
<1>7. ASSUME NEW v \in {writer, w}, RejectFaulted(d, v), UNCHANGED seam PROVE Decodes
  <2>1. v.resets = writer.resets /\ v \in [mode : {v.mode}, slots : {v.slots}, resets : {v.resets},
            pending : {v.pending}, payload : {v.payload}, tape : {v.tape}]
    BY <1>1, <1>2, <1>7 DEF w, Staged, WriterType
  <2>2. [v EXCEPT !.payload = FALSE, !.pending = FALSE].resets = v.resets
    BY <2>1
  <2> QED
    BY <1>1, <1>5, <1>7, <2>1, <2>2 DEF RejectFaulted, Reject, Decodes, Same
<1>8. CASE Decode(d, writer) \/ Decode(d, w) \/ Decode(c, full)
  BY <1>1, <1>2, <1>3, <1>5, <1>8, DecodeDecodes DEF Unhindered
<1> QED
  BY <1>6, <1>7, <1>8 DEF ServeProcess, d, w, c, full

(* A reset that a wrap asks for is within the limit of the capture.                       *)
LEMMA ResetSeam ==
  ASSUME Unhindered, Types, SeamInv, ServeReset
  PROVE  /\ writer'.resets < deck'.gen
         /\ \/ reply' = "ack" /\ seam' = "none"
            \/ reply' # "ack" /\ ~call.within /\ UNCHANGED <<deck, seam>>
<1> DEFINE gen == host.gen + 1
           d == IF deck.cap \in Terminal THEN [deck EXCEPT !.cap = "idle"] ELSE deck
           w == CASE Capturing(deck) -> [writer EXCEPT !.resets = @ + 1, !.pending = TRUE]
                  [] deck.cap \in Terminal -> NoWriter
                  [] OTHER -> writer
           refused == gen <= deck.gen \/ (Capturing(deck) /\ writer.resets >= MaxResets)
           e == [d EXCEPT !.gen = gen, !.seq = 0,
                    !.head = IF call.arg THEN @ ELSE [s \in Sources |-> 0],
                    !.state = IF Capturing(d) THEN "capturing" ELSE "ready"]
<1>1. /\ host.gen = deck.gen /\ reply = "none" /\ deck.gen \in Nat /\ deck \in DeckType
      /\ writer \in WriterType /\ writer.resets \in Nat /\ writer.resets < deck.gen
      /\ MaxResets \in Nat /\ MaxGeneration \in Nat
  BY CaptureAssumption, DeckBoundsAssumption
     DEF ServeReset, Serving, SeamInv, Abreast, Same, Types, WorkerTypes, InRange, DeckType, WriterType
<1>2. call.within => ~refused
  BY <1>1 DEF SeamInv, Unhindered
<1>3. w.resets \in {0, writer.resets, writer.resets + 1}
  BY <1>1 DEF WriterType, NoWriter
<1>4. e.gen = gen
  BY <1>1 DEF DeckType
<1>5. CASE refused /\ Reject /\ UNCHANGED <<deck, writer, mapping, seam>>
  BY <1>1, <1>2, <1>5 DEF Reject
<1>6. CASE Ack /\ writer' = w /\ deck' = e /\ seam' = IF seam = "open" THEN "none" ELSE seam
  <2>1. w.resets < gen
    BY <1>1, <1>3
  <2>2. seam' = "none" /\ reply' = "ack"
    BY <1>6 DEF SeamInv, Ack
  <2> HIDE DEF w, e, gen
  <2> QED
    BY <1>4, <1>6, <2>1, <2>2
<1> QED
  BY <1>5, <1>6 DEF ServeReset, Unhindered

LEMMA CaptureServed ==
  ASSUME Types, ServeCaptureStart \/ ServeCaptureStop \/ ServeCaptureStatus
  PROVE  Same(deck', deck) /\ writer'.resets \in {0, writer.resets} /\ UNCHANGED seam
<1>1. deck \in DeckType /\ writer \in WriterType
  BY DEF Types, WorkerTypes, InRange
<1>2. CASE ServeCaptureStart
  BY <1>1, <1>2 DEF ServeCaptureStart, NoWriter, Same, DeckType, WriterType
<1>3. CASE ServeCaptureStop
  <2> DEFINE d == [deck EXCEPT !.cap = "finalizing"]
  <2>1. d \in [state : {deck.state}, gen : {deck.gen}, seq : {deck.seq}, set : {deck.set},
               cap : {d.cap}, loop : {deck.loop}, playing : {deck.playing}, head : {deck.head}]
    BY <1>1 DEF DeckType
  <2> HIDE DEF d
  <2>2. Same(d, deck) /\ Same(Completed(d), deck) /\ Same(Faulted(d), deck)
    BY <2>1 DEF Same, Completed, Faulted
  <2>3. /\ [writer EXCEPT !.payload = TRUE].resets = writer.resets
        /\ [writer EXCEPT !.payload = FALSE, !.pending = FALSE].resets = writer.resets
    BY <1>1 DEF WriterType
  <2> QED
    BY <1>3, <2>2, <2>3 DEF ServeCaptureStop, RejectFaulted, Same, d
<1>4. CASE ServeCaptureStatus
  BY <1>4 DEF ServeCaptureStatus, Same
<1> QED
  BY <1>2, <1>3, <1>4

LEMMA ServeSeams ==
  ASSUME Unhindered, IInv, SeamInv, Serve
  PROVE  SeamInv'
<1>1. /\ UNCHANGED <<host, pc, call>> /\ reply = "none" /\ call.cmd # "none" /\ reply' # "none"
      /\ Types /\ WorkerTypes /\ Same(host, deck) /\ deck.gen \in Nat /\ writer.resets \in Nat
      /\ writer.resets < deck.gen
  <2>1. Serves /\ Types /\ WorkerTypes
    BY ServeDoes DEF IInv, Types
  <2>2. deck.gen \in Nat /\ writer.resets \in Nat
    BY <2>1 DEF WorkerTypes, InRange, DeckType, WriterType
  <2>3. UNCHANGED <<host, pc, call>> /\ reply = "none" /\ call.cmd # "none" /\ reply' # "none"
    BY <2>1 DEF Serves, actor
  <2> QED
    BY <2>1, <2>2, <2>3 DEF SeamInv, Abreast
<1>2. CASE ServeProcess
  <2>1. call.cmd = "process" /\ seam = "none"
    BY <1>1, <1>2 DEF ServeProcess, Serving, SeamInv
  <2>2. Decodes
    BY <1>1, <1>2, <2>1, ProcessDecodes
  <2>3. seam' = "open" => reply' = "ack" /\ Looped(host', deck')
    <3>1. Looped(host, deck') <=> Looped(deck, deck')
      BY <1>1, LoopedSame
    <3> QED
      BY <1>1, <2>1, <2>2, <3>1 DEF Decodes
  <2>4. Abreast'
    BY <1>1, <2>1, <2>2 DEF Decodes, Abreast, Same, CaptureCalls
  <2> QED
    BY <1>1, <2>1, <2>2, <2>3, <2>4 DEF Decodes, SeamInv, Owed
<1>3. CASE ServeSet \/ ServeTransport
  <2>1. call.cmd \in {"set", "transport"} /\ UNCHANGED <<writer, seam>> /\ reply' = "ack"
    BY <1>3 DEF ServeSet, ServeTransport, Serving, Ack
  <2>2. deck'.gen = deck.gen
    <3> DEFINE d == [deck EXCEPT !.playing = call.arg.playing, !.loop = call.arg.loop]
    <3>1. /\ d.gen = deck.gen
          /\ d \in [state : {deck.state}, gen : {deck.gen}, seq : {deck.seq}, set : {deck.set},
                    cap : {deck.cap}, loop : {d.loop}, playing : {d.playing}, head : {deck.head}]
      BY <1>1 DEF WorkerTypes, InRange, DeckType
    <3>2. [deck EXCEPT !.set = call.arg].gen = deck.gen
      BY <1>1 DEF WorkerTypes, InRange, DeckType
    <3> HIDE DEF d
    <3>3. [d EXCEPT !.state = PlayOrPause(d)].gen = d.gen
      BY <3>1
    <3> QED
      BY <1>3, <3>1, <3>2, <3>3 DEF ServeSet, ServeTransport, d
  <2> QED
    BY <1>1, <2>1, <2>2 DEF SeamInv, Owed, Abreast, CaptureCalls
<1>4. CASE ServeReset
  <2>1. call.cmd = "reset"
    BY <1>4 DEF ServeReset, Serving
  <2> QED
    BY <1>1, <1>4, <2>1, ResetSeam DEF SeamInv, Owed, Abreast, CaptureCalls
<1>5. CASE ServeCaptureStart \/ ServeCaptureStop \/ ServeCaptureStatus
  <2>1. /\ Same(deck', deck) /\ writer'.resets \in {0, writer.resets} /\ UNCHANGED seam
        /\ call.cmd \in CaptureCalls
    BY <1>1, <1>5, CaptureServed
       DEF ServeCaptureStart, ServeCaptureStop, ServeCaptureStatus, Serving, CaptureCalls
  <2>2. call.cmd = "capture_status" => reply' = "ack"
    BY <1>5 DEF ServeCaptureStart, ServeCaptureStop, ServeCaptureStatus, Serving, Ack
  <2>3. Abreast' /\ writer'.resets < deck'.gen
    BY <1>1, <2>1 DEF Abreast, Same
  <2> QED
    BY <1>1, <2>1, <2>2, <2>3 DEF SeamInv, Owed, CaptureCalls
<1> QED
  BY <1>2, <1>3, <1>4, <1>5 DEF Serve

LEMMA ReceiveSeams ==
  ASSUME Unhindered, IInv, SeamInv, Receive
  PROVE  SeamInv'
<1>1. Heard
  BY Hears DEF Unhindered
<1>2. /\ UNCHANGED <<deck, writer, seam>> /\ pc = "run" /\ reply # "none" /\ call.cmd # "none"
      /\ writer'.resets < deck'.gen /\ seam \in {"none", "open"}
  BY <1>1 DEF Heard, SeamInv
<1>3. CASE Kept /\ Same(host', host)
  BY <1>2, <1>3 DEF Kept, Same, SeamInv, Abreast
<1>4. CASE Done /\ Same(host', deck) /\ seam = "none"
  BY <1>2, <1>4 DEF Done, NoCall, SeamInv, Abreast
<1>5. CASE /\ Further /\ Same(host', deck) /\ host'.gen = host.gen /\ host.gen < MaxGeneration
           /\ seam = "open" /\ call'.cmd = "capture_status" => call'.looped
  BY <1>2, <1>5 DEF Further, SeamInv, Abreast, Owed
<1>6. seam = "open" => Owed
  BY <1>2 DEF SeamInv
<1>7. CASE /\ reply = "ack" /\ call.cmd = "process" /\ host' = deck /\ deck.gen = host.gen
           /\ \/ Done /\ ~Looped(host, deck)
              \/ /\ Further
                 /\ call'.cmd = "capture_status" /\ Looped(host, deck) => call'.looped
  <2>1. Same(host', deck) /\ host.gen < MaxGeneration
    BY <1>7 DEF Same, SeamInv
  <2>2. seam = "open" => Looped(host, deck)
    BY <1>6, <1>7 DEF Owed
  <2> QED
    BY <1>2, <1>4, <1>5, <1>7, <2>1, <2>2
<1>8. CASE reply = "ack" /\ call.cmd \in {"set", "transport", "reset"} /\ host' = deck /\ Done
  BY <1>2, <1>4, <1>6, <1>8 DEF Owed, Same
<1>9. CASE /\ reply = "ack" /\ call.cmd \in CaptureCalls /\ Same(host', host)
           /\ \/ Done /\ (call.cmd = "capture_status" /\ call.within => ~call.looped)
              \/ Further /\ call.within /\ call'.cmd = "reset"
  <2>1. Same(host', deck)
    BY <1>9 DEF SeamInv, Abreast, Same
  <2>2. CASE Done /\ (call.cmd = "capture_status" /\ call.within => ~call.looped)
    BY <1>2, <1>4, <1>6, <1>9, <2>1, <2>2 DEF Owed, CaptureCalls
  <2>3. CASE Further /\ call.within /\ call'.cmd = "reset"
    BY <1>5, <1>9, <2>1, <2>3 DEF SeamInv, Same
  <2> QED
    BY <1>9, <2>2, <2>3
<1>10. CASE reply \in {"error", "fatal"} /\ host' = host /\ Done
  <2>1. Same(host', deck)
    BY <1>10 DEF SeamInv, Abreast
  <2> QED
    BY <1>2, <1>4, <1>6, <1>10, <2>1 DEF Owed
<1> QED
  BY <1>1, <1>3, <1>7, <1>8, <1>9, <1>10 DEF Heard

LEMMA SeamInductive ==
  ASSUME Unhindered
  PROVE  IInv /\ SeamInv /\ [Next]_vars => SeamInv'
<1> SUFFICES ASSUME IInv, SeamInv, [Next]_vars PROVE SeamInv'
  OBVIOUS
<1>1. CASE OwnSteps
  <2>1. UNCHANGED <<host, deck, writer, seam>>
    BY <1>1, OwnStepsDo
  <2>2. CASE Sends
    <3>1. /\ reply = "none" /\ ~call.within /\ call.cmd = "none" /\ pc = "run" /\ reply' = "none"
          /\ ~call'.within
      BY <2>2 DEF Sends, AtRest, IInv, CallInv
    <3>2. seam = "none" /\ Same(host, deck)
      BY <3>1 DEF SeamInv, Owed, Abreast
    <3> QED
      BY <1>1, <2>1, <2>2, <3>1, <3>2, Requested DEF SeamInv, Abreast
  <2>3. CASE Rests
    <3>1. UNCHANGED <<call, reply>> /\ (pc' = "run" => pc = "run")
      BY <2>3 DEF Rests
    <3> QED
      BY <2>1, <3>1 DEF SeamInv, Owed, Abreast
  <2> QED
    BY <1>1, <2>2, <2>3, OwnStepsDo
<1>2. CASE GiveUp
  BY <1>2 DEF GiveUp, Refuse, Fail, KeepStatus, ReceiveRest, SeamInv, Abreast
<1>3. CASE ServeShutdown \/ WorkerCrash
  <2>1. /\ UNCHANGED <<host, pc, call, reply, writer, seam>>
        /\ Same(deck', deck) /\ (pc = "run" => UNCHANGED deck)
    BY <1>3 DEF ServeShutdown, WorkerCrash, actor, Same, IInv, Types, WorkerTypes, InRange, DeckType
  <2> QED
    BY <2>1 DEF SeamInv, Owed, Abreast, Same
<1>4. CASE EndSession
  <2>1. /\ UNCHANGED <<deck, writer, seam, call, reply>> /\ pc # "run" /\ pc' # "run"
        /\ host' = host \/ host' = AdoptCapture(host, "aborted")
    BY <1>4, EndSessionDoes
  <2>2. Same(host', host)
    <3>1. InRange(host) /\ "aborted" \in Caps
      BY DEF IInv, Types, ActorTypes, Caps, Terminal
    <3> QED
      BY <2>1, <3>1, AdoptSame DEF Same
  <2> QED
    BY <2>1, <2>2 DEF SeamInv, Abreast, Same
<1>5. CASE UNCHANGED vars
  BY <1>5 DEF vars, actor, worker, SeamInv, Owed, Abreast
<1> QED
  BY <1>1, <1>2, <1>3, <1>4, <1>5, ServeSeams, ReceiveSeams DEF Next, OwnSteps

LEMMA SeamInit == Init => SeamInv
  BY DEF Init, Loaded, NoCall, NoWriter, SeamInv, Abreast, Same

\* No source is decoded past its wrap before a reset has closed the seam
\* (generic_deck_runtime.rs), whatever else is refused and whoever dies, if no reset and no
\* import is refused, a capture has a reset event for every generation and no source is a
\* single slot.  Without any of the four conditions one is.
THEOREM SeamsClose ==
  ASSUME Unhindered
  PROVE  Spec => []SeamsClosed
<1>1. SeamInv => SeamsClosed
  BY DEF SeamInv, SeamsClosed
<1>2. IInv /\ SeamInv /\ [Next]_vars => SeamInv'
  BY SeamInductive
<1> QED
  BY <1>1, <1>2, SeamInit, Holds, PTL DEF Spec

-----------------------------------------------------------------------------
(* Tapes.  Nothing is left out of a capture if, besides, no process is refused between    *)
(* the step of the sequence and the frames it stands for.                                 *)
Flawless == Unhindered /\ "operator" \notin Faults /\ "decode" \notin Faults

Whole(tape) ==
    /\ tape # <<>> => ~tape[1].mark
    /\ \A i \in 1 .. Len(tape) - 1 : Follows(tape[i], tape[i + 1])

(* The last slot staged is the one the Deck stands on, or a reset lies between.           *)
AtLast(w, d) ==
    IF w.slots = 0 THEN ~w.pending
    ELSE LET last == w.tape[w.slots]
         IN  IF w.pending THEN d.gen = last.gen + 1 /\ d.seq = 0
                          ELSE d.gen = last.gen /\ d.seq = last.seq
Intact(w) == Whole(w.tape) /\ Len(w.tape) = w.slots

(* A reset finds the slot of its wrap staged, and no capture if the user asks for it.     *)
Filled == Capturing(deck) => writer.slots > 0 /\ ~writer.pending
TapeInv ==
    /\ Capturing(deck) \/ deck.cap = "completed" => Intact(writer)
    /\ Capturing(deck) => AtLast(writer, deck)
    /\ deck.cap = "completed" => writer.slots > 0
    /\ call.cmd = "process" /\ reply = "ack" => Filled
    /\ call.within /\ (call.cmd = "capture_status" \/ reply = "none") => Filled
    /\ call.cmd = "reset" /\ ~call.within /\ reply = "none" => ~Capturing(deck)
    /\ pc = "run" /\ Capturing(deck) /\ ~(call.cmd = "capture_start" /\ reply = "ack")
           => Capturing(host)

LEMMA AppendIs ==
  ASSUME NEW S, NEW q \in Seq(S), NEW x \in S
  PROVE  /\ Len(Append(q, x)) = Len(q) + 1 /\ Append(q, x)[Len(q) + 1] = x
         /\ \A i \in 1 .. Len(q) : Append(q, x)[i] = q[i] /\ q[i] \in S
         /\ Append(q, x) # <<>>
<1>1. Append(q, x) \in Seq(S) /\ Len(Append(q, x)) = Len(q) + 1 /\ Len(q) \in Nat
  OBVIOUS
<1>2. Append(q, x)[Len(q) + 1] = x
  OBVIOUS
<1>3. ASSUME NEW i \in 1 .. Len(q) PROVE Append(q, x)[i] = q[i] /\ q[i] \in S
  OBVIOUS
<1>4. Append(q, x) # <<>>
  BY <1>1
<1> QED
  BY <1>1, <1>2, <1>3, <1>4

LEMMA StagedOn ==
  ASSUME writer \in WriterType, seam = "none", NEW d \in DeckType, d.gen = deck.gen,
         d.seq = deck.seq + 1, deck \in DeckType, AtLast(writer, deck), Intact(writer)
  PROVE  /\ Intact(Staged(d)) /\ AtLast(Staged(d), d)
         /\ Staged(d).slots > 0 /\ ~Staged(d).pending
<1> DEFINE e == [gen |-> d.gen, seq |-> d.seq, mark |-> writer.pending, seam |-> seam]
           tape == writer.tape
           n == writer.slots
<1>1. /\ tape \in Seq(Staging) /\ n = Len(tape) /\ n \in Nat /\ writer.pending \in BOOLEAN
      /\ deck.gen \in Nat /\ deck.seq \in Nat /\ e \in Staging
  BY DEF WriterType, DeckType, Staging, Intact
<1>2. /\ Len(Append(tape, e)) = n + 1 /\ Append(tape, e)[n + 1] = e
      /\ \A i \in 1 .. n : Append(tape, e)[i] = tape[i] /\ tape[i] \in Staging
      /\ Append(tape, e) # <<>>
  <2> HIDE DEF e, tape, n
  <2> QED
    BY <1>1, AppendIs
<1>3. n # 0 => Follows(tape[n], e)
  <2> SUFFICES ASSUME n # 0 PROVE Follows(tape[n], e)
    OBVIOUS
  <2>1. tape[n].gen \in Nat /\ tape[n].seq \in Nat
    BY <1>1, <1>2 DEF Staging
  <2>2. e.gen = deck.gen /\ e.seq = deck.seq + 1 /\ e.mark = writer.pending /\ e.seam = "none"
    OBVIOUS
  <2> HIDE DEF e
  <2>3. CASE writer.pending
    BY <1>1, <2>1, <2>2, <2>3 DEF AtLast, Follows
  <2>4. CASE ~writer.pending
    BY <1>1, <2>1, <2>2, <2>4 DEF AtLast, Follows
  <2> QED
    BY <2>3, <2>4
<1>4. e.mark = writer.pending /\ e.gen = d.gen /\ e.seq = d.seq
  OBVIOUS
<1>5. /\ Staged(d).slots = n + 1 /\ Staged(d).pending = FALSE /\ Staged(d).tape = Append(tape, e)
  BY DEF Staged, WriterType
<1> HIDE DEF e
<1>6. Whole(Append(tape, e))
  <2>1. ~Append(tape, e)[1].mark
    <3>1. CASE n = 0
      BY <1>1, <1>2, <1>4, <3>1 DEF AtLast
    <3>2. CASE n # 0
      <4>1. 1 \in 1 .. n /\ tape # <<>>
        BY <1>1, <3>2
      <4> QED
        BY <1>2, <4>1 DEF Intact, Whole
    <3> QED
      BY <3>1, <3>2
  <2>2. ASSUME NEW i \in 1 .. n PROVE Follows(Append(tape, e)[i], Append(tape, e)[i + 1])
    <3>1. CASE i = n
      BY <1>1, <1>2, <1>3, <3>1
    <3>2. CASE i # n
      <4>1. i \in 1 .. Len(tape) - 1 /\ i + 1 \in 1 .. n
        BY <1>1, <3>2
      <4> QED
        BY <1>2, <4>1 DEF Intact, Whole
    <3> QED
      BY <3>1, <3>2
  <2>3. 1 .. Len(Append(tape, e)) - 1 = 1 .. n
    BY <1>1, <1>2
  <2> QED
    BY <2>1, <2>2, <2>3 DEF Whole
<1>7. n + 1 # 0 /\ n + 1 > 0
  BY <1>1
<1> QED
  BY <1>2, <1>4, <1>5, <1>6, <1>7 DEF Intact, AtLast

(* What the worker keeps of the capture, command by command.                              *)
Taped ==
    /\ Capturing(deck') => Capturing(deck) \/ (call.cmd = "capture_start" /\ reply' = "ack")
    /\ Capturing(deck') \/ deck'.cap = "completed" => Intact(writer')
    /\ Capturing(deck') => AtLast(writer', deck')
    /\ deck'.cap = "completed" => writer'.slots > 0
    /\ call.cmd = "process" /\ reply' = "ack" => Filled'
    /\ call.cmd = "capture_status" => UNCHANGED <<deck, writer>>

LEMMA DecodeTapes ==
  ASSUME "decode" \notin Faults, NEW d \in DeckType, NEW w, Decode(d, w)
  PROVE  /\ reply' = "ack" /\ writer' = w /\ deck'.cap = d.cap /\ deck'.gen = d.gen
         /\ deck'.seq = d.seq
  BY AdvanceIs DEF Decode, Ack

LEMMA ProcessTapes ==
  ASSUME Flawless, IInv, SeamInv, TapeInv, ServeProcess
  PROVE  Taped
<1> DEFINE d == [deck EXCEPT !.seq = @ + 1]
           w == Staged(d)
           c == Completed(d)
           full == [w EXCEPT !.payload = TRUE]
<1>1. /\ call.cmd = "process" /\ reply = "none" /\ seam = "none" /\ deck \in DeckType
      /\ writer \in WriterType
  BY DEF ServeProcess, Serving, SeamInv, IInv, Types, WorkerTypes, InRange
<1>2. /\ d \in DeckType /\ d.cap = deck.cap /\ d.gen = deck.gen /\ d.seq = deck.seq + 1
  BY <1>1 DEF DeckType
<1>3. Capturing(d) <=> Capturing(deck)
  BY <1>2 DEF Capturing
<1>4. Capturing(deck) => /\ Intact(w) /\ AtLast(w, d) /\ w.slots > 0 /\ ~w.pending
  BY <1>1, <1>2, StagedOn DEF TapeInv
<1>5. /\ full.slots = w.slots /\ full.tape = w.tape
  BY <1>1 DEF Staged, WriterType
<1> HIDE DEF d
<1>6. /\ c.cap = "completed" /\ c \in DeckType
  <2>1. "completed" \in Caps /\ PlayOrPause(d) \in {"playing", "paused"}
    BY DEF Caps, Terminal, PlayOrPause
  <2> QED
    BY <1>2, <2>1 DEF Completed, DeckType
<1>7. Faulted(d).cap = "faulted"
  BY <1>2 DEF Faulted, DeckType
<1> HIDE DEF w, c, full
<1>8. CASE ~Capturing(d) /\ Decode(d, writer)
  <2>1. /\ deck'.cap = deck.cap /\ writer' = writer
    BY <1>2, <1>8, DecodeTapes DEF Flawless
  <2>2. ~Capturing(deck')
    BY <1>3, <1>8, <2>1 DEF Capturing
  <2> QED
    BY <1>1, <2>1, <2>2 DEF Taped, Filled, TapeInv
<1>9. ASSUME NEW v, RejectFaulted(d, v) PROVE Taped
  <2>1. deck'.cap = "faulted" /\ reply' # "ack"
    BY <1>7, <1>9 DEF RejectFaulted, Reject
  <2> QED
    BY <1>1, <2>1 DEF Taped, Capturing, InProgress
<1>10. CASE Capturing(d) /\ Decode(d, w)
  <2>1. deck'.cap = deck.cap /\ deck'.gen = d.gen /\ deck'.seq = d.seq /\ writer' = w
    BY <1>2, <1>10, DecodeTapes DEF Flawless
  <2>2. Capturing(deck) /\ AtLast(w, deck') /\ deck'.cap # "completed"
    BY <1>3, <1>4, <1>10, <2>1 DEF AtLast, Capturing, InProgress
  <2> QED
    BY <1>1, <1>4, <2>1, <2>2 DEF Taped, Filled
<1>11. CASE Capturing(d) /\ Decode(c, full)
  <2>1. deck'.cap = "completed" /\ writer' = full
    BY <1>6, <1>11, DecodeTapes DEF Flawless
  <2> QED
    BY <1>1, <1>3, <1>4, <1>5, <1>11, <2>1 DEF Taped, Filled, Capturing, InProgress, Intact
<1> QED
  BY <1>8, <1>9, <1>10, <1>11 DEF ServeProcess, Flawless, d, w, c, full

LEMMA SettingsTape ==
  ASSUME IInv, TapeInv, ServeSet \/ ServeTransport
  PROVE  Taped
<1> DEFINE d == [deck EXCEPT !.playing = call.arg.playing, !.loop = call.arg.loop]
<1>1. /\ deck \in DeckType /\ writer' = writer /\ call.cmd \in {"set", "transport"}
  BY DEF IInv, Types, WorkerTypes, InRange, ServeSet, ServeTransport, Serving
<1>2. /\ d.gen = deck.gen /\ d.seq = deck.seq /\ d.cap = deck.cap
      /\ d \in [state : {deck.state}, gen : {deck.gen}, seq : {deck.seq}, set : {deck.set},
                cap : {deck.cap}, loop : {d.loop}, playing : {d.playing}, head : {deck.head}]
  BY <1>1 DEF DeckType
<1> HIDE DEF d
<1>3. deck'.gen = deck.gen /\ deck'.seq = deck.seq /\ deck'.cap = deck.cap
  <2>1. CASE ServeSet
    BY <1>1, <2>1 DEF ServeSet, DeckType
  <2>2. CASE ServeTransport
    <3>1. deck' = [d EXCEPT !.state = PlayOrPause(d)]
      BY <2>2 DEF ServeTransport, d
    <3> QED
      BY <1>2, <3>1
  <2> QED
    BY <2>1, <2>2
<1> QED
  BY <1>1, <1>3 DEF Taped, TapeInv, Capturing, AtLast, Intact

LEMMA ResetTapes ==
  ASSUME Flawless, IInv, SeamInv, TapeInv, ServeReset
  PROVE  Taped
<1> DEFINE gen == host.gen + 1
           d == IF deck.cap \in Terminal THEN [deck EXCEPT !.cap = "idle"] ELSE deck
           marked == [writer EXCEPT !.resets = @ + 1, !.pending = TRUE]
           w == CASE Capturing(deck) -> marked
                  [] deck.cap \in Terminal -> NoWriter
                  [] OTHER -> writer
           e == [d EXCEPT !.gen = gen, !.seq = 0,
                    !.head = IF call.arg THEN @ ELSE [s \in Sources |-> 0],
                    !.state = IF Capturing(d) THEN "capturing" ELSE "ready"]
<1>1. /\ deck \in DeckType /\ writer \in WriterType /\ call.cmd = "reset" /\ reply = "none"
      /\ host.gen = deck.gen
  BY DEF IInv, Types, WorkerTypes, InRange, ServeReset, Serving, SeamInv, Abreast, Same
<1>2. CASE UNCHANGED <<deck, writer>>
  BY <1>1, <1>2 DEF Taped, TapeInv, Capturing, AtLast, Intact
<1>3. CASE writer' = w /\ deck' = e
  <2>1. /\ d \in DeckType /\ d.cap = IF deck.cap \in Terminal THEN "idle" ELSE deck.cap
    BY <1>1 DEF DeckType, Caps
  <2>2. e.gen = gen /\ e.seq = 0 /\ e.cap = d.cap
    <3> HIDE DEF d, gen
    <3> QED
      BY <2>1 DEF DeckType
  <2>3. marked.slots = writer.slots /\ marked.tape = writer.tape /\ marked.pending = TRUE
    BY <1>1 DEF WriterType
  <2> HIDE DEF e, d, marked
  <2>4. /\ Capturing(deck') <=> Capturing(deck)
        /\ deck'.cap # "completed" /\ (Capturing(deck) => writer' = marked)
    BY <1>3, <2>1, <2>2 DEF Capturing, InProgress, Terminal
  <2>5. Capturing(deck) => AtLast(writer', deck') /\ Intact(writer')
    <3> SUFFICES ASSUME Capturing(deck) PROVE AtLast(writer', deck') /\ Intact(writer')
      OBVIOUS
    <3>1. writer.slots > 0 /\ ~writer.pending /\ AtLast(writer, deck) /\ Intact(writer)
      BY <1>1 DEF TapeInv, Filled
    <3>2. writer.slots # 0
      BY <1>1, <3>1 DEF WriterType
    <3>3. deck'.gen = writer.tape[writer.slots].gen + 1 /\ deck'.seq = 0
      BY <1>1, <1>3, <2>2, <3>1, <3>2 DEF AtLast
    <3> QED
      BY <2>3, <2>4, <3>1, <3>2, <3>3 DEF AtLast, Intact
  <2> QED
    BY <1>1, <2>4, <2>5 DEF Taped
<1> QED
  BY <1>2, <1>3 DEF ServeReset, Flawless, Unhindered

LEMMA CaptureTapes ==
  ASSUME IInv, TapeInv, ServeCaptureStart \/ ServeCaptureStop \/ ServeCaptureStatus
  PROVE  Taped
<1>1. /\ deck \in DeckType /\ writer \in WriterType
      /\ call.cmd \in {"capture_start", "capture_stop", "capture_status"}
  BY DEF IInv, Types, WorkerTypes, InRange, ServeCaptureStart, ServeCaptureStop, ServeCaptureStatus,
     Serving
<1>2. CASE UNCHANGED <<deck, writer>>
  BY <1>1, <1>2 DEF Taped, TapeInv, Capturing, AtLast, Intact
<1>3. CASE /\ ServeCaptureStart /\ Ack /\ deck' = [deck EXCEPT !.cap = "capturing", !.state = "capturing"]
           /\ writer' = [NoWriter EXCEPT !.mode = call.arg]
  <2>1. deck'.cap = "capturing" /\ writer'.slots = 0 /\ ~writer'.pending /\ writer'.tape = <<>>
    BY <1>1, <1>3 DEF NoWriter, DeckType
  <2>2. Intact(writer') /\ AtLast(writer', deck')
    BY <2>1 DEF Intact, Whole, AtLast
  <2>3. reply' = "ack" /\ call.cmd = "capture_start"
    BY <1>3 DEF Ack, ServeCaptureStart, Serving
  <2> QED
    BY <2>1, <2>2, <2>3 DEF Taped
<1>4. CASE ServeCaptureStop /\ ~UNCHANGED <<deck, writer>>
  <2> DEFINE d == [deck EXCEPT !.cap = "finalizing"]
             v == [writer EXCEPT !.payload = FALSE, !.pending = FALSE]
             full == [writer EXCEPT !.payload = TRUE]
  <2>1. /\ d \in DeckType /\ d.cap = "finalizing" /\ d.gen = deck.gen /\ d.seq = deck.seq
    BY <1>1 DEF DeckType, Caps, InProgress
  <2>2. full.slots = writer.slots /\ full.tape = writer.tape
    BY <1>1 DEF WriterType
  <2> HIDE DEF d, v, full
  <2>3. Completed(d).cap = "completed" /\ Faulted(d).cap = "faulted"
    BY <2>1 DEF Completed, Faulted, DeckType
  <2>4. call.cmd = "capture_stop" /\ Capturing(deck)
    BY <1>4 DEF ServeCaptureStop, Serving
  <2>5. \/ deck' = d /\ writer' = writer
        \/ deck' = Completed(d) /\ writer' = full /\ writer.slots > 0
        \/ deck' = Faulted(d)
    BY <1>4 DEF ServeCaptureStop, RejectFaulted, d, v, full
  <2>6. Capturing(deck') => deck' = d /\ writer' = writer
    BY <2>3, <2>5 DEF Capturing, InProgress
  <2>7. deck'.cap = "completed" => Intact(writer') /\ writer'.slots > 0
    BY <2>1, <2>2, <2>3, <2>4, <2>5 DEF TapeInv, Intact
  <2>8. Capturing(deck') => Intact(writer') /\ AtLast(writer', deck')
    BY <2>1, <2>4, <2>6 DEF TapeInv, AtLast
  <2> QED
    BY <2>4, <2>7, <2>8 DEF Taped
<1> QED
  BY <1>2, <1>3, <1>4 DEF ServeCaptureStart, ServeCaptureStatus

LEMMA ServeTapes ==
  ASSUME Flawless, IInv, SeamInv, TapeInv, Serve
  PROVE  TapeInv'
<1>1. /\ UNCHANGED <<host, pc, call>> /\ reply = "none" /\ call.cmd # "none" /\ reply' # "none"
  BY ServeDoes DEF IInv, Serves, actor
<1>2. Taped
  BY ProcessTapes, SettingsTape, ResetTapes, CaptureTapes DEF Serve
<1>3. call.within /\ call.cmd = "capture_status" => Filled'
  BY <1>2 DEF Taped, TapeInv, Filled
<1>4. pc = "run" /\ Capturing(deck') /\ ~(call.cmd = "capture_start" /\ reply' = "ack")
          => Capturing(host)
  BY <1>1, <1>2 DEF Taped, TapeInv
<1> QED
  BY <1>1, <1>2, <1>3, <1>4 DEF Taped, TapeInv

LEMMA ReceiveTapes ==
  ASSUME Flawless, IInv, TapeInv, Receive
  PROVE  TapeInv'
<1>1. Heard
  BY Hears DEF Flawless, Unhindered
<1>2. UNCHANGED <<deck, writer>> /\ pc = "run" /\ reply # "none" /\ call.cmd # "none"
  BY <1>1 DEF Heard
<1>3. CASE Kept
  BY <1>2, <1>3 DEF Kept, TapeInv, Filled
<1>4. CASE Done /\ (Capturing(deck) => Capturing(host'))
  BY <1>2, <1>4 DEF Done, NoCall, TapeInv
<1>5. CASE Further /\ Filled /\ (Capturing(deck) => Capturing(host'))
  BY <1>2, <1>5 DEF Further, TapeInv, Filled
<1>6. CASE reply = "ack" /\ call.cmd = "process" /\ host' = deck /\ (Done \/ Further)
  BY <1>4, <1>5, <1>6 DEF TapeInv
<1>7. CASE reply = "ack" /\ call.cmd \in CaptureCalls /\ host'.cap = deck.cap
           /\ (Done \/ (Further /\ call.within))
  <2>1. Capturing(deck) => Capturing(host')
    BY <1>7 DEF Capturing
  <2>2. call.within => Filled
    <3>1. call.within => call.cmd = "capture_status"
      BY <1>2, <1>7, Facts DEF CaptureCalls
    <3> QED
      BY <3>1 DEF TapeInv
  <2> QED
    BY <1>4, <1>5, <1>7, <2>1, <2>2
<1>8. CASE reply \in {"error", "fatal"} /\ host' = host /\ Done
  BY <1>2, <1>4, <1>8 DEF TapeInv
<1> QED
  BY <1>1, <1>3, <1>4, <1>6, <1>7, <1>8 DEF Heard

LEMMA TapeInductive ==
  ASSUME Flawless
  PROVE  IInv /\ SeamInv /\ TapeInv /\ [Next]_vars => TapeInv'
<1> SUFFICES ASSUME IInv, SeamInv, TapeInv, [Next]_vars PROVE TapeInv'
  OBVIOUS
<1>1. CASE OwnSteps
  <2>1. UNCHANGED <<host, deck, writer>>
    BY <1>1, OwnStepsDo
  <2>2. CASE Sends
    <3>1. /\ reply = "none" /\ call.cmd = "none" /\ pc = "run" /\ reply' = "none" /\ ~call'.within
      BY <2>2 DEF Sends, AtRest, IInv, CallInv
    <3>2. Capturing(deck) => Capturing(host)
      BY <3>1 DEF TapeInv
    <3>3. call'.cmd = "reset" => ~Capturing(deck)
      BY <1>1, <2>2, <3>2, Requested
    <3> QED
      BY <2>1, <3>1, <3>2, <3>3 DEF TapeInv
  <2>3. CASE Rests
    <3>1. UNCHANGED <<call, reply>> /\ (pc' = "run" => pc = "run")
      BY <2>3 DEF Rests
    <3> QED
      BY <2>1, <3>1 DEF TapeInv, Filled
  <2> QED
    BY <1>1, <2>2, <2>3, OwnStepsDo
<1>2. CASE GiveUp
  BY <1>2 DEF GiveUp, Refuse, Fail, KeepStatus, ReceiveRest, TapeInv, Filled
<1>3. CASE ServeShutdown \/ WorkerCrash
  <2>1. /\ UNCHANGED <<host, pc, call, reply, writer>>
        /\ deck' = deck \/ (pc # "run" /\ deck'.cap = "aborted")
    BY <1>3 DEF ServeShutdown, WorkerCrash, actor, IInv, Types, WorkerTypes, InRange, DeckType
  <2>2. CASE deck' = deck
    BY <2>1, <2>2 DEF TapeInv, Filled
  <2>3. CASE pc # "run" /\ deck'.cap = "aborted"
    BY <2>1, <2>3 DEF TapeInv, Filled, Capturing, InProgress
  <2> QED
    BY <2>1, <2>2, <2>3
<1>4. CASE EndSession
  <2>1. UNCHANGED <<deck, writer, call, reply>> /\ pc # "run" /\ pc' # "run"
    BY <1>4, EndSessionDoes
  <2> QED
    BY <2>1 DEF TapeInv, Filled
<1>5. CASE UNCHANGED vars
  BY <1>5 DEF vars, actor, worker, TapeInv, Filled
<1> QED
  BY <1>1, <1>2, <1>3, <1>4, <1>5, ServeTapes, ReceiveTapes DEF Next, OwnSteps

LEMMA TapeInit == Init => TapeInv
  BY DEF Init, Loaded, NoCall, NoWriter, TapeInv, Capturing, InProgress

\* A completed capture has staged every slot that was processed, once, in order, with a
\* reset event exactly where a generation begins, whatever the writer refuses and whoever
\* dies: under the conditions of SeamsClose, and if no operator and no decode is refused
\* after the sequence has gone on.
THEOREM TapesFaithful ==
  ASSUME Flawless
  PROVE  Spec => []TapeFaithful
<1>1. TapeInv /\ IInv => TapeFaithful
  <2> SUFFICES ASSUME TapeInv, IInv, deck.cap = "completed" PROVE
          /\ Len(writer.tape) = writer.slots /\ writer.slots > 0 /\ ~writer.tape[1].mark
          /\ \A i \in 1 .. Len(writer.tape) - 1 : Follows(writer.tape[i], writer.tape[i + 1])
    BY DEF TapeFaithful
  <2>1. Intact(writer) /\ writer.slots > 0 /\ writer.tape \in Seq(Staging)
    BY DEF TapeInv, IInv, Types, WorkerTypes, WriterType
  <2>2. writer.tape # <<>>
    BY <2>1 DEF Intact
  <2> QED
    BY <2>1, <2>2 DEF Intact, Whole
<1>2. Unhindered
  BY DEF Flawless
<1>3. IInv /\ SeamInv /\ [Next]_vars => SeamInv'
  BY <1>2, SeamInductive
<1>4. IInv /\ SeamInv /\ TapeInv /\ [Next]_vars => TapeInv'
  BY TapeInductive
<1> QED
  BY <1>1, <1>3, <1>4, SeamInit, TapeInit, Holds, PTL DEF Spec
=============================================================================
