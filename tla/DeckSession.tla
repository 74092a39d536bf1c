---------------------------- MODULE DeckSession ----------------------------
(* A live Deck session: the host's actor (generic_deck_runtime.rs), which     *)
(* decodes one batch, presents its frames and answers the user, and the       *)
(* Protocol 2 worker it commands (runtime_v2.py).  The host sends one command *)
(* at a time, validates the snapshot that comes back against its own status   *)
(* and reads the decoded batch from the ring.  Latent capture runs inside the *)
(* worker, and the host follows it by polling.                                *)
EXTENDS Integers, Sequences

CONSTANTS
    Sources,        \* physical slots of the Deck
    Count,          \* latent slots of each source
    Frames,         \* decoded frames in a batch
    Settings,       \* controls, roles and seed, as one value
    Loops,          \* the loop flags a session may be given
    Modes,          \* subset of {"snapshot", "live"}
    MaxSlots,       \* maximum_latent_slots of a capture
    MaxResets,      \* maximum_reset_events of a capture
    Faults,         \* what may go wrong, see FaultKinds
    TransportLock,  \* TRUE: no transport change while a capture runs (capture-policy.ts)
    Requests,       \* bound on the user's requests
    MaxGeneration,  \* bound on the stream generation
    MaxSequence     \* bound on the stream sequence

FaultKinds == {"operator", "append", "finish", "decode",  \* the worker rejects a process
               "decoder", "refuse",                       \* ... a reset, a capture start
               "import", "finalize",                      \* Core rejects the artifact
               "timeout", "crash", "gone"}                \* no reply, no worker, no caller

ASSUME SourcesAssumption == Sources # {} /\ Count \in [Sources -> Nat \ {0}]
ASSUME FramesAssumption == Frames \in Nat \ {0}
ASSUME LoopsAssumption == Loops # {} /\ Loops \subseteq [Sources -> BOOLEAN]
ASSUME CaptureAssumption == /\ Modes \subseteq {"snapshot", "live"}
                            /\ MaxSlots \in Nat \ {0} /\ MaxResets \in Nat
ASSUME EnvironmentAssumption == Faults \subseteq FaultKinds /\ TransportLock \in BOOLEAN
ASSUME DeckBoundsAssumption ==
    Requests \in Nat /\ MaxGeneration \in Nat /\ MaxSequence \in Nat

VARIABLES
    host,      \* the actor's status: the last snapshot it accepted
    frames,    \* pending_frames
    active,    \* active_capture, or NoCapture
    view,      \* the published capture view
    recording, \* decoded recording armed or running
    pc,        \* the actor: "run", then through EndSession to "stopped"
    cause,     \* why the actor ended
    adopted,   \* the ring generation Core has adopted
    call,      \* the command in flight and what process_once still has to do
    reply,     \* the worker's reply to it
    deck,      \* the worker's session, as _deck_status_wire tells it
    writer,    \* the worker's capture session and its staged payload
    mapping,   \* the ring: its generation, the batches in it, the last sequence
    alive,     \* the worker process runs
    rejected,  \* history: the worker answered some command with an error
    seam,      \* history: a wrapped source still owes a reset
    left       \* requests the user may still make

actor == <<host, frames, active, view, recording, pc, cause, adopted>>
worker == <<deck, writer, mapping, alive>>
vars == <<actor, worker, call, reply, rejected, seam, left>>

NoCapture == [mode |-> "none", state |-> "idle"]
NoCall == [cmd |-> "none", by |-> "none", arg |-> 0, looped |-> FALSE, within |-> FALSE]
NoWriter == [mode |-> "none", slots |-> 0, resets |-> 0, pending |-> FALSE,
             payload |-> FALSE, tape |-> <<>>]

InProgress == {"capturing", "finalizing"}
Terminal == {"completed", "aborted", "faulted"}

AnyPlaying(d) == \E s \in Sources : d.playing[s]
PlayOrPause(d) == IF AnyPlaying(d) THEN "playing" ELSE "paused"

\* end_of_stream of a playhead.
EndOfStream(d, s) == ~d.playing[s] /\ ~d.loop[s] /\ d.head[s] + 1 >= Count[s]

\* A session is loaded: every source plays from its first slot.
Loaded(loop, set) ==
    [state |-> "ready", gen |-> 1, seq |-> 0, set |-> set, cap |-> "idle", loop |-> loop,
     playing |-> [s \in Sources |-> TRUE], head |-> [s \in Sources |-> 0]]

Init ==
    /\ \E loop \in Loops, set \in Settings : host = Loaded(loop, set)
    /\ deck = host /\ writer = NoWriter
    /\ mapping = [gen |-> 1, queue |-> <<>>, last |-> 0] /\ adopted = 1
    /\ frames = <<>>
    /\ active = NoCapture /\ view = "idle" /\ recording = FALSE
    /\ pc = "run" /\ cause = "none" /\ call = NoCall /\ reply = "none"
    /\ alive = TRUE /\ rejected = FALSE /\ seam = "none" /\ left = Requests

-----------------------------------------------------------------------------
(* The actor ends, or goes on.                                               *)

\* A command given up on stays with the worker, which may still serve it.
Fail(why) == pc' = "ending" /\ cause' = why /\ UNCHANGED <<call, reply>>
Goon == UNCHANGED <<pc, cause>>
Idle == call' = NoCall /\ reply' = "none"

\* finish: an answered request ends the actor if its caller is gone.
Answered ==
    /\ Idle
    /\ \/ Goon
       \/ call.by = "user" /\ "gone" \in Faults /\ pc' = "ending" /\ cause' = "caller"

Send(cmd, by, arg) ==
    /\ call' = [NoCall EXCEPT !.cmd = cmd, !.by = by, !.arg = arg]
    /\ reply' = "none"

\* process_once goes on with another command.
SendWithin(cmd, arg, looped) ==
    /\ call' = [call EXCEPT !.cmd = cmd, !.arg = arg, !.looped = looped, !.within = TRUE]
    /\ reply' = "none"

-----------------------------------------------------------------------------
(* What the actor does next: decode, present, or take a request.             *)

AtRest == pc = "run" /\ call.cmd = "none"

CaptureDrives ==
    \/ active.mode = "snapshot" /\ active.state = "capturing"
    \/ active.state = "finalizing"
\* Mutation: a capture does not drive decoding.
ProcessingWhilePlaying == AnyPlaying(host)
ProcessingActive == AnyPlaying(host) \/ CaptureDrives

InBounds == host.gen < MaxGeneration /\ host.seq < MaxSequence

AutoProcess ==
    /\ AtRest /\ ProcessingActive /\ frames = <<>> /\ InBounds
    /\ Send("process", "auto", 0)
    /\ UNCHANGED <<actor, worker, rejected, seam, left>>

\* The oldest frame goes to the output.
Present(queue) == frames' = Tail(queue)

PresentFrame ==
    /\ AtRest /\ ProcessingActive /\ frames # <<>>
    /\ Present(frames)
    /\ UNCHANGED <<host, active, view, recording, pc, cause, adopted, worker, call, reply,
                   rejected, seam, left>>

\* A request of the user; status polls and the end of the session are not counted.
Request == AtRest /\ left > 0 /\ left' = left - 1
Ask(cmd, arg) == Send(cmd, "user", arg) /\ UNCHANGED <<actor, worker, rejected, seam>>

\* ProcessOnce presents the next frame and decodes only when there is none.
Tick ==
    /\ Request
    /\ \/ frames = <<>> /\ InBounds /\ Ask("process", 0)
       \/ /\ frames # <<>> /\ Present(frames)
          /\ UNCHANGED <<host, active, view, recording, pc, cause, adopted, worker, call,
                         reply, rejected, seam>>

\* controls_set, roles_set and seed_set.
SettingsSet(set) == Request /\ set # host.set /\ Ask("set", set)

TransportSet(playing, loop) ==
    /\ Request /\ (TransportLock => active = NoCapture)
    /\ Ask("transport", [playing |-> playing, loop |-> loop])

ResetDeck(preserve) ==
    /\ Request /\ host.gen < MaxGeneration
    /\ host.cap \in {"idle"} \cup Terminal
    /\ Ask("reset", preserve)

StartCapture(mode) ==
    /\ Request /\ active = NoCapture /\ ~recording
    /\ Ask("capture_start", mode)

StopCapture == Request /\ active.mode = "live" /\ Ask("capture_stop", 0)

\* The pin monitor and the UI poll the status of a capture.
AskStatus ==
    /\ AtRest /\ active # NoCapture
    /\ Ask("capture_status", 0) /\ UNCHANGED left

StartRecording ==
    /\ Request /\ active = NoCapture /\ ~recording
    /\ recording' = TRUE
    /\ UNCHANGED <<host, frames, active, view, pc, cause, adopted, worker, call,
                   reply, rejected, seam>>

\* The recorder is stopped, or ends, on its own thread.
StopRecording ==
    /\ recording /\ recording' = FALSE
    /\ UNCHANGED <<host, frames, active, view, pc, cause, adopted, worker, call,
                   reply, rejected, seam, left>>

Shutdown ==
    /\ AtRest
    /\ pc' = "ending" /\ cause' = "shutdown"
    /\ UNCHANGED <<host, frames, active, view, recording, adopted, worker, call,
                   reply, rejected, seam, left>>

-----------------------------------------------------------------------------
(* The worker: one command served, and its reply.                            *)

Serving(cmd) == alive /\ call.cmd = cmd /\ reply = "none"

Ack == reply' = "ack" /\ UNCHANGED rejected
Reject == reply' \in {"error", "fatal"} /\ rejected' = TRUE

ServeRest == UNCHANGED <<actor, alive, call, left>>

Capturing(d) == d.cap \in InProgress
Faulted(d) == [d EXCEPT !.cap = "faulted", !.state = PlayOrPause(d)]
Completed(d) == [d EXCEPT !.cap = "completed", !.state = PlayOrPause(d)]

\* Mutation: the pending reset event stays pending.
StagedAgain(d) ==
    [writer EXCEPT !.slots = @ + 1,
                   !.tape = Append(@, [gen |-> d.gen, seq |-> d.seq, mark |-> writer.pending,
                                       seam |-> seam])]

\* The writer stages the post-operator latent slot, with the pending reset event.
Staged(d) ==
    [writer EXCEPT !.slots = @ + 1, !.pending = FALSE,
                   !.tape = Append(@, [gen |-> d.gen, seq |-> d.seq, mark |-> writer.pending,
                                       seam |-> seam])]

\* The playheads advance, each by its own transport, and a settled Deck pauses.
Advance(d) ==
    LET atEnd(s) == d.head[s] + 1 >= Count[s]
        moved == [d EXCEPT
            !.head = [s \in Sources |->
                CASE ~d.playing[s] -> d.head[s]
                  [] d.playing[s] /\ ~atEnd(s) -> d.head[s] + 1
                  [] d.playing[s] /\ atEnd(s) -> IF d.loop[s] THEN 0 ELSE d.head[s]],
            !.playing = [s \in Sources |-> d.playing[s] /\ (~atEnd(s) \/ d.loop[s])]]
    IN  IF d.cap \in {"idle", "completed"} THEN [moved EXCEPT !.state = PlayOrPause(moved)]
                                           ELSE moved

Wraps(d) == \E s \in Sources : d.playing[s] /\ d.loop[s] /\ d.head[s] + 1 >= Count[s]

\* decode_slot and publish end a process; d and w are the session and the capture.
Decode(d, w) ==
    /\ writer' = w
    /\ \/ /\ "decode" \in Faults /\ Reject
          /\ deck' = d /\ UNCHANGED <<mapping, seam>>
       \/ /\ Ack
          /\ deck' = Advance(d)
          /\ mapping' = [mapping EXCEPT !.last = @ + 1,
                            !.queue = Append(@, [gen |-> d.gen, seq |-> d.seq,
                                                 slot |-> mapping.last + 1, set |-> d.set])]
          /\ seam' = CASE seam # "none" -> "crossed"
                       [] seam = "none" -> IF Wraps(d) THEN "open" ELSE "none"

RejectFaulted(d, w) ==
    Reject /\ deck' = Faulted(d) /\ writer' = [w EXCEPT !.payload = FALSE, !.pending = FALSE]

\* _deck_process: operator, capture, decode, publish, in this order.
ServeProcess ==
    LET d == [deck EXCEPT !.seq = @ + 1]
        w == Staged(d)
        finishing == writer.mode = "snapshot" \/ deck.cap = "finalizing"
    IN  /\ Serving("process") /\ ServeRest
        /\ \/ /\ "operator" \in Faults /\ Reject
              /\ deck' = d /\ UNCHANGED <<writer, mapping, seam>>
           \/ ~Capturing(d) /\ Decode(d, writer)
           \/ /\ Capturing(d) /\ (writer.slots >= MaxSlots \/ "append" \in Faults)
              /\ RejectFaulted(d, writer) /\ UNCHANGED <<mapping, seam>>
           \/ Capturing(d) /\ writer.slots < MaxSlots /\ Decode(d, w)
           \/ /\ Capturing(d) /\ writer.slots < MaxSlots /\ finishing
              /\ Decode(Completed(d), [w EXCEPT !.payload = TRUE])
           \/ /\ Capturing(d) /\ writer.slots < MaxSlots /\ finishing /\ "finish" \in Faults
              /\ RejectFaulted(d, w) /\ UNCHANGED <<mapping, seam>>

ServeSet ==
    /\ Serving("set") /\ Ack
    /\ deck' = [deck EXCEPT !.set = call.arg]
    /\ UNCHANGED <<writer, mapping, seam>> /\ ServeRest

ServeTransport ==
    /\ Serving("transport") /\ Ack
    /\ LET d == [deck EXCEPT !.playing = call.arg.playing, !.loop = call.arg.loop]
       IN  deck' = [d EXCEPT !.state = PlayOrPause(d)]
    /\ UNCHANGED <<writer, mapping, seam>> /\ ServeRest

\* _deck_reset: the capture is marked or dropped before the decoder may refuse.
ServeReset ==
    LET gen == host.gen + 1
        d == IF deck.cap \in Terminal THEN [deck EXCEPT !.cap = "idle"] ELSE deck
        w == CASE Capturing(deck) -> [writer EXCEPT !.resets = @ + 1, !.pending = TRUE]
               [] deck.cap \in Terminal -> NoWriter
               [] OTHER -> writer
        refused == gen <= deck.gen \/ (Capturing(deck) /\ writer.resets >= MaxResets)
    IN  /\ Serving("reset") /\ ServeRest
        /\ \/ refused /\ Reject /\ UNCHANGED <<deck, writer, mapping, seam>>
           \/ /\ ~refused /\ "decoder" \in Faults /\ Reject
              /\ deck' = d /\ writer' = w /\ UNCHANGED <<mapping, seam>>
           \/ /\ ~refused /\ Ack /\ writer' = w
              /\ deck' = [d EXCEPT
                    !.gen = gen, !.seq = 0,
                    !.head = IF call.arg THEN @ ELSE [s \in Sources |-> 0],
                    !.state = IF Capturing(d) THEN "capturing" ELSE "ready"]
              /\ mapping' = [gen |-> gen, queue |-> <<>>, last |-> 0]
              /\ seam' = IF seam = "open" THEN "none" ELSE seam

ServeCaptureStart ==
    /\ Serving("capture_start") /\ ServeRest /\ UNCHANGED <<mapping, seam>>
    /\ \/ /\ Capturing(deck) \/ "refuse" \in Faults
          /\ Reject /\ UNCHANGED <<deck, writer>>
       \/ /\ ~Capturing(deck) /\ Ack
          /\ deck' = [deck EXCEPT !.cap = "capturing", !.state = "capturing"]
          /\ writer' = [NoWriter EXCEPT !.mode = call.arg]

\* capture.stop answers what is completed, else finalizes, at once if it can.
ServeCaptureStop ==
    LET d == [deck EXCEPT !.cap = "finalizing"]
    IN  /\ Serving("capture_stop") /\ ServeRest /\ UNCHANGED <<mapping, seam>>
        /\ \/ writer.payload /\ Ack /\ UNCHANGED <<deck, writer>>
           \/ ~writer.payload /\ ~Capturing(deck) /\ Reject /\ UNCHANGED <<deck, writer>>
           \/ Capturing(deck) /\ Ack /\ deck' = d /\ UNCHANGED writer
           \/ /\ Capturing(deck) /\ writer.slots > 0 /\ Ack
              /\ deck' = Completed(d) /\ writer' = [writer EXCEPT !.payload = TRUE]
           \/ /\ Capturing(deck) /\ writer.slots > 0 /\ "finish" \in Faults
              /\ RejectFaulted(d, writer)

ServeCaptureStatus ==
    /\ Serving("capture_status") /\ Ack
    /\ UNCHANGED <<deck, writer, mapping, seam>> /\ ServeRest

\* session.shutdown aborts a capture in progress, once the command in flight is served; a
\* worker that does not answer, or has died, does not.
ServeShutdown ==
    /\ pc = "stopping" /\ alive /\ (call.cmd # "none" => reply # "none")
    /\ alive' = FALSE
    /\ deck' = IF Capturing(deck) THEN [deck EXCEPT !.cap = "aborted"] ELSE deck
    /\ UNCHANGED <<actor, writer, mapping, call, reply, rejected, seam, left>>

WorkerCrash ==
    /\ alive /\ "crash" \in Faults
    /\ alive' = FALSE
    /\ UNCHANGED <<actor, deck, writer, mapping, call, reply, rejected, seam, left>>

-----------------------------------------------------------------------------
(* What the actor makes of an acknowledged snapshot, which is the worker's    *)
(* session: the worker does nothing between a reply and the next command.     *)

Received(cmd) == pc = "run" /\ call.cmd = cmd /\ reply = "ack"
ReceiveRest == UNCHANGED <<recording, deck, writer, alive, rejected, seam, left>>
KeepStatus == UNCHANGED <<host, active, view>>
KeepFrames == UNCHANGED frames
KeepRing == UNCHANGED <<adopted, mapping>>

Refuse(why) == Fail(why) /\ KeepStatus /\ KeepFrames /\ KeepRing

CaptureSteps ==  \* valid_process_capture_transition
    {<<c, c>> : c \in {"idle", "capturing", "finalizing"} \cup Terminal}
    \cup {<<"capturing", "finalizing">>, <<"capturing", "completed">>,
          <<"finalizing", "completed">>}

\* A source may only stop by reaching its end, and stays on its last slot.
TransportStep(prev, cur, s) ==
    /\ cur.loop[s] = prev.loop[s]
    /\ \/ cur.playing[s] = prev.playing[s]
       \/ /\ prev.playing[s] /\ ~cur.playing[s] /\ ~prev.loop[s]
          /\ prev.head[s] + 1 = Count[s] /\ ~EndOfStream(prev, s)
          /\ cur.head[s] = prev.head[s] /\ EndOfStream(cur, s)

ValidProcess(prev, cur) ==
    /\ cur.gen = prev.gen /\ cur.seq = prev.seq + 1 /\ cur.set = prev.set
    /\ \A s \in Sources : TransportStep(prev, cur, s)
    /\ <<prev.cap, cur.cap>> \in CaptureSteps

ValidTransport(prev, cur, want) ==
    /\ <<cur.gen, cur.seq, cur.cap, cur.set>> = <<prev.gen, prev.seq, prev.cap, prev.set>>
    /\ cur.playing = want.playing /\ cur.loop = want.loop /\ cur.head = prev.head
    /\ cur.state = PlayOrPause(cur)

\* Mutation: a reset is expected to keep a terminal capture.
ValidResetKept(prev, cur, preserve) ==
    /\ cur.gen = prev.gen + 1 /\ cur.seq = 0 /\ cur.cap = prev.cap
    /\ preserve => cur.head = prev.head

ValidReset(prev, cur, preserve) ==
    /\ cur.gen = prev.gen + 1 /\ cur.seq = 0
    /\ <<cur.playing, cur.loop, cur.set>> = <<prev.playing, prev.loop, prev.set>>
    /\ IF preserve THEN cur.head = prev.head
                   ELSE \A s \in Sources : cur.head[s] = 0 /\ ~EndOfStream(cur, s)
    /\ cur.cap = IF prev.cap \in Terminal THEN "idle" ELSE prev.cap

\* Mutation: only a wrap of all sources together counts.
LoopedTogether(prev, cur) ==
    \A s \in Sources : prev.playing[s] /\ prev.loop[s] /\ cur.head[s] < prev.head[s]

Looped(prev, cur) ==
    \E s \in Sources : prev.playing[s] /\ prev.loop[s] /\ cur.head[s] < prev.head[s]

\* validate_batch: the batch in the ring is the one that was acknowledged.
BatchOf(d) == /\ mapping.gen = adopted /\ mapping.queue # <<>>
              /\ LET b == Head(mapping.queue)
                 IN  b.gen = d.gen /\ b.seq = d.seq /\ b.slot = mapping.last
Split(b) == [i \in 1 .. Frames |-> [gen |-> b.gen, seq |-> b.seq, i |-> i, set |-> b.set]]

\* A tick presents what the process it waited for has decoded.
Processed(queue) ==
    /\ IF call.by = "user" THEN Present(queue) ELSE frames' = queue
    /\ Answered

\* The rest of process_once: the causal reset of a wrapped source.
Continue(looped, queue) ==
    \/ looped /\ SendWithin("reset", TRUE, TRUE) /\ frames' = queue /\ Goon
    \/ ~looped /\ Processed(queue)

ReceiveProcess ==
    /\ Received("process") /\ ReceiveRest
    /\ \/ ~ValidProcess(host, deck) /\ Refuse("protocol")
       \/ ValidProcess(host, deck) /\ ~BatchOf(deck) /\ Refuse("ring")
       \/ /\ ValidProcess(host, deck) /\ BatchOf(deck)
          /\ host' = deck
          /\ mapping' = [mapping EXCEPT !.queue = Tail(@)]
          /\ UNCHANGED <<active, view, adopted>>
          /\ LET queue == Split(Head(mapping.queue))
                 looped == Looped(host, deck)
             IN  \/ /\ active # NoCapture /\ SendWithin("capture_status", 0, looped)
                    /\ frames' = queue /\ Goon
                 \/ active = NoCapture /\ Continue(looped, queue)

\* Mutation: frames decoded under the old settings stay queued.
ReceiveSetQueued ==
    /\ Received("set") /\ ReceiveRest /\ deck = [host EXCEPT !.set = call.arg]
    /\ host' = deck
    /\ UNCHANGED <<active, view>> /\ KeepFrames /\ KeepRing /\ Answered

ReceiveSet ==
    /\ Received("set") /\ ReceiveRest
    /\ \/ deck # [host EXCEPT !.set = call.arg] /\ Refuse("protocol")
       \/ /\ deck = [host EXCEPT !.set = call.arg]
          /\ host' = deck /\ frames' = <<>>
          /\ UNCHANGED <<active, view>> /\ KeepRing /\ Answered

ReceiveTransport ==
    /\ Received("transport") /\ ReceiveRest
    /\ \/ ~ValidTransport(host, deck, call.arg) /\ Refuse("protocol")
       \/ /\ ValidTransport(host, deck, call.arg)
          /\ host' = deck /\ frames' = <<>>
          /\ UNCHANGED <<active, view>> /\ KeepRing /\ Answered

\* Mutation: the ring generation is not adopted.
ReceiveResetUnadopted ==
    /\ Received("reset") /\ ReceiveRest /\ ValidReset(host, deck, call.arg)
    /\ host' = deck /\ frames' = IF call.within THEN frames ELSE <<>>
    /\ UNCHANGED <<active, view>> /\ KeepRing /\ Answered

\* The reset the user asked for drops the pending frames, the causal one keeps them.
ReceiveReset ==
    LET valid == ValidReset(host, deck, call.arg)
        adoptable == mapping.gen = deck.gen /\ mapping.queue = <<>> /\ deck.gen > adopted
    IN  /\ Received("reset") /\ ReceiveRest
        /\ \/ ~valid /\ Refuse("protocol")
           \/ valid /\ ~adoptable /\ Refuse("ring")
           \/ /\ valid /\ adoptable
              /\ host' = deck /\ adopted' = deck.gen
              /\ UNCHANGED <<active, view, mapping>>
              /\ \/ call.within /\ Processed(frames)
                 \/ ~call.within /\ frames' = <<>> /\ Answered

\* Mutation: the state of the Deck is left as it was.
AdoptCaptureOnly(d, cap) == [d EXCEPT !.cap = cap]

\* adopt_capture_deck_state.
AdoptCapture(d, cap) ==
    [d EXCEPT !.cap = cap, !.state = IF cap \in InProgress THEN "capturing" ELSE PlayOrPause(d)]

ReceiveCaptureStart ==
    /\ Received("capture_start") /\ ReceiveRest /\ KeepFrames /\ KeepRing
    /\ deck.cap = "capturing" /\ writer.slots = 0
    /\ active' = [mode |-> call.arg, state |-> deck.cap]
    /\ host' = AdoptCapture(host, deck.cap) /\ view' = "capturing"
    /\ Answered

StatusSteps ==  \* valid_capture_status_transition, for a mode
    [mode \in {"snapshot", "live"} |->
        {<<"capturing", "capturing">>, <<"capturing", "completed">>,
         <<"finalizing", "finalizing">>, <<"finalizing", "completed">>}
        \cup ({"capturing", "finalizing"} \X {"aborted", "faulted"})
        \cup IF mode = "live" THEN {<<"capturing", "finalizing">>} ELSE {}]

\* An end of process_once or of a status request, whatever the capture has become.
AfterStatus ==
    \/ call.within /\ Continue(call.looped, frames)
    \/ ~call.within /\ KeepFrames /\ Answered

\* Mutation: the finished capture stays active.
FinalizeKept == UNCHANGED active /\ view' = "finished" /\ AfterStatus

\* A completed capture is finalized into a cartridge and imported; only the import
\* may fail and leave the session to whoever asked.
Finalize ==
    /\ active' = NoCapture
    /\ \/ view' = "finished" /\ AfterStatus
       \/ /\ "import" \in Faults /\ view' = "error" /\ KeepFrames
          /\ IF call.by = "auto" THEN Fail("import") ELSE Answered
       \/ "finalize" \in Faults /\ view' = "error" /\ KeepFrames /\ Fail("artifact")

ApplyStatus ==
    /\ host' = AdoptCapture(host, deck.cap)
    /\ \/ deck.cap = "completed" /\ Finalize
       \/ /\ deck.cap \in {"aborted", "faulted"}
          /\ active' = NoCapture /\ view' = "error" /\ AfterStatus
       \/ /\ deck.cap \in InProgress
          /\ active' = [active EXCEPT !.state = deck.cap] /\ view' = deck.cap /\ AfterStatus

\* capture.stop and capture.status are applied alike.
ReceiveStatus ==
    /\ Received("capture_stop") \/ Received("capture_status")
    /\ ReceiveRest /\ KeepRing
    /\ IF <<active.state, deck.cap>> \in StatusSteps[active.mode]
       THEN ApplyStatus
       ELSE /\ active' = NoCapture /\ view' = "error"
            /\ host' = AdoptCapture(host, "faulted") /\ KeepFrames /\ Fail("protocol")

\* An error reply ends the actor when it is fatal or met while decoding on its own.
ReceiveError ==
    /\ pc = "run" /\ reply \in {"error", "fatal"}
    /\ \/ (reply = "fatal" \/ call.by = "auto") /\ Fail("remote")
       \/ reply = "error" /\ call.by = "user" /\ Answered
    /\ ReceiveRest /\ KeepStatus /\ KeepFrames /\ KeepRing

\* The deadline of the command passes, or the worker is gone with the reply.
GiveUp ==
    /\ pc = "run" /\ call.cmd # "none"
    /\ \/ "timeout" \in Faults /\ Refuse("timeout")
       \/ ~alive /\ reply = "none" /\ Refuse("worker")
    /\ ReceiveRest

-----------------------------------------------------------------------------
(* The end of run: stop, settle_capture_on_shutdown, the output, and the drop of the  *)
(* actor.                                                                             *)

Ends(from, to) ==
    /\ pc = from /\ pc' = to
    /\ UNCHANGED <<frames, cause, adopted, call, reply, deck, writer, mapping, rejected,
                   seam, left>>

\* stop: the recorder is stopped, unless a shutdown keeps it for a replacement session,
\* and the worker asked to shut down.
StopWorker ==
    /\ Ends("ending", "stopping")
    /\ recording' \in {FALSE, recording /\ cause = "shutdown"}
    /\ UNCHANGED <<host, view, active, alive>>

\* Mutation: the wait for the worker has no deadline.
WorkerStoppedAlone ==
    Ends("stopping", "settling") /\ ~alive /\ UNCHANGED <<host, view, active, recording, alive>>

\* request_shutdown returns: the worker has exited, or its deadline has passed.
WorkerStopped ==
    /\ Ends("stopping", "settling") /\ (~alive \/ "timeout" \in Faults)
    /\ UNCHANGED <<host, view, active, recording, alive>>

\* A capture that is still active is settled as aborted.
SettleCapture ==
    /\ Ends("settling", "dropping")
    /\ active' = NoCapture
    /\ \/ active = NoCapture /\ UNCHANGED <<host, view>>
       \/ active # NoCapture /\ view' = "aborted" /\ host' = AdoptCapture(host, "aborted")
    /\ UNCHANGED <<recording, alive>>

\* The output is gone; a worker that still runs ends with the job the actor drops.
DropActor ==
    Ends("dropping", "stopped") /\ alive' = FALSE /\ UNCHANGED <<host, view, active, recording>>

EndSession == StopWorker \/ WorkerStopped \/ SettleCapture \/ DropActor

-----------------------------------------------------------------------------
UserRequest ==
    \/ Tick
    \/ \E set \in Settings : SettingsSet(set)
    \/ \E playing \in [Sources -> BOOLEAN], loop \in Loops : TransportSet(playing, loop)
    \/ \E preserve \in BOOLEAN : ResetDeck(preserve)
    \/ \E mode \in Modes : StartCapture(mode)
    \/ StopCapture \/ StartRecording

Serve ==
    \/ ServeProcess \/ ServeSet \/ ServeTransport \/ ServeReset
    \/ ServeCaptureStart \/ ServeCaptureStop \/ ServeCaptureStatus

Receive ==
    \/ ReceiveProcess \/ ReceiveSet \/ ReceiveTransport \/ ReceiveReset
    \/ ReceiveCaptureStart \/ ReceiveStatus \/ ReceiveError

Next ==
    \/ AutoProcess \/ PresentFrame \/ UserRequest \/ AskStatus
    \/ StopRecording \/ Shutdown
    \/ Serve \/ Receive \/ GiveUp
    \/ ServeShutdown \/ WorkerCrash \/ EndSession

Spec == Init /\ [][Next]_vars

\* The actor takes replies, gives up on a worker that is dead or late, and goes on with its
\* end; polls do not keep it from decoding and presenting for ever.  Nothing is asked of the
\* worker, which may hang.
FairSpec ==
    /\ Spec
    /\ WF_vars(Receive) /\ WF_vars(GiveUp) /\ WF_vars(EndSession)
    /\ SF_vars(AutoProcess) /\ SF_vars(PresentFrame)

-----------------------------------------------------------------------------
Caps == {"idle"} \cup InProgress \cup Terminal
DeckType == [state : {"ready", "playing", "paused", "capturing"}, gen : Nat, seq : Nat,
             set : Settings, cap : Caps, loop : [Sources -> BOOLEAN],
             playing : [Sources -> BOOLEAN], head : [Sources -> Nat]]
CaptureType == [mode : Modes, state : InProgress]
Causes == {"none", "caller", "shutdown", "remote", "timeout", "worker", "protocol", "ring",
           "import", "artifact"}
Commands == {"none", "process", "set", "transport", "reset", "capture_start",
             "capture_stop", "capture_status"}
Batch == [gen : Nat, seq : Nat, slot : Nat, set : Settings]
Frame == [gen : Nat, seq : Nat, i : 1 .. Frames, set : Settings]
Staging == [gen : Nat, seq : Nat, mark : BOOLEAN, seam : {"none", "open", "crossed"}]
WriterType == [mode : Modes \cup {"none"}, slots : 0 .. MaxSlots, resets : 0 .. MaxResets,
               pending : BOOLEAN, payload : BOOLEAN, tape : Seq(Staging)]

\* The variables range over what actor and worker can hold; every playhead is inside
\* its source, and a capture stays inside its declared limits.
TypeOK ==
    /\ host \in DeckType /\ deck \in DeckType
    /\ \A s \in Sources : host.head[s] < Count[s] /\ deck.head[s] < Count[s]
    /\ frames \in Seq(Frame)
    /\ active \in CaptureType \cup {NoCapture}
    /\ view \in {"idle", "capturing", "finalizing", "finished", "aborted", "error"}
    /\ recording \in BOOLEAN /\ cause \in Causes
    /\ pc \in {"run", "ending", "stopping", "settling", "dropping", "stopped"}
    /\ adopted \in Nat /\ call.cmd \in Commands /\ call.by \in {"none", "auto", "user"}
    /\ reply \in {"none", "ack", "error", "fatal"}
    /\ writer \in WriterType /\ mapping.queue \in Seq(Batch)
    /\ alive \in BOOLEAN /\ rejected \in BOOLEAN /\ seam \in {"none", "open", "crossed"}
    /\ left \in 0 .. Requests

\* Between two commands the actor's status is the worker's session to the last field,
\* and it follows a capture exactly as long as the worker runs one, unless the worker
\* has answered some command with an error.
InStep ==
    AtRest /\ ~rejected =>
        /\ host = deck
        /\ active = IF Capturing(deck) THEN [mode |-> writer.mode, state |-> deck.cap]
                                       ELSE NoCapture

\* Between two commands the ring is empty and in the generation of the status, errors
\* or not: every batch published is read before anything else is asked for.
RingInStep ==
    AtRest => mapping.queue = <<>> /\ mapping.gen = adopted /\ adopted = host.gen

\* A worker that obeys every command is never ended for a protocol or ring fault: what
\* the validators expect is what the worker does.
NeverMisjudged == cause \in {"protocol", "ring"} => rejected

\* A frame waiting to be presented was decoded from the batch of the current status,
\* under the settings now in force; only a causal reset may lie between.
FreshFrames ==
    \A i \in 1 .. Len(frames) :
        /\ frames[i].set = host.set
        /\ \/ frames[i].gen = host.gen /\ frames[i].seq = host.seq
           \/ frames[i].gen + 1 = host.gen /\ host.seq = 0

\* No source is decoded past its wrap before a reset has closed the seam.
SeamsClosed == seam # "crossed"

\* What a completed capture has staged is the run of processed slots without a gap,
\* and a reset event stands exactly where a generation begins.
Follows(a, b) ==
    /\ b.seam = "none"
    /\ \/ b.gen = a.gen /\ b.seq = a.seq + 1 /\ ~b.mark
       \/ b.gen = a.gen + 1 /\ b.seq = 1 /\ b.mark
TapeFaithful ==
    LET tape == writer.tape
    IN  deck.cap = "completed" /\ host.cap = "completed" =>
            /\ Len(tape) = writer.slots /\ writer.slots > 0 /\ ~tape[1].mark
            /\ \A i \in 1 .. Len(tape) - 1 : Follows(tape[i], tape[i + 1])

\* The published view is in progress exactly while a capture is active: the pin monitor
\* releases the output lease when, and only when, the capture has ended.
ViewTellsEnd == active # NoCapture <=> view \in InProgress

\* A snapshot, or a capture that was stopped, ends whether or not its writer ever
\* finds a boundary: the slot limit ends it.
CaptureEnds == CaptureDrives ~> active = NoCapture

\* An actor that fails or is shut down gets through its cleanup, with a capture active, a
\* command in flight or a worker that is dead or answers nothing: in the end no worker runs
\* and no capture is told to run.
SessionEnds ==
    pc # "run" ~> pc = "stopped" /\ ~alive /\ view \notin InProgress /\ ~Capturing(host)
=============================================================================
