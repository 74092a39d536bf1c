------------------------------- MODULE Player -------------------------------
(***************************************************************************)
(* LatentPlayer: the commands of its interface, which hold the lock of the   *)
(* runtime slot one after another, the actor of a playback runtime with its   *)
(* bounded channel, and the Player half of the Protocol 2 worker.  The view   *)
(* is PlayerCoordinator, which commands and actor both write.                 *)
(*                                                                         *)
(* A link that is down is a client that had a deadline pass, a refused frame  *)
(* or a dead worker: as WorkerLink shows, no later call on it succeeds, the   *)
(* shutdown perhaps excepted.  Stream generations are left out: with the link  *)
(* up host and worker change theirs in one exchange, and RingV2 has the ring's *)
(* part in it.  Viewport and Spout requests are polls: answered at once.       *)
(***************************************************************************)
EXTENDS Naturals, Sequences

CONSTANTS
    Cartridges,     \* numbers of latent slots of the cartridges at hand
    SlotFrames,     \* frames decoded from one slot
    ChannelCapacity,\* CHANNEL_CAPACITY
    MaxMishaps,     \* bound: deadlines of the interface that pass, resets that fail half way
    Faults          \* faults of the instance

ASSUME PlayerAssumption ==
    /\ Cartridges \subseteq Nat \ {0}
    /\ SlotFrames \in Nat \ {0} /\ ChannelCapacity \in Nat \ {0} /\ MaxMishaps \in Nat
    /\ Faults \subseteq {"link", "reject", "output", "start", "file"}

VARIABLES
    view,       \* what the interface is shown: phase, loop flag and position
    cartridge,  \* latent slots of the loaded cartridge, 0 without one
    held,       \* whether the slot of the runtime holds one
    cmd,        \* the command that has the lock of that slot
    answer,     \* the actor's answer to the command's request
    queue,      \* requests in the actor's channel
    actor,      \* the runtime's actor
    call,       \* the worker command the actor waits for, and what for
    worker,     \* playhead, memory of the decoder, loop flag of the source
    link,       \* whether calls reach the worker and their answers the actor
    shown,      \* history: frames on the output since the playhead was at the start
    halved,     \* history: a reset failed since then and has left a younger decoder
    behind,     \* history: whether the player stopped without telling the view
    mishaps     \* bound: those so far

vars == <<view, cartridge, held, cmd, answer, queue, actor, call, worker, link, shown, halved,
          behind, mishaps>>

Phases == {"empty", "ready", "playing", "paused", "error"}
Commands == {"play", "pause", "restart", "poll", "open", "select", "exit"}
Stages == {"send", "answer", "launch", "stop", "stopping", "settle", "load", "over"}
Requests == {"play", "pause", "restart", "poll", "loop", "unloop", "shutdown"}

Frame(slot, part, memory) == [slot |-> slot, part |-> part, memory |-> memory]
Frames == [slot : Nat, part : Nat, memory : Nat]

\* The frames of a whole pass through a cartridge: every slot decoded after all before it.
Pass(slots) ==
    [i \in 1..slots * SlotFrames |->
        Frame((i - 1) \div SlotFrames, (i - 1) % SlotFrames, (i - 1) \div SlotFrames)]

Idle == [name |-> "none", at |-> "over", failed |-> FALSE]
NoCall == [name |-> "none", why |-> "none", asked |-> FALSE]
Fresh == [life |-> "running", playing |-> FALSE, loop |-> view.loop, pending |-> <<>>,
          presented |-> 0, playhead |-> 0, eos |-> FALSE]
Gone == [life |-> "none", playing |-> FALSE, loop |-> FALSE, pending |-> <<>>,
         presented |-> 0, playhead |-> 0, eos |-> FALSE]

NoWorker == [playhead |-> 0, memory |-> 0, loops |-> FALSE]

Init ==
    /\ view = [phase |-> "empty", loop |-> FALSE, position |-> 0]
    /\ cartridge = 0
    /\ held = FALSE
    /\ cmd = Idle
    /\ answer = "none"
    /\ queue = <<>>
    /\ actor = Gone
    /\ call = NoCall
    /\ worker = NoWorker
    /\ link = "up"
    /\ shown = <<>>
    /\ halved = FALSE
    /\ behind = FALSE
    /\ mishaps = 0

-----------------------------------------------------------------------------
(* The coordinator *)

MaySet(playing) ==
    view.phase \in IF playing THEN {"ready", "paused"} ELSE {"playing", "paused"}

AsPlaying(playing) == [view EXCEPT !.phase = IF playing THEN "playing" ELSE "paused"]
\* Mutation: the phase is kept.
AtStartPlaying == [view EXCEPT !.position = 0]

AtStart == [view EXCEPT !.phase = "paused", !.position = 0]
AsError == [view EXCEPT !.phase = "error"]

-----------------------------------------------------------------------------
(* Commands of the interface *)

\* A command takes the lock; one that needs a runtime and finds none starts it or is refused.
Begin(c) ==
    /\ cmd = Idle
    /\ c \in {"open", "select", "exit"} \/ cartridge # 0
    /\ c \in {"pause", "poll"} => held
    /\ cmd' = [name |-> c, failed |-> FALSE,
               at |-> IF c \in {"open", "select", "exit"} THEN "stop"
                      ELSE IF held THEN "send" ELSE "launch"]
    /\ UNCHANGED <<view, cartridge, held, answer, queue, actor, call, worker, link, shown, halved,
                   behind, mishaps>>

\* start_protocol2: a worker, an output and an actor that is not playing yet.
Launch ==
    /\ cmd.at = "launch"
    /\ \/ /\ actor' = Fresh
          /\ worker' = [NoWorker EXCEPT !.loops = view.loop]
          /\ link' = "up"
          /\ shown' = <<>> /\ halved' = FALSE
          /\ cmd' = [cmd EXCEPT !.at = "send"]
       \/ /\ "start" \in Faults
          /\ cmd' = Idle
          /\ UNCHANGED <<actor, worker, link, shown, halved>>
    /\ UNCHANGED <<view, cartridge, held, answer, queue, call, behind, mishaps>>

\* request: the channel may be full, or closed.
Send ==
    /\ cmd.at = "send"
    /\ cmd' = [cmd EXCEPT !.at = "answer"]
    /\ \/ /\ actor.life \in {"running", "closing"}
          /\ Len(queue) < ChannelCapacity
          /\ queue' = Append(queue, [name |-> cmd.name, asked |-> TRUE])
          /\ UNCHANGED answer
       \/ /\ actor.life = "ended"
          /\ answer' = "unavailable"
          /\ UNCHANGED queue
    /\ UNCHANGED <<view, cartridge, held, actor, call, worker, link, shown, halved, behind,
                   mishaps>>

\* The answer ends the command, or stops a runtime that could not be put to use.
Receive ==
    /\ cmd.at = "answer" /\ answer # "none"
    /\ answer' = "none"
    /\ \/ /\ answer = "ok"
          /\ held' = TRUE
          /\ cmd' = Idle
       \/ /\ answer # "ok" /\ ~held
          /\ cmd' = [cmd EXCEPT !.at = "stop", !.failed = TRUE]
          /\ UNCHANGED held
       \/ /\ answer = "unavailable" /\ held /\ cmd.name = "restart"
          /\ cmd' = [cmd EXCEPT !.at = "stop"]
          /\ UNCHANGED held
       \/ /\ answer # "ok" /\ held
          /\ cmd.name = "restart" => answer # "unavailable"
          /\ cmd' = Idle
          /\ UNCHANGED held
    /\ UNCHANGED <<view, cartridge, queue, actor, call, worker, link, shown, halved, behind,
                   mishaps>>

\* ACTOR_DEADLINE or SHUTDOWN_DEADLINE passes; the request stays where it is.
GiveUp ==
    /\ mishaps < MaxMishaps
    /\ mishaps' = mishaps + 1
    /\ cmd.at \in {"answer", "stopping"} /\ answer = "none"
    /\ call # NoCall
    /\ answer' = "late"
    /\ queue' = [i \in 1..Len(queue) |-> [queue[i] EXCEPT !.asked = FALSE]]
    /\ call' = [call EXCEPT !.asked = FALSE]
    /\ UNCHANGED <<view, cartridge, held, cmd, actor, worker, link, shown, halved, behind>>

\* shutdown: at once when the actor has ended, else by a request.
Stop ==
    /\ cmd.at = "stop"
    /\ actor.life \in {"running", "closing"}
    /\ Len(queue) < ChannelCapacity
    /\ queue' = Append(queue, [name |-> "shutdown", asked |-> TRUE])
    /\ cmd' = [cmd EXCEPT !.at = "stopping"]
    /\ UNCHANGED <<view, cartridge, held, answer, actor, call, worker, link, shown, halved, behind,
                   mishaps>>

StopAcknowledged ==
    /\ cmd.at = "stopping" /\ answer = "ok"
    /\ answer' = "none"
    /\ cmd' = [cmd EXCEPT !.at = "settle"]
    /\ UNCHANGED <<view, cartridge, held, queue, actor, call, worker, link, shown, halved, behind,
                   mishaps>>

\* The runtime has been taken from its slot and is dropped, its task aborted if it still runs.
\* The command goes on, unless it only stopped what it had started or the stop failed.
Stopped(wholly) ==
    /\ held' = FALSE
    /\ actor' = Gone
    /\ queue' = <<>>
    /\ call' = NoCall
    /\ answer' = "none"
    /\ worker' = NoWorker /\ link' = "up" /\ shown' = <<>> /\ halved' = FALSE
    /\ behind' = (view.phase = "playing")
    /\ cmd' = IF cmd.name = "exit" THEN [cmd EXCEPT !.at = "over"]
              ELSE IF cmd.failed \/ ~wholly \/ cmd.name = "select" THEN Idle
              ELSE [cmd EXCEPT !.at = IF cmd.name = "open" THEN "load" ELSE "launch"]
    /\ UNCHANGED <<view, cartridge>>

StopDone ==
    /\ \/ cmd.at = "stop" /\ actor.life \in {"none", "ended"}
       \/ cmd.at = "settle" /\ actor.life = "ended"
    /\ Stopped(TRUE)
    /\ UNCHANGED mishaps

StopFails ==
    /\ \/ cmd.at = "stopping" /\ answer \notin {"none", "ok"} /\ UNCHANGED mishaps
       \/ cmd.at = "settle" /\ actor.life # "ended" /\ mishaps < MaxMishaps /\ mishaps' = mishaps + 1
    /\ Stopped(FALSE)

\* open_cartridge
Load ==
    /\ cmd.at = "load"
    /\ cmd' = Idle
    /\ behind' = FALSE
    /\ \/ \E slots \in Cartridges :
             /\ cartridge' = slots
             /\ view' = [view EXCEPT !.phase = "ready", !.position = 0]
       \/ /\ "file" \in Faults
          /\ view' = AsError
          /\ UNCHANGED cartridge
    /\ UNCHANGED <<held, answer, queue, actor, call, worker, link, shown, halved, mishaps>>

\* player_set_loop: told to the actor if there is one with room in its channel, without waiting.
SetLoop ==
    /\ cmd = Idle
    /\ cartridge # 0
    /\ view' = [view EXCEPT !.loop = ~view.loop]
    /\ queue' = IF /\ held /\ actor.life \in {"running", "closing"}
                   /\ Len(queue) < ChannelCapacity
                THEN Append(queue, [name |-> IF view.loop THEN "unloop" ELSE "loop",
                                    asked |-> FALSE])
                ELSE queue
    /\ UNCHANGED <<cartridge, held, cmd, answer, actor, call, worker, link, shown, halved, behind,
                   mishaps>>

-----------------------------------------------------------------------------
(* The actor *)

Looks == actor.life = "running" /\ call = NoCall

Told(asked, verdict) == answer' = IF asked THEN verdict ELSE answer

\* The loop takes a request: before a refill, or before a frame is due.  Of the polls,
\* Status asks the worker and the viewport and Spout requests do not.
Take ==
    /\ Looks
    /\ queue # <<>>
    /\ queue' = Tail(queue)
    /\ LET r == Head(queue)
           Calls(name) == call' = [name |-> name, why |-> r.name, asked |-> r.asked]
       IN  \/ /\ r.name \in {"loop", "unloop"}
              /\ actor' = [actor EXCEPT !.loop = (r.name = "loop")]
              /\ UNCHANGED <<call, answer, behind>>
           \/ /\ r.name = "poll"
              /\ Told(r.asked, "ok")
              /\ UNCHANGED <<actor, call, behind>>
           \/ /\ r.name \in {"play", "poll"}
              /\ Calls("status")
              /\ UNCHANGED <<actor, answer, behind>>
           \/ /\ r.name \in {"pause", "restart", "shutdown"}
              /\ actor' = [actor EXCEPT !.playing = FALSE]
              /\ behind' = (view.phase = "playing")
              /\ Calls(CASE r.name = "pause" -> "status"
                          [] r.name = "restart" -> "reset"
                          [] OTHER -> "shutdown")
              /\ UNCHANGED answer
    /\ UNCHANGED <<view, cartridge, held, cmd, worker, link, shown, halved, mishaps>>

\* record_error and the way out of the loop.
BreakOff ==
    /\ actor' = [Gone EXCEPT !.life = "closing"]
    /\ view' = AsError
    /\ behind' = FALSE

\* Mutations: only the worker's flag tells the end, or the last slot does.
AtEndByWorker == actor.eos
AtEndEarly == actor.playhead + 1 >= cartridge \/ actor.eos

AtEnd == actor.playhead >= cartridge \/ actor.eos

RefillDue == actor.playing /\ actor.pending = <<>> /\ queue = <<>>

\* refill_once, when every frame has been shown and no request waits.
Refill ==
    /\ Looks /\ RefillDue
    /\ \/ /\ ~AtEnd
          /\ call' = [NoCall EXCEPT !.name = "step"]
          /\ UNCHANGED <<view, actor, behind>>
       \/ /\ AtEnd /\ actor.loop
          /\ call' = [NoCall EXCEPT !.name = "reset", !.why = "loop"]
          /\ UNCHANGED <<view, actor, behind>>
       \/ /\ AtEnd /\ ~actor.loop /\ MaySet(FALSE)
          /\ actor' = [actor EXCEPT !.playing = FALSE, !.eos = TRUE]
          /\ view' = AsPlaying(FALSE)
          /\ behind' = FALSE
          /\ UNCHANGED call
       \/ /\ AtEnd /\ ~actor.loop /\ ~MaySet(FALSE)
          /\ BreakOff
          /\ UNCHANGED call
    /\ UNCHANGED <<cartridge, held, cmd, answer, queue, worker, link, shown, halved, mishaps>>

\* Mutation: the last frame of a batch is kept.
FrameDueButLast == actor.playing /\ Len(actor.pending) > 1

FrameDue == actor.playing /\ actor.pending # <<>>

\* present_once; the output may fail.
Present ==
    /\ Looks /\ FrameDue
    /\ \/ /\ shown' = Append(shown, Head(actor.pending))
          /\ actor' = [actor EXCEPT !.pending = Tail(actor.pending),
                                    !.presented = actor.presented + 1]
          /\ view' = [view EXCEPT !.position =
                          IF actor.presented < cartridge * SlotFrames
                          THEN actor.presented ELSE cartridge * SlotFrames - 1]
          /\ UNCHANGED behind
       \/ /\ "output" \in Faults
          /\ BreakOff
          /\ UNCHANGED shown
    /\ UNCHANGED <<cartridge, held, cmd, answer, queue, call, worker, link, halved, mishaps>>

\* player.status is answered: a play or a pause now takes effect, if the view allows it.
StatusDone ==
    /\ call.name = "status" /\ link = "up"
    /\ call' = NoCall
    /\ \/ /\ call.why = "poll"
          /\ Told(call.asked, "ok")
          /\ UNCHANGED <<view, actor, behind>>
       \/ /\ call.why \in {"play", "pause"}
          /\ MaySet(call.why = "play")
          /\ view' = AsPlaying(call.why = "play")
          /\ actor' = [actor EXCEPT !.playing = (call.why = "play")]
          /\ behind' = FALSE
          /\ Told(call.asked, "ok")
       \/ /\ call.why \in {"play", "pause"}
          /\ ~MaySet(call.why = "play")
          /\ Told(call.asked, "unavailable")
          /\ UNCHANGED <<view, actor, behind>>
    /\ UNCHANGED <<cartridge, held, cmd, queue, worker, link, shown, halved, mishaps>>

\* _player_reset of the worker: the decoder forgets, the playhead returns.
Rewound == [worker EXCEPT !.playhead = 0, !.memory = 0]

\* player.reset: both sides start again; a loop goes straight on to its first step.
ResetDone ==
    /\ call.name = "reset" /\ link = "up"
    /\ worker' = Rewound
    /\ actor' = [actor EXCEPT !.pending = <<>>, !.presented = 0, !.playhead = 0, !.eos = FALSE]
    /\ shown' = <<>> /\ halved' = FALSE
    /\ behind' = FALSE
    /\ \/ /\ call.why = "restart"
          /\ view' = AtStart
          /\ Told(call.asked, "ok")
          /\ call' = NoCall
       \/ /\ call.why = "loop"
          /\ view' = [AtStart EXCEPT !.phase = "playing"]
          /\ call' = [NoCall EXCEPT !.name = "step"]
          /\ UNCHANGED answer
    /\ UNCHANGED <<cartridge, held, cmd, queue, link, mishaps>>

\* Where the worker decodes next: a source opened with loop wraps, another one is refused.
NextSlot == IF worker.playhead >= cartridge /\ worker.loops THEN 0 ELSE worker.playhead

\* _player_step: the slot decoded, the frames published, the end it reports with them.
Decoded == [worker EXCEPT !.playhead = NextSlot + 1, !.memory = worker.memory + 1]
Batch == [part \in 1..SlotFrames |-> Frame(NextSlot, part - 1, worker.memory)]
ReportsEnd == Decoded.playhead >= cartridge /\ ~worker.loops

\* player.step: one slot decoded, its frames read from the ring and queued.
StepDone ==
    /\ call.name = "step" /\ link = "up"
    /\ NextSlot < cartridge
    /\ worker' = Decoded
    /\ actor' = [actor EXCEPT !.playhead = Decoded.playhead, !.eos = ReportsEnd,
                              !.pending = Batch]
    /\ call' = NoCall
    /\ UNCHANGED <<view, cartridge, held, cmd, answer, queue, link, shown, halved, behind, mishaps>>

ShutdownDone ==
    /\ call.name = "shutdown"
    /\ call' = NoCall
    /\ actor' = [Gone EXCEPT !.life = "closing"]
    /\ worker' = NoWorker /\ link' = "down"
    /\ \/ link = "up" /\ Told(call.asked, "ok")
       \/ link = "down" /\ \E verdict \in {"ok", "failed"} : Told(call.asked, verdict)
    /\ UNCHANGED <<view, cartridge, held, cmd, queue, shown, halved, behind, mishaps>>

WorkerRefuses ==
    \/ call.name = "step" /\ NextSlot >= cartridge
    \/ call.name \in {"reset", "step"} /\ "reject" \in Faults

\* A call that fails ends the actor if its own loop made it, and is only reported otherwise;
\* a reset may fail between the decoder and the ring.
CallFails ==
    /\ call.name \in {"status", "reset", "step"}
    /\ link = "down" \/ WorkerRefuses
    /\ call' = NoCall
    /\ \/ UNCHANGED <<worker, halved, mishaps>>
       \/ /\ call.name = "reset" /\ link = "up" /\ mishaps < MaxMishaps
          /\ mishaps' = mishaps + 1
          /\ worker' = [worker EXCEPT !.memory = 0]
          /\ halved' = (halved \/ worker.memory # 0)
    /\ \/ /\ call.name = "step" \/ call.why = "loop"
          /\ BreakOff
          /\ UNCHANGED answer
       \/ /\ call.name # "step" /\ call.why # "loop"
          /\ Told(call.asked, "failed")
          /\ UNCHANGED <<view, actor, behind>>
    /\ UNCHANGED <<cartridge, held, cmd, queue, link, shown>>

\* Mutation: the requests left in the channel are never answered.
CleanupSilent ==
    /\ actor.life = "closing"
    /\ actor' = [actor EXCEPT !.life = "ended"]
    /\ queue' = <<>>
    /\ UNCHANGED <<view, cartridge, held, cmd, answer, call, worker, link, shown, halved, behind,
                   mishaps>>

\* The actor is out of its loop: the channel closes on the requests left in it.
Cleanup ==
    /\ actor.life = "closing"
    /\ actor' = [actor EXCEPT !.life = "ended"]
    /\ queue' = <<>>
    /\ Told(\E i \in 1..Len(queue) : queue[i].asked, "unavailable")
    /\ UNCHANGED <<view, cartridge, held, cmd, call, worker, link, shown, halved, behind, mishaps>>

LinkFails ==
    /\ "link" \in Faults
    /\ actor.life = "running" /\ link = "up"
    /\ worker' = NoWorker /\ link' = "down"
    /\ UNCHANGED <<view, cartridge, held, cmd, answer, queue, actor, call, shown, halved, behind,
                   mishaps>>

-----------------------------------------------------------------------------

CommandStep == Launch \/ Send \/ Receive \/ Stop \/ StopAcknowledged \/ StopDone \/ StopFails \/ Load
Served == StatusDone \/ ResetDone \/ StepDone \/ ShutdownDone \/ CallFails

Next ==
    \/ \E c \in Commands : Begin(c)
    \/ SetLoop
    \/ GiveUp
    \/ LinkFails
    \/ CommandStep
    \/ Take \/ Refill \/ Present \/ Served \/ Cleanup

Spec == Init /\ [][Next]_vars

\* A command goes on when it can, the actor and its worker too; a due frame comes before the
\* requests of its iteration.  No command, fault or deadline is forced.
FairSpec ==
    /\ Spec
    /\ WF_vars(Launch \/ Send \/ Receive \/ Stop \/ StopAcknowledged \/ StopDone \/ Load)
    /\ WF_vars(cmd.at = "stopping" /\ StopFails)
    /\ WF_vars(Take) /\ SF_vars(Refill) /\ SF_vars(Present)
    /\ WF_vars(Served) /\ WF_vars(Cleanup)

-----------------------------------------------------------------------------

\* The kinds of value each variable takes.
TypeOK ==
    /\ view \in [phase : Phases, loop : BOOLEAN, position : Nat]
    /\ cartridge \in Cartridges \cup {0}
    /\ held \in BOOLEAN /\ behind \in BOOLEAN
    /\ cmd \in [name : Commands \cup {"none"}, at : Stages, failed : BOOLEAN]
    /\ answer \in {"none", "ok", "failed", "unavailable", "late"}
    /\ queue \in Seq([name : Requests, asked : BOOLEAN])
    /\ actor \in [life : {"none", "running", "closing", "ended"}, playing : BOOLEAN,
                  loop : BOOLEAN, pending : Seq(Frames), presented : Nat, playhead : Nat,
                  eos : BOOLEAN]
    /\ call \in [name : {"none", "status", "reset", "step", "shutdown"},
                 why : Requests \cup {"none"}, asked : BOOLEAN]
    /\ worker \in [playhead : Nat, memory : Nat, loops : BOOLEAN]
    /\ link \in {"up", "down"}
    /\ shown \in Seq(Frames) /\ halved \in BOOLEAN
    /\ mishaps \in Nat

Plays == actor.life = "running" /\ actor.playing

\* The frame of the pass, or, once a reset has failed half way, that of a younger decoder.
Alike(f, g) == f.slot = g.slot /\ f.part = g.part /\ (f.memory = g.memory \/ halved)

\* What a runtime has shown since it started, was restarted or looped is the cartridge from its
\* first frame on, each frame once and, unless a restart failed with the decoder reset already,
\* decoded by a decoder that has seen all slots before it and nothing else: no wrap inside the
\* worker, no frame of before a restart, none twice (refill_once, reset and step of the actor,
\* _player_step and _player_reset of the worker).
PassFaithful ==
    actor.life # "none" =>
        /\ Len(shown) <= cartridge * SlotFrames
        /\ \A i \in 1..Len(shown) : Alike(shown[i], Pass(cartridge)[i])

\* Every frame of the cartridge has been shown.
ShownWhole == Len(shown) = cartridge * SlotFrames /\ PassFaithful

\* Playback that comes to its end by itself, to pause there or to loop, has shown every frame of
\* the cartridge, whenever Loop was changed and whatever Loop the source was opened with.
EndsWhole ==
    [][\/ Plays /\ queue' = queue /\ actor'.life = "running" /\ ~actor'.playing
       \/ call.why # "loop" /\ call'.why = "loop"
       => ShownWhole]_vars

\* The view says playing whenever the runtime plays, and says it otherwise only after a pause,
\* restart or stop that stopped the runtime and could not tell the view; and its position is the
\* frame on the output.
ViewHonest ==
    /\ Plays => view.phase = "playing"
    /\ view.phase = "playing" => Plays \/ behind
    /\ actor.life = "running" /\ shown # <<>> => view.position = Len(shown) - 1

\* Every command of the interface ends without its deadline: no request is starved by decoding
\* and presenting, lost with the actor, or left waiting for a full channel.
CommandsEnd == (cmd.at # "over") ~> (cmd.at = "over")

\* Playback gets to the last frame of the cartridge unless something stops it; pollers may ask
\* for ever, and Loop is changed finitely often.
PlaysOut == <>[][~SetLoop]_vars => Plays ~> (~Plays \/ ShownWhole)
=============================================================================
