----------------------------- MODULE WorkerLink -----------------------------
(***************************************************************************)
(* One Protocol 2 worker session, from spawn to the end of the process: the  *)
(* host's supervisor and sequential client, the two directions of the named   *)
(* pipe, and in the worker the command loop and the heartbeat thread, which   *)
(* share the writer.  Deadlines may pass at any time, also in the middle of a *)
(* frame and while the worker is still serving; either process may die.       *)
(* A message ID is a fresh UUID, so a command is identified by its sequence.  *)
(***************************************************************************)
EXTENDS Naturals, Sequences, FiniteSets

CONSTANTS
    MaxMessages,    \* MAX_MESSAGES_PER_SESSION
    MaxPending,     \* MAX_PENDING_COMMANDS
    PipeFrames,     \* frames the pipe to the host buffers before a writer blocks
    MaxCalls,       \* bound: commands sent
    MaxFrames,      \* bound: frames the worker sends, heartbeats included
    MaxLate,        \* bound: deadlines that pass while the worker is able to answer
    Faults          \* faults of the instance

Names == {"configure", "work", "shutdown"}

ASSUME LinkAssumption ==
    /\ MaxMessages \in Nat \ {0} /\ MaxPending \in Nat \ {0} /\ PipeFrames \in Nat \ {0}
    /\ MaxCalls \in Nat /\ MaxFrames \in Nat /\ MaxLate \in Nat
    /\ Faults \subseteq {"host", "worker", "hang", "contain"}

VARIABLES
    host,           \* progress of the supervisor and its client
    configured,     \* whether the client has a heartbeat deadline
    outcome,        \* what the last call returned: [of : number of the call, verdict]
    sent,           \* names of the commands the validator has tracked
    pending,        \* commands without a reply
    nextIn,         \* sequence expected of the next frame
    reading,        \* whether a part of the first frame in the pipe has been read
    cut,            \* whether a read was cancelled inside a frame
    toWorker,       \* commands in the pipe
    toHost,         \* frames in the pipe
    contained,      \* whether the worker is in the Job Object
    worker,         \* progress of the worker's main thread
    session,        \* state of the worker's session
    cmd,            \* command the main thread has taken
    reply,          \* frame body the main thread is to send
    writing,        \* where the main thread is in send
    nextCommand,    \* sequence the worker expects of the next command
    nextOut,        \* sequence of the worker's next frame
    pump,           \* the heartbeat thread
    stopping,       \* its stop event
    hung,           \* whether the command being served never returns
    served,         \* verdicts of the commands, in the order they were dispatched
    late            \* bound: deadlines passed so far

hostVars == <<host, configured, outcome, sent, pending, nextIn, reading, cut>>
mainVars == <<session, cmd, reply, writing, nextCommand, hung, served>>
vars == <<hostVars, mainVars, toWorker, toHost, contained, worker, nextOut, pump, stopping, late>>

Verdicts == {"ack", "error", "timeout", "unexpected", "protocol", "limit", "exited", "none"}
Command == [seq : Nat, name : Names]
Body == [kind : {"hello", "ack", "error", "heartbeat"}, to : Nat, name : Names \cup {"none"}]
Frame == [seq : Nat, body : Body]

Event(kind) == [kind |-> kind, to |-> 0, name |-> "none"]
NoCommand == [seq |-> 0, name |-> "work"]

TypeOK ==
    /\ host \in {"idle", "spawned", "contained", "connecting", "ready", "calling", "closing", "acked", "gone"}
    /\ configured \in BOOLEAN
    /\ outcome \in [of : Nat, verdict : Verdicts]
    /\ sent \in Seq(Names) /\ pending \subseteq 1..Len(sent) /\ nextIn \in Nat \ {0}
    /\ reading \in BOOLEAN /\ cut \in BOOLEAN
    /\ toWorker \in Seq(Command) /\ toHost \in Seq(Frame)
    /\ contained \in BOOLEAN
    /\ worker \in {"absent", "booting", "greeting", "listening", "joining", "serving", "replying", "leaving", "dead"}
    /\ session \in {"unconfigured", "ready", "stopping", "stopped"}
    /\ cmd \in Command /\ reply \in Body
    /\ writing \in {"no", "locked", "written"}
    /\ nextCommand \in Nat \ {0} /\ nextOut \in Nat \ {0}
    /\ pump \in {"off", "waiting", "locked", "written", "ended", "failed"}
    /\ stopping \in BOOLEAN /\ hung \in BOOLEAN
    /\ served \in Seq({"ack", "error"}) /\ late \in Nat

Init ==
    /\ host = "idle" /\ configured = FALSE /\ outcome = [of |-> 0, verdict |-> "none"]
    /\ sent = <<>> /\ pending = {} /\ nextIn = 1 /\ reading = FALSE /\ cut = FALSE
    /\ toWorker = <<>> /\ toHost = <<>> /\ contained = FALSE
    /\ worker = "absent" /\ session = "unconfigured" /\ cmd = NoCommand
    /\ reply = Event("hello") /\ writing = "no" /\ nextCommand = 1 /\ nextOut = 1
    /\ pump = "off" /\ stopping = FALSE /\ hung = FALSE /\ served = <<>> /\ late = 0

WorkerLives == worker \notin {"absent", "dead"}
Ends == worker' = "dead" /\ pump' = "off" /\ writing' = "no"
-----------------------------------------------------------------------------
(* The supervisor: spawn, containment, bootstrap.                            *)

Spawn ==
    /\ host = "idle"
    /\ host' = "spawned" /\ worker' = "booting"
    /\ UNCHANGED <<configured, outcome, sent, pending, nextIn, reading, cut, mainVars,
                   toWorker, toHost, contained, nextOut, pump, stopping, late>>

Contain ==
    /\ host = "spawned"
    /\ host' = "contained" /\ contained' = TRUE
    /\ UNCHANGED <<configured, outcome, sent, pending, nextIn, reading, cut, mainVars,
                   toWorker, toHost, worker, nextOut, pump, stopping, late>>

(* The child is killed and waited for before the error is returned.          *)
ContainFails ==
    /\ "contain" \in Faults /\ host = "spawned"
    /\ host' = "gone" /\ Ends
    /\ UNCHANGED <<configured, outcome, sent, pending, nextIn, reading, cut, session, cmd, reply,
                   nextCommand, hung, served, toWorker, toHost, contained, nextOut, stopping, late>>

Bootstrap ==
    /\ host = "contained"
    /\ IF worker = "dead"
       THEN host' = "gone"
       ELSE host' = "connecting"
    /\ UNCHANGED <<configured, outcome, sent, pending, nextIn, reading, cut, mainVars,
                   toWorker, toHost, contained, worker, nextOut, pump, stopping, late>>

(* A dropped session closes the Job Object, and so does the end of the host. *)
KilledByJob ==
    /\ host = "gone" /\ contained /\ WorkerLives
    /\ Ends
    /\ UNCHANGED <<hostVars, session, cmd, reply, nextCommand, hung, served,
                   toWorker, toHost, contained, nextOut, stopping, late>>

Leave ==
    /\ host' = "gone" /\ reading' = FALSE
    /\ UNCHANGED <<configured, outcome, sent, pending, nextIn, cut>>

Drop ==
    /\ host = "ready"
    /\ Leave
    /\ UNCHANGED <<mainVars, toWorker, toHost, contained, worker, nextOut, pump, stopping, late>>

ForceKill ==
    /\ host = "ready"
    /\ Ends
    /\ UNCHANGED <<hostVars, session, cmd, reply, nextCommand, hung, served,
                   toWorker, toHost, contained, nextOut, stopping, late>>

HostDies ==
    /\ "host" \in Faults /\ host \notin {"idle", "gone"}
    /\ Leave
    /\ UNCHANGED <<mainVars, toWorker, toHost, contained, worker, nextOut, pump, stopping, late>>
-----------------------------------------------------------------------------
(* The client and the validator of its session.                              *)

Waits == host \in {"connecting", "calling", "closing"}
InCall == host \in {"calling", "closing", "acked"}

Return(v) ==
    /\ host' = "ready" /\ outcome' = [of |-> Len(sent), verdict |-> v]

CanSend == Len(sent) < MaxMessages /\ Cardinality(pending) < MaxPending

Send(name, as) ==
    /\ CanSend /\ Len(sent) < MaxCalls
    /\ sent' = Append(sent, name)
    /\ pending' = pending \cup {Len(sent) + 1}
    /\ toWorker' = Append(toWorker, [seq |-> Len(sent) + 1, name |-> name])
    /\ host' = as

(* The owner configures the session first, and goes on only if that worked.  *)
Call(name) ==
    /\ host = "ready"
    /\ IF name = "configure" THEN sent = <<>> ELSE configured
    /\ Send(name, IF name = "shutdown" THEN "closing" ELSE "calling")
    /\ UNCHANGED <<configured, outcome, nextIn, reading, cut, mainVars,
                   toHost, contained, worker, nextOut, pump, stopping, late>>

CallRefused ==
    /\ host = "ready" /\ configured /\ ~CanSend
    /\ Return("limit")
    /\ UNCHANGED <<configured, sent, pending, nextIn, reading, cut, mainVars,
                   toWorker, toHost, contained, worker, nextOut, pump, stopping, late>>

(* read_exact has taken the length or a part of the payload.                 *)
ReadSome ==
    /\ Waits /\ toHost # <<>> /\ ~reading /\ ~cut
    /\ reading' = TRUE
    /\ UNCHANGED <<host, configured, outcome, sent, pending, nextIn, cut, mainVars,
                   toWorker, toHost, contained, worker, nextOut, pump, stopping, late>>

KnownReply(b) == b.to \in pending /\ b.name = sent[b.to]

Accepts(f) ==
    /\ f.seq = nextIn /\ nextIn <= MaxMessages
    /\ IF f.body.kind = "hello" THEN nextIn = 1 ELSE nextIn > 1
    /\ f.body.kind \in {"ack", "error"} => KnownReply(f.body)

(* A client that compared the names of command and reply only.               *)
IsNamesake(b) == b.name = sent[Len(sent)]

IsOwn(b) == b.to = Len(sent)

Take ==
    /\ Waits /\ reading /\ ~cut /\ toHost # <<>>
    /\ reading' = FALSE /\ toHost' = Tail(toHost)

Advance(b) == nextIn' = nextIn + 1 /\ pending' = pending \ {b.to}

Reject ==
    /\ Take /\ ~Accepts(Head(toHost))
    /\ IF host = "connecting" THEN host' = "gone" /\ UNCHANGED outcome
       ELSE Return(IF nextIn > MaxMessages THEN "limit" ELSE "protocol")
    /\ UNCHANGED <<configured, sent, pending, nextIn, cut, mainVars,
                   toWorker, contained, worker, nextOut, pump, stopping, late>>

Greeted ==
    /\ host = "connecting" /\ Take /\ Accepts(Head(toHost))
    /\ Advance(Head(toHost).body) /\ host' = "ready"
    /\ UNCHANGED <<configured, outcome, sent, cut, mainVars,
                   toWorker, contained, worker, nextOut, pump, stopping, late>>

(* A shutdown that is over with its reply.                                   *)
RepliedOnce(b) ==
    /\ b.kind \in {"ack", "error"} /\ IsOwn(b)
    /\ Return(b.kind)
    /\ configured' = (configured \/ (b.kind = "ack" /\ b.name = "configure"))

(* The reply of the call; the deadline for heartbeats starts with session.configure. *)
Replied(b) ==
    /\ b.kind \in {"ack", "error"} /\ IsOwn(b)
    /\ IF host = "closing" /\ b.kind = "ack"
       THEN host' = "acked" /\ UNCHANGED outcome
       ELSE Return(b.kind)
    /\ configured' = (configured \/ (b.kind = "ack" /\ b.name = "configure"))

Heartbeat(b) ==
    /\ b.kind = "heartbeat"
    /\ UNCHANGED <<host, outcome, configured>>

(* A call fails on the late reply of an earlier one; a shutdown passes over it. *)
LateReply(b) ==
    /\ b.kind \in {"ack", "error"} /\ ~IsOwn(b)
    /\ IF host = "closing" THEN UNCHANGED <<host, outcome>> ELSE Return("unexpected")
    /\ UNCHANGED configured

Receive ==
    /\ host \in {"calling", "closing"} /\ Take /\ Accepts(Head(toHost))
    /\ LET b == Head(toHost).body IN
        /\ Advance(b)
        /\ Replied(b) \/ Heartbeat(b) \/ LateReply(b)
    /\ UNCHANGED <<sent, cut, mainVars, toWorker, contained, worker, nextOut, pump, stopping, late>>

(* The deadline of the call, of heartbeats or of the connection.  A read that *)
(* is cancelled inside a frame loses what it had read.                        *)
Expire(h) ==
    /\ h \in {"connecting", "calling", "closing", "acked"} /\ host = h
    /\ IF h = "connecting" THEN Leave
       ELSE /\ Return("timeout")
            /\ cut' = (cut \/ reading) /\ reading' = FALSE
            /\ UNCHANGED <<configured, sent, pending, nextIn>>
    /\ UNCHANGED <<mainVars, toWorker, toHost, contained, worker, nextOut, pump, stopping>>

Late == late < MaxLate /\ late' = late + 1 /\ Expire(host)

(* A deadline that every heartbeat renews.                                   *)
Renewed == cut /\ Expire(host) /\ UNCHANGED late

(* Nothing will come any more: the command hangs, or the stream is out of frame. *)
Starved == (hung \/ cut) /\ Expire(host) /\ UNCHANGED late

(* Out of frame, bytes are taken for a length and a payload: the codec rejects *)
(* them, or waits for more.                                                    *)
ReadGarbage ==
    /\ host \in {"calling", "closing"} /\ cut /\ toHost # <<>>
    /\ \E n \in 1..Len(toHost) : toHost' = SubSeq(toHost, n + 1, Len(toHost))
    /\ Return("protocol") \/ UNCHANGED <<host, outcome>>
    /\ UNCHANGED <<configured, sent, pending, nextIn, reading, cut, mainVars,
                   toWorker, contained, worker, nextOut, pump, stopping, late>>

(* The read is polled before the exit of the process, so what was written in  *)
(* whole before the exit is received first.                                   *)
ExitSeen ==
    /\ worker = "dead"
    /\ \/ Waits /\ (toHost = <<>> \/ reading \/ cut)
       \/ host = "acked"
    /\ CASE host = "acked" -> Return("ack")
         [] host = "connecting" -> host' = "gone" /\ UNCHANGED outcome
         [] OTHER -> Return("exited")
    /\ reading' = FALSE /\ cut' = (cut \/ reading)
    /\ UNCHANGED <<configured, sent, pending, nextIn, mainVars,
                   toWorker, toHost, contained, worker, nextOut, pump, stopping, late>>
-----------------------------------------------------------------------------
(* The worker: one lock for the sequence and the write of a frame.           *)

(* A writer without its lock.                                                *)
WriterShared == writing = "no" \/ pump = "waiting"

WriterFree == writing = "no" /\ pump \notin {"locked", "written"}

HasRoom == Len(toHost) < PipeFrames

Put(b) == toHost' = Append(toHost, [seq |-> nextOut, body |-> b])

Connect ==
    /\ worker = "booting" /\ host = "connecting"
    /\ worker' = "greeting" /\ reply' = Event("hello")
    /\ UNCHANGED <<hostVars, session, cmd, writing, nextCommand, hung, served,
                   toWorker, toHost, contained, nextOut, pump, stopping, late>>

(* A bootstrap whose pipe the host leaves open to its children.              *)
BootWaits ==
    /\ worker = "booting" /\ host = "gone" /\ contained
    /\ worker' = "leaving"
    /\ UNCHANGED <<hostVars, mainVars, toWorker, toHost, contained, nextOut, pump, stopping, late>>

(* The bootstrap record is cut short, or the pipe is not there any more.     *)
BootFails ==
    /\ worker = "booting" /\ host = "gone"
    /\ worker' = "leaving"
    /\ UNCHANGED <<hostVars, mainVars, toWorker, toHost, contained, nextOut, pump, stopping, late>>

MainLocks ==
    /\ worker \in {"greeting", "replying"} /\ WriterFree
    /\ writing' = "locked"
    /\ UNCHANGED <<hostVars, session, cmd, reply, nextCommand, hung, served,
                   toWorker, toHost, contained, worker, nextOut, pump, stopping, late>>

MainWrites ==
    /\ writing = "locked" /\ host # "gone" /\ HasRoom
    /\ Put(reply) /\ writing' = "written"
    /\ UNCHANGED <<hostVars, session, cmd, reply, nextCommand, hung, served,
                   toWorker, contained, worker, nextOut, pump, stopping, late>>

(* The loop after a frame: heartbeats start with session.configure, and the  *)
(* service returns after session.shutdown, whatever the reply.               *)
MainSent ==
    /\ writing = "written"
    /\ nextOut' = nextOut + 1 /\ writing' = "no"
    /\ worker' = IF worker = "replying" /\ cmd.name = "shutdown" THEN "leaving" ELSE "listening"
    /\ pump' = IF reply.kind = "ack" /\ reply.name = "configure" /\ pump = "off" THEN "waiting" ELSE pump
    /\ UNCHANGED <<hostVars, session, cmd, reply, nextCommand, hung, served,
                   toWorker, toHost, contained, stopping, late>>

MainWriteFails ==
    /\ writing = "locked" /\ host = "gone"
    /\ writing' = "no" /\ worker' = "leaving"
    /\ UNCHANGED <<hostVars, session, cmd, reply, nextCommand, hung, served,
                   toWorker, toHost, contained, nextOut, pump, stopping, late>>

ValidCommand(c) == c.seq = nextCommand /\ nextCommand <= MaxMessages

(* The heartbeat thread is stopped before a shutdown is handled.             *)
Fetch ==
    /\ worker = "listening" /\ toWorker # <<>>
    /\ cmd' = Head(toWorker) /\ toWorker' = Tail(toWorker)
    /\ IF ~ValidCommand(Head(toWorker))
       THEN worker' = "leaving" /\ UNCHANGED <<nextCommand, stopping>>
       ELSE /\ nextCommand' = nextCommand + 1
            /\ IF Head(toWorker).name = "shutdown" /\ pump # "off"
               THEN worker' = "joining" /\ stopping' = TRUE
               ELSE worker' = "serving" /\ UNCHANGED stopping
    /\ UNCHANGED <<hostVars, session, reply, writing, hung, served,
                   toHost, contained, nextOut, pump, late>>

LoopFails ==
    /\ worker = "listening"
    /\ pump = "failed" \/ (host = "gone" /\ toWorker = <<>>)
    /\ worker' = "leaving"
    /\ UNCHANGED <<hostVars, mainVars, toWorker, toHost, contained, nextOut, pump, stopping, late>>

(* The thread ended, or its join timed out while it was blocked in a write.  *)
Joined ==
    /\ worker = "joining"
    /\ worker' = "serving"
    /\ UNCHANGED <<hostVars, mainVars, toWorker, toHost, contained, nextOut, pump, stopping, late>>

(* An operation is rejected or raises; a shutdown that raises has closed some *)
(* of its resources.                                                          *)
Dispatch(v) ==
    \/ /\ cmd.name = "configure"
       /\ v = IF session = "unconfigured" THEN "ack" ELSE "error"
       /\ session' = IF session = "unconfigured" THEN "ready" ELSE session
    \/ /\ cmd.name = "work"
       /\ session \notin {"ready", "stopping"} => v = "error"
       /\ UNCHANGED session
    \/ /\ cmd.name = "shutdown"
       /\ session \in {"unconfigured", "stopped"} => v = "error"
       /\ session' = IF session \in {"unconfigured", "stopped"} THEN session
                     ELSE IF v = "ack" THEN "stopped" ELSE "stopping"

Serve ==
    /\ worker = "serving" /\ ~hung
    /\ \E v \in {"ack", "error"} :
        /\ Dispatch(v)
        /\ served' = Append(served, v)
        /\ reply' = [kind |-> v, to |-> cmd.seq, name |-> cmd.name]
    /\ worker' = "replying"
    /\ UNCHANGED <<hostVars, cmd, writing, nextCommand, hung,
                   toWorker, toHost, contained, nextOut, pump, stopping, late>>

Hang ==
    /\ "hang" \in Faults /\ worker = "serving" /\ ~hung
    /\ hung' = TRUE
    /\ UNCHANGED <<hostVars, session, cmd, reply, writing, nextCommand, served,
                   toWorker, toHost, contained, worker, nextOut, pump, stopping, late>>

(* Whatever ends the service, the transport is aborted and the process ends; *)
(* the heartbeat thread is a daemon.                                         *)
Exit ==
    /\ worker = "leaving"
    /\ Ends
    /\ UNCHANGED <<hostVars, session, cmd, reply, nextCommand, hung, served,
                   toWorker, toHost, contained, nextOut, stopping, late>>

WorkerDies ==
    /\ "worker" \in Faults /\ WorkerLives
    /\ Ends
    /\ UNCHANGED <<hostVars, session, cmd, reply, nextCommand, hung, served,
                   toWorker, toHost, contained, nextOut, stopping, late>>
-----------------------------------------------------------------------------
(* The heartbeat thread.                                                     *)

PumpLocks ==
    /\ pump = "waiting" /\ ~stopping /\ WriterFree /\ nextOut <= MaxFrames
    /\ pump' = "locked"
    /\ UNCHANGED <<hostVars, mainVars, toWorker, toHost, contained, worker, nextOut, stopping, late>>

PumpWrites ==
    /\ pump = "locked" /\ host # "gone" /\ HasRoom
    /\ Put(Event("heartbeat")) /\ pump' = "written"
    /\ UNCHANGED <<hostVars, mainVars, toWorker, contained, worker, nextOut, stopping, late>>

PumpSent ==
    /\ pump = "written"
    /\ nextOut' = nextOut + 1 /\ pump' = "waiting"
    /\ UNCHANGED <<hostVars, mainVars, toWorker, toHost, contained, worker, stopping, late>>

PumpFails ==
    /\ pump = "locked" /\ host = "gone"
    /\ pump' = "failed" /\ stopping' = TRUE
    /\ UNCHANGED <<hostVars, mainVars, toWorker, toHost, contained, worker, nextOut, late>>

PumpStops ==
    /\ pump = "waiting" /\ stopping
    /\ pump' = "ended"
    /\ UNCHANGED <<hostVars, mainVars, toWorker, toHost, contained, worker, nextOut, stopping, late>>
-----------------------------------------------------------------------------
Supervise == Spawn \/ Contain \/ ContainFails \/ Bootstrap \/ Drop \/ ForceKill \/ HostDies \/ KilledByJob
Client == (\E n \in Names : Call(n)) \/ CallRefused \/ ReadSome \/ Reject \/ Greeted \/ Receive
            \/ Late \/ Starved \/ ReadGarbage \/ ExitSeen
Main == Connect \/ BootFails \/ MainLocks \/ MainWrites \/ MainSent \/ MainWriteFails
            \/ Fetch \/ LoopFails \/ Joined \/ Serve \/ Hang \/ Exit \/ WorkerDies
Pump == PumpLocks \/ PumpWrites \/ PumpSent \/ PumpFails \/ PumpStops

Next == Supervise \/ Client \/ Main \/ Pump

Spec == Init /\ [][Next]_vars

(* The deadlines, the scheduler and the end of a job are the system's; what   *)
(* the owner asks and the faults are not promised.  A deadline is only needed *)
(* where nothing can answer any more.                                         *)
HostSteps == Contain \/ Bootstrap \/ ReadSome \/ Reject \/ Greeted \/ Receive
                \/ Starved \/ ReadGarbage \/ ExitSeen
MainSteps == Connect \/ BootFails \/ MainLocks \/ MainWrites \/ MainSent \/ MainWriteFails
                \/ Fetch \/ LoopFails \/ Joined \/ Serve \/ Exit
PumpSteps == PumpWrites \/ PumpSent \/ PumpFails \/ PumpStops

Fairness == WF_vars(HostSteps) /\ WF_vars(MainSteps) /\ WF_vars(PumpSteps) /\ WF_vars(KilledByJob)

FairSpec == Spec /\ Fairness
-----------------------------------------------------------------------------
(* worker_client_v2.rs, call: the detailed session implements the abstract    *)
(* one.  A verdict that is returned is the one the worker gave that very      *)
(* command, however many earlier replies arrive late.                         *)
Told == IF host = "gone" \/ outcome.verdict \notin {"ack", "error"}
        THEN [of |-> IF host = "gone" THEN Len(sent) ELSE outcome.of, verdict |-> "failed"]
        ELSE outcome

Calls == INSTANCE SequentialCalls WITH
            called <- Len(sent), waiting <- InCall, served <- served, answer <- Told
CallsSpec == Calls!Spec

(* v2.rs, SessionValidator: between the genuine peers no frame and no command *)
(* is ever refused for its sequence, its order or its name, unless a deadline *)
(* has cut a frame or the budget of messages is used up.                      *)
PeersAgree ==
    /\ outcome.verdict = "protocol" => cut
    /\ worker = "leaving" /\ host # "gone" => cmd.seq < nextCommand

(* windows.rs, request_shutdown: an end that is reported as orderly left a     *)
(* worker that has closed its resources and is gone.                          *)
CleanEnd ==
    outcome.verdict = "ack" /\ outcome.of > 0 /\ sent[outcome.of] = "shutdown"
        => worker = "dead" /\ session = "stopped"

(* The pipe, the writer's lock, the join of the heartbeat thread and the       *)
(* client never wait for each other in a circle: a call returns without the    *)
(* help of its deadline unless the command hangs or a frame was cut.           *)
CallsEnd == InCall ~> ~InCall

(* windows.rs, spawn_worker_v2: no worker outlives its session, whenever the   *)
(* host stops, even before the worker is in the Job Object.                    *)
WorkerEnds == host = "gone" ~> ~WorkerLives
=============================================================================
