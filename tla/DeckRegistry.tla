---------------------------- MODULE DeckRegistry ----------------------------
(* The warm Deck sessions of LatentDeck (generic_deck_state.rs): the          *)
(* controller, with the session broker and its foreground lease and output    *)
(* pin (broker.rs), and the commands that change them.  A command takes the   *)
(* controller's lock for one section at a time and waits for session actors   *)
(* in between, so every section and every answer of an actor is a step.  A    *)
(* command that is refused only reaps, which is Poll.                         *)
EXTENDS Naturals, FiniteSets

CONSTANTS
    Ids,            \* session identities, each opened once
    None,           \* no session
    MaxWarm,        \* MAX_WARM_SESSIONS (4 in the code)
    Clients,        \* callers, each waiting for the answer to its last command
    May,            \* the commands each caller may send
    Faults,         \* what may go wrong, see FaultKinds
    Requests        \* bound on the commands accepted

FaultKinds == {"worker",    \* an actor ends by itself
               "start",     \* a runtime, a capture or a recording does not start
               "output",    \* the output of an actor fails, which ends the actor
               "preflight", \* new sources are refused
               "late"}      \* an actor does not answer, or end, in time (ACTOR_DEADLINE,
                            \* SHUTDOWN_DEADLINE)

Commands == {"open", "switch", "clear", "replace", "close", "capture", "mp4", "exit"}

ASSUME RegistryAssumption ==
    /\ IsFiniteSet(Ids) /\ None \notin Ids /\ MaxWarm \in Nat /\ Requests \in Nat
    /\ May \in [Clients -> SUBSET Commands] /\ Faults \subseteq FaultKinds

Workers == 1 .. Requests    \* a command starts at most one

VARIABLES
    ctl,        \* GenericDeckController with its GenericSessionRegistry
    task,       \* the command each client waits for, and its locals
    monitors,   \* the pin monitors that were spawned
    started,    \* workers started so far
    serves,     \* the session each worker was started for
    up,         \* workers whose actor has not ended (~is_closed)
    ending,     \* those whose actor answers nothing any more: it has left its loop, or
                \* a shutdown nobody waits for is next in its queue
    overdue,    \* those whose shutdown was given up: nobody waits for their end
    showing,    \* workers whose actor has the foreground
    capturing,  \* workers with a latent capture in progress
    recording,  \* sessions whose recorder is armed, recording or finalizing
    late,       \* the request in each actor's queue whose caller gave up
    used,       \* session identities given out
    exited,     \* shutdown_all has detached the sessions
    left        \* commands the clients may still send

actors == <<started, serves, up, ending, overdue, showing, capturing, recording, late>>
vars == <<ctl, task, monitors, actors, used, exited, left>>

NoLease == [id |-> None, gen |-> 0]
NoPin == [id |-> None, lease |-> 0, gen |-> 0, kind |-> "none"]
NoBroker == [warm |-> [id \in Ids |-> 0], lease |-> NoLease, pin |-> NoPin,
             leases |-> 0, pins |-> 0]
NoTask == [at |-> "idle", op |-> "none", id |-> None, w |-> 0, prev |-> 0, gen |-> 0,
           broker |-> NoBroker, token |-> NoPin, owns |-> FALSE]

Init ==
    /\ ctl = [broker |-> NoBroker, sessions |-> [id \in Ids |-> 0], pending |-> {},
              closing |-> {}, transition |-> 0, transitions |-> 0, replacing |-> None,
              starting |-> NoPin]
    /\ task = [t \in Clients |-> NoTask] /\ monitors = {}
    /\ started = 0 /\ serves = [w \in Workers |-> None] /\ late = [w \in Workers |-> "none"]
    /\ up = {} /\ ending = {} /\ overdue = {} /\ showing = {} /\ capturing = {} /\ recording = {}
    /\ used = {} /\ exited = FALSE /\ left = Requests

-----------------------------------------------------------------------------
(* The broker.  A session is warm with the worker it was opened with.        *)

Warm(b) == {id \in Ids : b.warm[id] # 0}
Forgotten(b, ids) ==
    [b EXCEPT !.warm = [id \in Ids |-> IF id \in ids THEN 0 ELSE b.warm[id]],
              !.lease = IF b.lease.id \in ids THEN NoLease ELSE b.lease]

\* open_session and replace_worker.
Bound(b, id, w) == [b EXCEPT !.warm[id] = w]

\* close_session and handle_worker_fault: the pin goes only with the lease of a fault.
Closable(b, id) == id \in Warm(b) /\ b.pin.id # id
Closed(b, id) == Forgotten(b, {id})
Faulted(b, ids) ==
    [Forgotten(b, ids) EXCEPT !.pin = IF b.lease.id \in ids THEN NoPin ELSE b.pin]

\* switch_foreground to a session that does not hold the lease, and clear_foreground.
Unpinned(b) == b.pin = NoPin
Switched(b, id) ==
    [b EXCEPT !.leases = @ + 1, !.lease = [id |-> id, gen |-> b.leases + 1]]
Cleared(b) == [b EXCEPT !.lease = NoLease]

\* pin_foreground, and release_output_pin, which wants the exact token.
TokenOf(b, kind) == [id |-> b.lease.id, lease |-> b.lease.gen, gen |-> b.pins + 1, kind |-> kind]
Pinned(b, kind) == [b EXCEPT !.pins = @ + 1, !.pin = TokenOf(b, kind)]
Released(b, token) == IF b.pin = token THEN [b EXCEPT !.pin = NoPin] ELSE b

-----------------------------------------------------------------------------
(* Sections of the controller.                                               *)

Running(token, w) ==
    \/ token.kind = "capture" /\ w \in capturing
    \/ token.kind = "mp4" /\ token.id \in recording

Tracked(c, id) == c.sessions[id] # 0 /\ id \notin c.closing
LifecycleIdle(c) == c.transition = 0
\* Mutation: a pin whose work is only being started is reaped.
ReapsUnstarted(c, pin) == ~Running(pin, c.sessions[pin.id])

ReapsPin(c, pin) == c.starting # pin /\ ~Running(pin, c.sessions[pin.id])

\* reap_closed: sessions whose actor has ended leave the registry, and a pin whose work
\* has ended is released unless that work is only now being started.
Reap(c) ==
    LET gone == {id \in Ids \ {c.replacing} : c.sessions[id] \notin up \cup {0}}
        lost == {id \in gone \ c.closing : c.broker.warm[id] = c.sessions[id]}
        b == Faulted(c.broker, lost)
        r == [c EXCEPT !.sessions = [id \in Ids |-> IF id \in gone THEN 0 ELSE @[id]],
                       !.closing = @ \ gone, !.broker = b,
                       !.starting = IF @ = b.pin THEN @ ELSE NoPin]
    IN  IF b.pin # NoPin /\ r.sessions[b.pin.id] # 0 /\ ReapsPin(r, b.pin)
        THEN [r EXCEPT !.broker = Released(b, b.pin)]
        ELSE r

\* begin_lifecycle_transition and abort_lifecycle_transition.
Transit(c, id) ==
    [c EXCEPT !.transition = c.transitions + 1, !.transitions = @ + 1, !.replacing = id]
Idled(c) == [c EXCEPT !.transition = 0, !.replacing = None]
Aborted(c, gen) == IF c.transition = gen THEN Idled(c) ELSE c

\* unpin.
Unpin(c, token) ==
    [Reap(c) EXCEPT !.broker = Released(@, token),
                    !.starting = IF @ = token THEN NoPin ELSE @]

At(t, at) == task[t].at = at
Goto(t, at) ==
    task' = [task EXCEPT ![t] = IF at = "idle" THEN NoTask ELSE [@ EXCEPT !.at = at]]

\* A client's command is accepted, with the locals it starts from.
Begin(t, op, locals) ==
    /\ At(t, "idle") /\ op \in May[t] /\ left > 0 /\ ~exited
    /\ left' = left - 1 /\ task' = [task EXCEPT ![t] = locals]
    /\ UNCHANGED <<monitors, actors>>
Later == UNCHANGED <<used, exited, left>>
OnlyController == UNCHANGED <<monitors, actors>> /\ Later
OnlyActors == UNCHANGED <<ctl, monitors>> /\ Later

-----------------------------------------------------------------------------
(* The actors.                                                               *)

\* The actor of a worker ends and settles its capture; its recording stops unless a
\* replacement goes on with it.
Ended(w, recordings) ==
    /\ up' = up \ {w} /\ ending' = ending \ {w} /\ overdue' = overdue \ {w}
    /\ showing' = showing \ {w} /\ capturing' = capturing \ {w}
    /\ late' = [late EXCEPT ![w] = "none"] /\ recording' = recordings
    /\ UNCHANGED <<started, serves>>
Stop(w) == Ended(w, IF w \in up THEN recording \ {serves[w]} ELSE recording)

\* A caller gives up.  An actor serves its queue in order, and of the requests given up
\* only the first: it ends when it cannot deliver the answer.
GivesUp(w, what) ==
    /\ "late" \in Faults /\ w \in up
    /\ late' = IF w \in ending \/ late[w] # "none" THEN late ELSE [late EXCEPT ![w] = what]
    /\ UNCHANGED <<started, serves, up, ending, overdue, showing, capturing, recording>>

\* shutdown waits for the actor's end, and its callers go on when it gave up: the actor
\* ends by the shutdown, or by the request given up before it.
Overdue(w) ==
    /\ "late" \in Faults /\ w \in up /\ overdue' = overdue \cup {w}
    /\ ending' = IF late[w] = "none" THEN ending \cup {w} ELSE ending
    /\ UNCHANGED <<started, serves, up, showing, capturing, recording, late>>
ShutsDown(w) == Stop(w) \/ Overdue(w)

Started(id) ==
    /\ started' = started + 1 /\ serves' = [serves EXCEPT ![started + 1] = id]
    /\ up' = up \cup {started + 1}
    /\ UNCHANGED <<ending, overdue, showing, capturing, recording, late>>

\* An actor serves a request: set_foreground, capture_start or recording_start, or one
\* that changes nothing here ("view").
Free(w) == w \notin capturing /\ serves[w] \notin recording
Serves(w, what) ==
    /\ what \in {"capture", "mp4"} => Free(w)
    /\ showing' = CASE what = "show" -> showing \cup {w}
                    [] what = "hide" -> showing \ {w}
                    [] OTHER -> showing
    /\ capturing' = IF what = "capture" THEN capturing \cup {w} ELSE capturing
    /\ recording' = IF what = "mp4" THEN recording \cup {serves[w]} ELSE recording
    /\ UNCHANGED <<started, serves, up, overdue>>
Served == UNCHANGED <<started, serves, up, overdue, showing, capturing, recording>>

\* The actor leaves its loop: it answers nothing any more, and ends.
Leaves(w) == ending' = ending \cup {w}

\* A task sends a request and goes on with the answer, or with the error when the actor
\* refuses, has ended, or does not answer within ACTOR_DEADLINE.  Work that cannot start
\* is refused, a failing output is fatal, and nothing is answered after a request that
\* was given up.
Asks(t, w, what, answered, failed) ==
    \/ w \notin up /\ UNCHANGED actors /\ Goto(t, failed)
    \/ GivesUp(w, what) /\ Goto(t, failed)
    \/ /\ w \in up \ ending /\ late[w] = "none"
       /\ \/ Serves(w, what) /\ UNCHANGED <<ending, late>> /\ Goto(t, answered)
          \/ /\ what \in {"capture", "mp4"} /\ (~Free(w) \/ "start" \in Faults)
             /\ UNCHANGED actors /\ Goto(t, failed)
          \/ "output" \in Faults /\ Leaves(w) /\ Served /\ UNCHANGED late /\ Goto(t, failed)

\* Mutation: an actor that cannot deliver an answer goes on.
LateServed(w) ==
    /\ w \in up \ ending /\ late[w] # "none" /\ late' = [late EXCEPT ![w] = "none"]
    /\ Serves(w, late[w]) \/ Served
    /\ UNCHANGED <<ending, task>> /\ OnlyActors

\* finish: an actor that cannot deliver an answer ends.
LateAnswer(w) ==
    /\ w \in up \ ending /\ late[w] # "none" /\ late' = [late EXCEPT ![w] = "none"]
    /\ Serves(w, late[w]) \/ Served
    /\ Leaves(w) /\ UNCHANGED task /\ OnlyActors

\* A worker or its actor fails, the actor ends (one told to keep the recording for a
\* replacement that gave up waiting keeps it), or a capture or recording ends or is stopped.
WorkerFault(w) ==
    /\ "worker" \in Faults /\ w \in up \ ending
    /\ Leaves(w) /\ Served /\ UNCHANGED <<late, task>> /\ OnlyActors
ActorEnds(w) ==
    /\ w \in ending /\ UNCHANGED task /\ OnlyActors
    /\ \/ Stop(w)
       \/ (\E t \in Clients : At(t, "settle") /\ task[t].prev = w) /\ Ended(w, recording)
WorkEnds(w) ==
    /\ w \in capturing \/ serves[w] \in recording
    /\ capturing' = capturing \ {w} /\ recording' = recording \ {serves[w]}
    /\ UNCHANGED <<started, serves, up, ending, overdue, showing, late, task>> /\ OnlyActors

-----------------------------------------------------------------------------
(* deck_generic_open.                                                        *)

\* Mutation: sessions that are still being closed do not count.
OpenReserveEarly(t, id) ==
    LET r == Reap(ctl)
    IN  /\ Begin(t, "open", [NoTask EXCEPT !.at = "start", !.op = "open", !.id = id])
        /\ LifecycleIdle(r) /\ id \notin used
        /\ Cardinality(Warm(r.broker)) + Cardinality(r.pending) < MaxWarm
        /\ ctl' = [r EXCEPT !.pending = @ \cup {id}]
        /\ used' = used \cup {id} /\ UNCHANGED exited

OpenReserve(t, id) ==
    LET r == Reap(ctl)
    IN  /\ Begin(t, "open", [NoTask EXCEPT !.at = "start", !.op = "open", !.id = id])
        /\ LifecycleIdle(r) /\ id \notin used
        /\ Cardinality(Warm(r.broker)) + Cardinality(r.pending) + Cardinality(r.closing) < MaxWarm
        /\ ctl' = [r EXCEPT !.pending = @ \cup {id}]
        /\ used' = used \cup {id} /\ UNCHANGED exited

OpenStart(t) ==
    /\ At(t, "start")
    /\ \/ /\ Started(task[t].id)
          /\ task' = [task EXCEPT ![t].at = "commit", ![t].w = started + 1]
       \/ "start" \in Faults /\ UNCHANGED actors /\ Goto(t, "cancel")
    /\ OnlyActors

\* Mutation: a session without a reservation is committed.
OpenCommitUnreserved(t) ==
    LET id == task[t].id
    IN  /\ At(t, "commit")
        /\ IF LifecycleIdle(ctl)
           THEN /\ ctl' = [ctl EXCEPT !.pending = @ \ {id}, !.sessions[id] = task[t].w,
                                      !.broker = Bound(@, id, task[t].w)]
                /\ Goto(t, "viewport")
           ELSE UNCHANGED ctl /\ Goto(t, "abandon")
        /\ OnlyController

\* commit refuses while a lease transition is in progress, and after detach_all.
OpenCommit(t) ==
    LET id == task[t].id
    IN  /\ At(t, "commit")
        /\ IF LifecycleIdle(ctl) /\ id \in ctl.pending
           THEN /\ ctl' = [ctl EXCEPT !.pending = @ \ {id}, !.sessions[id] = task[t].w,
                                      !.broker = Bound(@, id, task[t].w)]
                /\ Goto(t, "viewport")
           ELSE UNCHANGED ctl /\ Goto(t, "abandon")
        /\ OnlyController

OpenAbandon(t) == At(t, "abandon") /\ ShutsDown(task[t].w) /\ Goto(t, "cancel") /\ OnlyActors

OpenCancel(t) ==
    /\ At(t, "cancel") /\ ctl' = [ctl EXCEPT !.pending = @ \ {task[t].id}]
    /\ Goto(t, "idle") /\ OnlyController

\* set_viewport: a new session whose output fails is closed, a replaced one is stopped.
Viewport(t) ==
    /\ At(t, "viewport") /\ OnlyActors
    /\ IF task[t].op = "open" THEN Asks(t, task[t].w, "view", "seen", "unopen")
                             ELSE Asks(t, task[t].w, "view", "idle", "unshown")

Seen(t) == At(t, "seen") /\ ctl' = Reap(ctl) /\ Goto(t, "idle") /\ OnlyController

-----------------------------------------------------------------------------
(* deck_generic_close.                                                       *)

\* prepare_close.
Closing(c, id) == [c EXCEPT !.broker = Closed(@, id), !.closing = @ \cup {id}]
MayClose(c, id) == LifecycleIdle(c) /\ Tracked(c, id) /\ Closable(c.broker, id)

ClosePrepare(t, id) ==
    LET r == Reap(ctl)
    IN  /\ Begin(t, "close", [NoTask EXCEPT !.at = "stop", !.op = "close", !.id = id,
                                            !.w = r.sessions[id]])
        /\ MayClose(r, id) /\ ctl' = Closing(r, id) /\ UNCHANGED <<used, exited>>

\* The close after a failed open, whose refusal is ignored.
Unopen(t) ==
    LET r == Reap(ctl)  id == task[t].id
    IN  /\ At(t, "unopen")
        /\ IF MayClose(r, id)
             THEN /\ ctl' = Closing(r, id)
                  /\ task' = [task EXCEPT ![t].at = "stop", ![t].w = r.sessions[id]]
             ELSE ctl' = r /\ Goto(t, "idle")
        /\ OnlyController

CloseStop(t) == At(t, "stop") /\ ShutsDown(task[t].w) /\ Goto(t, "finish") /\ OnlyActors

CloseFinish(t) ==
    /\ At(t, "finish")
    /\ ctl' = [ctl EXCEPT !.sessions[task[t].id] = 0, !.closing = @ \ {task[t].id}]
    /\ Goto(t, "idle") /\ OnlyController

-----------------------------------------------------------------------------
(* deck_generic_foreground_set and deck_generic_foreground_clear.            *)

\* Mutation: a pinned lease moves.
ForegroundPinned(t, op, r, w, broker) ==
    LET prev == IF r.broker.lease.id = None THEN 0 ELSE r.sessions[r.broker.lease.id]
    IN  /\ Begin(t, op, [NoTask EXCEPT !.at = IF prev = 0 THEN "show" ELSE "hide",
                             !.op = op, !.w = w, !.prev = prev, !.broker = broker,
                             !.gen = r.transitions + 1])
        /\ LifecycleIdle(r)
        /\ ctl' = Transit(r, None) /\ UNCHANGED <<used, exited>>

\* prepare_switch_foreground and prepare_clear_foreground: the broker to install once
\* the actors have answered.
Foreground(t, op, r, w, broker) ==
    LET prev == IF r.broker.lease.id = None THEN 0 ELSE r.sessions[r.broker.lease.id]
    IN  /\ Begin(t, op, [NoTask EXCEPT !.at = IF prev = 0 THEN "show" ELSE "hide",
                             !.op = op, !.w = w, !.prev = prev, !.broker = broker,
                             !.gen = r.transitions + 1])
        /\ LifecycleIdle(r) /\ Unpinned(r.broker)
        /\ ctl' = Transit(r, None) /\ UNCHANGED <<used, exited>>

SwitchPrepare(t, id) ==
    LET r == Reap(ctl)
    IN  /\ Tracked(r, id) /\ r.broker.lease.id # id
        /\ Foreground(t, "switch", r, r.sessions[id], Switched(r.broker, id))

ClearPrepare(t) ==
    LET r == Reap(ctl)
    IN  /\ r.broker.lease # NoLease
        /\ Foreground(t, "clear", r, 0, Cleared(r.broker))

\* execute_foreground_transition: hide the previous session, show the target, and take
\* it back when one of the two fails.
Hide(t) ==
    /\ At(t, "hide") /\ OnlyActors
    /\ Asks(t, task[t].prev, "hide", IF task[t].w = 0 THEN "complete" ELSE "show", "abort")

\* Mutation: the previous session is not shown again.
ShowOrAbort(t) ==
    /\ At(t, "show") /\ OnlyActors
    /\ Asks(t, task[t].w, "show", "complete", "abort")

Show(t) ==
    /\ At(t, "show") /\ OnlyActors
    /\ Asks(t, task[t].w, "show", "complete", IF task[t].prev = 0 THEN "abort" ELSE "restore")

Restore(t) ==
    At(t, "restore") /\ Asks(t, task[t].prev, "show", "abort", "abort") /\ OnlyActors

Abort(t) ==
    /\ At(t, "abort") /\ ctl' = Aborted(ctl, task[t].gen)
    /\ Goto(t, "idle") /\ OnlyController

\* Mutation: the prepared broker is installed over whatever sessions there are now.
CompleteAnyway(t) ==
    /\ At(t, "complete")
    /\ IF ctl.transition = task[t].gen
       THEN ctl' = Reap([Idled(ctl) EXCEPT !.broker = task[t].broker]) /\ Goto(t, "idle")
       ELSE UNCHANGED ctl /\ Goto(t, "unshow")
    /\ OnlyController

\* complete_foreground_transition: only over the sessions it was prepared for.
Complete(t) ==
    LET same == Warm(ctl.broker) = Warm(task[t].broker)
        redo == IF task[t].w # 0 THEN "unshow" ELSE "reshow"
    IN  /\ At(t, "complete")
        /\ IF ctl.transition = task[t].gen /\ same
           THEN ctl' = Reap([Idled(ctl) EXCEPT !.broker = task[t].broker]) /\ Goto(t, "idle")
           ELSE ctl' = Aborted(ctl, task[t].gen) /\ Goto(t, redo)
        /\ OnlyController

Unshow(t) ==
    LET next == IF task[t].prev = 0 THEN "idle" ELSE "reshow"
    IN  At(t, "unshow") /\ Asks(t, task[t].w, "hide", next, next) /\ OnlyActors

Reshow(t) == At(t, "reshow") /\ Asks(t, task[t].prev, "show", "idle", "idle") /\ OnlyActors

-----------------------------------------------------------------------------
(* deck_generic_sources_replace: the worker of a session is replaced.        *)

ReplaceBegin(t, id) ==
    LET r == Reap(ctl)
    IN  /\ Begin(t, "replace", [NoTask EXCEPT !.at = "preflight", !.op = "replace", !.id = id,
                                    !.prev = r.sessions[id], !.gen = r.transitions + 1,
                                    !.owns = r.broker.lease.id = id])
        /\ LifecycleIdle(r) /\ Tracked(r, id) /\ r.sessions[id] \notin capturing
        /\ ~(r.broker.pin.id = id /\ r.broker.pin.kind = "capture")
        /\ ctl' = Transit(r, id) /\ UNCHANGED <<used, exited>>

\* Mutation: refused sources leave the replacement begun.
PreflightLeft(t) ==
    /\ At(t, "preflight") /\ OnlyActors
    /\ \/ Asks(t, task[t].prev, "view", "swap", "idle")
       \/ "preflight" \in Faults /\ UNCHANGED actors /\ Goto(t, "idle")

\* Everything that can be checked is checked while the old worker still runs.
Preflight(t) ==
    /\ At(t, "preflight") /\ OnlyActors
    /\ \/ Asks(t, task[t].prev, "view", "swap", "abort")
       \/ "preflight" \in Faults /\ UNCHANGED actors /\ Goto(t, "abort")

\* shutdown_for_replacement keeps the recording, which the new worker goes on with; an
\* actor that ends by itself has stopped it.  A shutdown that failed, or was given up,
\* settles the replacement as failed.
Swap(t) ==
    LET old == task[t].prev
    IN  /\ At(t, "swap") /\ OnlyActors
        /\ \/ /\ \/ old \in up \ ending /\ late[old] = "none" /\ Ended(old, recording)
                 \/ old \notin up /\ UNCHANGED actors
              /\ \/ Goto(t, "restart")
                 \/ {"worker", "output", "late"} \cap Faults # {} /\ Goto(t, "settle")
           \/ Overdue(old) /\ Goto(t, "settle")

Restart(t) ==
    /\ At(t, "restart") /\ OnlyActors
    /\ \/ /\ Started(task[t].id)
          /\ task' = [task EXCEPT ![t].at = "configure", ![t].w = started + 1]
       \/ "start" \in Faults /\ UNCHANGED actors /\ Goto(t, "settle")

\* configure_replacement_runtime.
Configure(t) ==
    /\ At(t, "configure") /\ OnlyActors
    /\ Asks(t, task[t].w, IF task[t].owns THEN "show" ELSE "hide", "install", "discard")

\* complete_source_replacement.
Install(t) ==
    LET id == task[t].id
    IN  /\ At(t, "install")
        /\ IF /\ ctl.transition = task[t].gen /\ ctl.sessions[id] = task[t].prev
              /\ id \in Warm(ctl.broker)
           THEN /\ ctl' = [Idled(ctl) EXCEPT !.sessions[id] = task[t].w,
                                             !.broker = Bound(@, id, task[t].w)]
                /\ Goto(t, "viewport")
           ELSE UNCHANGED ctl /\ Goto(t, "discard")
        /\ OnlyController

Discard(t) == At(t, "discard") /\ ShutsDown(task[t].w) /\ Goto(t, "settle") /\ OnlyActors

\* settle_failed_source_replacement stops the recording, then fails the session.
Settle(t) ==
    /\ At(t, "settle") /\ recording' = recording \ {task[t].id} /\ Goto(t, "fail")
    /\ UNCHANGED <<started, serves, up, ending, overdue, showing, capturing, late>> /\ OnlyActors

Fail(t) ==
    LET id == task[t].id
        c == Idled(ctl)
    IN  /\ At(t, "fail")
        /\ ctl' = IF ctl.transition # task[t].gen THEN ctl
                  ELSE IF ctl.sessions[id] # task[t].prev THEN c
                  ELSE [c EXCEPT !.sessions[id] = 0, !.broker = Faulted(@, {id}),
                                 !.starting = IF @.id = id THEN NoPin ELSE @]
        /\ Goto(t, "idle") /\ OnlyController

\* The output of an installed replacement fails: it is stopped, and reaped.
Unshown(t) == At(t, "unshown") /\ ShutsDown(task[t].w) /\ Goto(t, "seen") /\ OnlyActors

-----------------------------------------------------------------------------
(* deck_generic_capture_start and deck_generic_recording_start: the lease is  *)
(* pinned before the work starts, and a monitor unpins it once it has ended.  *)

WorkRuntime(t, op, id) ==
    LET r == Reap(ctl)
    IN  /\ Begin(t, op, [NoTask EXCEPT !.at = "pin", !.op = op, !.id = id,
                                       !.w = r.sessions[id]])
        /\ Tracked(r, id) /\ ctl' = r /\ UNCHANGED <<used, exited>>

\* pin: other tasks may have run since the runtime was looked up.
WorkPin(t) ==
    LET r == Reap(ctl)
        b == Pinned(r.broker, task[t].op)
    IN  /\ At(t, "pin")
        /\ IF LifecycleIdle(r) /\ r.broker.lease.id = task[t].id /\ Unpinned(r.broker)
           THEN /\ ctl' = [r EXCEPT !.broker = b, !.starting = b.pin]
                /\ task' = [task EXCEPT ![t].at = "work", ![t].token = b.pin]
           ELSE ctl' = r /\ Goto(t, "idle")
        /\ OnlyController

WorkStart(t) ==
    At(t, "work") /\ Asks(t, task[t].w, task[t].op, "started", "unpin") /\ OnlyActors

WorkUnpin(t) ==
    /\ At(t, "unpin") /\ ctl' = Unpin(ctl, task[t].token)
    /\ Goto(t, "idle") /\ OnlyController

\* Mutation: no monitor is spawned.
WorkStartedUnwatched(t) ==
    LET token == task[t].token
    IN  /\ At(t, "started")
        /\ ctl' = [ctl EXCEPT !.starting = IF @ = token THEN NoPin ELSE @]
        /\ Goto(t, "idle") /\ UNCHANGED <<monitors, actors>> /\ Later

\* complete_output_start.
WorkStarted(t) ==
    LET token == task[t].token
    IN  /\ At(t, "started")
        /\ ctl' = [ctl EXCEPT !.starting = IF @ = token THEN NoPin ELSE @]
        /\ monitors' = monitors \cup {[token |-> token, w |-> task[t].w, ended |-> FALSE]}
        /\ Goto(t, "idle") /\ UNCHANGED actors /\ Later

\* spawn_capture_pin_monitor and spawn_recording_pin_monitor: a capture is asked for its
\* status, and counts as ended when the actor does not answer.
MonitorSees(m) ==
    /\ ~m.ended /\ monitors' = (monitors \ {m}) \cup {[m EXCEPT !.ended = TRUE]}
    /\ \/ ~Running(m.token, m.w) /\ UNCHANGED actors
       \/ m.token.kind = "capture" /\ m.w \in ending /\ UNCHANGED actors
       \/ m.token.kind = "capture" /\ GivesUp(m.w, "view")
    /\ UNCHANGED <<ctl, task>> /\ Later

\* release_monitored_pin.
MonitorReleases(m) ==
    LET r == Reap(ctl)
    IN  /\ m.ended /\ monitors' = monitors \ {m}
        /\ ctl' = IF r.broker.pin = m.token THEN Unpin(r, m.token) ELSE r
        /\ UNCHANGED <<task, actors>> /\ Later

-----------------------------------------------------------------------------
(* Polls of the interface, and the exit.                                     *)

\* snapshot and every refused command.
Poll == ctl' = Reap(ctl) /\ UNCHANGED task /\ OnlyController

\* shutdown_all: the sessions are detached, then each actor is stopped.
Exit(t) ==
    /\ Begin(t, "exit", [NoTask EXCEPT !.at = "drain", !.op = "exit",
                                       !.broker.warm = ctl.sessions])
    /\ exited' = TRUE /\ UNCHANGED used
    /\ ctl' = [Idled(ctl) EXCEPT !.broker = NoBroker, !.sessions = [id \in Ids |-> 0],
                                 !.pending = {}, !.closing = {}, !.starting = NoPin]

Drain(t) ==
    /\ At(t, "drain") /\ OnlyActors
    /\ LET rest == Warm(task[t].broker)
       IN  IF rest = {} THEN UNCHANGED actors /\ Goto(t, "idle")
           ELSE \E id \in rest :
                    /\ ShutsDown(task[t].broker.warm[id])
                    /\ task' = [task EXCEPT ![t].broker.warm[id] = 0]

Command(t) ==
    \/ \E id \in Ids : \/ OpenReserve(t, id) \/ ClosePrepare(t, id) \/ SwitchPrepare(t, id)
                       \/ ReplaceBegin(t, id)
                       \/ \E op \in {"capture", "mp4"} : WorkRuntime(t, op, id)
    \/ ClearPrepare(t) \/ Exit(t)

Continue(t) ==
    \/ OpenStart(t) \/ OpenCommit(t) \/ OpenAbandon(t) \/ OpenCancel(t) \/ Unopen(t)
    \/ Viewport(t) \/ Seen(t) \/ CloseStop(t) \/ CloseFinish(t)
    \/ Hide(t) \/ Show(t) \/ Restore(t) \/ Abort(t) \/ Complete(t) \/ Unshow(t) \/ Reshow(t)
    \/ Preflight(t) \/ Swap(t) \/ Restart(t) \/ Configure(t) \/ Install(t) \/ Discard(t)
    \/ Settle(t) \/ Fail(t) \/ Unshown(t)
    \/ WorkPin(t) \/ WorkStart(t) \/ WorkUnpin(t) \/ WorkStarted(t) \/ Drain(t)

Monitor == \E m \in monitors : MonitorSees(m) \/ MonitorReleases(m)

Next ==
    \/ \E t \in Clients : Command(t) \/ Continue(t)
    \/ \E w \in 1 .. started : WorkerFault(w) \/ ActorEnds(w) \/ WorkEnds(w) \/ LateAnswer(w)
    \/ Monitor \/ Poll

\* Every wait of a task is bounded by a deadline of the actor, a monitor looks every 200 ms,
\* an actor comes to the requests in its queue, and ends once it is out of its loop.
\* No command, poll, stop of work or fault is ever due.
Spec ==
    /\ Init /\ [][Next]_vars
    /\ \A t \in Clients : WF_vars(Continue(t))
    /\ \A w \in Workers : WF_vars(ActorEnds(w)) /\ WF_vars(LateAnswer(w))
    /\ WF_vars(Monitor)

-----------------------------------------------------------------------------
(* Properties.                                                               *)

Pins == [id : Ids \cup {None}, lease : Nat, gen : Nat, kind : {"none", "capture", "mp4"}]
Brokers == [warm : [Ids -> {0} \cup Workers], lease : [id : Ids \cup {None}, gen : Nat],
            pin : Pins, leases : Nat, pins : Nat]
Places == {"idle", "start", "commit", "abandon", "cancel", "viewport", "seen", "unopen", "stop",
           "finish", "hide", "show", "restore", "abort", "complete", "unshow", "reshow",
           "preflight", "swap", "restart", "configure", "install", "discard", "settle", "fail",
           "unshown", "pin", "work", "unpin", "started", "drain"}

\* Every variable has its type: the fields of the controller and of the broker, the place
\* of each command in its code, and the states of the actors: only a running one shows its
\* output or captures.
TypeOK ==
    /\ ctl \in [broker : Brokers, sessions : [Ids -> {0} \cup Workers], pending : SUBSET Ids,
                closing : SUBSET Ids, transition : Nat, transitions : Nat,
                replacing : Ids \cup {None}, starting : Pins]
    /\ task \in [Clients -> [at : Places, op : Commands \cup {"none"}, id : Ids \cup {None},
                             w : {0} \cup Workers, prev : {0} \cup Workers, gen : Nat,
                             broker : Brokers, token : Pins, owns : BOOLEAN]]
    /\ monitors \subseteq [token : Pins, w : Workers, ended : BOOLEAN]
    /\ started \in {0} \cup Workers /\ serves \in [Workers -> Ids \cup {None}]
    /\ up \subseteq 1 .. started /\ ending \cup overdue \subseteq up /\ showing \cup capturing \subseteq up
    /\ recording \subseteq Ids /\ used \subseteq Ids
    /\ late \in [Workers -> {"none", "view", "show", "hide", "capture", "mp4"}]
    /\ exited \in BOOLEAN /\ left \in 0 .. Requests

Idle(t) == At(t, "idle")
Withdrawing(t) == task[t].at \in {"unshow", "reshow"}

\* The broker knows exactly the sessions of the controller that are not being closed, each
\* with its worker: installing the broker a foreground transition prepared brings no dead
\* session back and drops no new one (complete_foreground_transition), and a fault, a
\* close and a replacement leave both sides with the same sessions.
BrokerKnowsSessions ==
    \A id \in Ids :
        ctl.broker.warm[id] = IF id \in ctl.closing THEN 0 ELSE ctl.sessions[id]

\* The output pin is that of the lease that is held (broker.rs).
PinOwnsLease ==
    LET b == ctl.broker
    IN  ~Unpinned(b) => b.pin.id = b.lease.id /\ b.pin.lease = b.lease.gen

\* An actor that ends without being asked again: it has left its loop, or will when it
\* comes to the shutdown or the request in its queue that was given up.
Doomed(w) == w \in ending \/ late[w] # "none"
\* The workers whose shutdown was not given up.
Attended == up \ overdue

\* A capture or a recording that runs is pinned, by a pin of its session and kind, until it
\* is stopped, a failed replacement is about to stop it, or its actor ends, or is to end
\* because it failed or kept a caller waiting for too long: no reap, monitor of an earlier
\* work, or replacement releases the pin of running work, and no switch, clear, close, fault
\* or failed replacement takes the lease from under a pin (ARTIST_WORKFLOW.md).
WorkPinned ==
    LET pin == ctl.broker.pin
    IN  /\ PinOwnsLease
        /\ ~exited =>
            /\ \A w \in capturing : Doomed(w) \/ (pin.kind = "capture" /\ pin.id = serves[w])
            /\ \A id \in recording \ {serves[w] : w \in {v \in up : Doomed(v)}} :
                    \/ pin.kind = "mp4" /\ pin.id = id
                    \/ \E t \in Clients : At(t, "settle") /\ task[t].id = id

\* At most one session owns the foreground output, at every step of every switch,
\* replacement and rollback (ARTIST_WORKFLOW.md), one that is being closed left aside, and
\* one whose actor has kept a caller waiting for too long and ends for that: until it has
\* ended it may show beside its successor, even when its session is closed and forgotten.
OneShown ==
    \A v, w \in showing :
        v = w \/ Doomed(v) \/ Doomed(w) \/ {serves[v], serves[w]} \cap ctl.closing # {} \/ exited

\* Outside a lease transition and its rollback, the session that has the foreground is the
\* one that holds the lease, unless its actor is to end because it failed or kept a caller
\* waiting for too long.
LeaseShown ==
    LET lease == ctl.broker.lease.id
    IN  ctl.transition = 0 /\ ~exited /\ (\A t \in Clients : ~Withdrawing(t)) =>
            /\ \A w \in showing : serves[w] = lease \/ serves[w] \in ctl.closing \/ Doomed(w)
            /\ lease # None /\ ctl.sessions[lease] \in up /\ ~Doomed(ctl.sessions[lease]) =>
                   ctl.sessions[lease] \in showing

\* No more than MAX_WARM_SESSIONS workers run, those of sessions that are being opened,
\* replaced, abandoned or closed included; a worker whose shutdown was given up still runs
\* and is not counted any more.
Capacity == Cardinality(Attended) <= MaxWarm

\* When no command is in progress none has left anything behind, whatever failed on the
\* way: no reservation, no closing session, no lease transition, no recording and no
\* running worker without its session, and after an exit no worker at all, even when the
\* exit came in the middle of an open or a replacement; only a worker whose shutdown was
\* given up may still run, and record, without its session.
NothingLeft ==
    (\A t \in Clients : Idle(t)) =>
        /\ ctl.pending = {} /\ ctl.closing = {} /\ ctl.transition = 0 /\ ctl.replacing = None
        /\ ctl.starting = NoPin
        /\ \A w \in Attended : ctl.sessions[serves[w]] = w /\ ~exited
        /\ \A id \in recording \ {serves[w] : w \in overdue} : ctl.sessions[id] # 0

\* A lease transition or replacement never keeps the registry busy for ever.
TransitionsEnd == ctl.transition # 0 ~> ctl.transition = 0

\* A pin whose work has ended is released without any poll of the interface.
PinsEnd ==
    \A id \in Ids :
        (ctl.broker.pin.id = id /\ ~Running(ctl.broker.pin, ctl.sessions[id])) ~>
            (ctl.broker.pin.id # id \/ Running(ctl.broker.pin, ctl.sessions[id]))
=============================================================================
