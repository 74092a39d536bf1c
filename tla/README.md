# LatentDeck: a verification project

TLA+ models of the parts of LatentDeck whose correctness depends on the order in which several
actors take their steps, the TLC runs that check them on small instances, and theorems proved
with TLAPS for every value of the constants. Paths below are relative to the repository.

## 1. Inventory

LatentDeck plays and mixes *latent cartridges*: a codec in a Python worker process decodes latent
slots to RGB batches, a Rust host presents them. Two desktop programs (LatentDeck with several
sources and operators, LatentPlayer with one source) share the same crates.

| Component | State it keeps | Operations | Talks to |
|---|---|---|---|
| **RGB Ring ABI 2** `crates/gpu/src/ring_v2.rs`, `windows_ring_v2.rs` | header atomics (state, generation, two sequences, claim), slots | initialize, validate, claim, write, read, reset, adopt | shared memory of host and worker |
| **Deck session actor** `apps/latentdeck/src-tauri/src/generic_deck_runtime.rs` | last accepted status, pending frames, active capture, view, recording | tick, mutations, reset, capture start/stop/status, recording, shutdown, its own decoding and presentation loop | UI by requests, worker by commands, the ring, finalizer, recorder |
| **Protocol 2 worker** `codec-host/python/.../runtime_v2.py` | Deck session, capture session and its payload, ring producer | `deck.*`, `capture.*`, `player.*`, `worker.shutdown` | host by replies, the ring |
| **Worker client and framing** `crates/core/src/worker_client_v2.rs`, `crates/control/src/v2.rs` | sequence numbers of both directions, outstanding and completed requests, poisoned flag | call, receive, shutdown | pipes of the worker |
| **Session owners** `crates/core/src/deck_session_v2.rs`, `player_session_v2.rs` | process, job, ring owner and reader, adopted generation | launch, adopt, recover, shutdown, terminate | client, ring, platform |
| **Deck registry and output broker** `generic_deck_state.rs`, `crates/deck-runtime-contracts/src/broker.rs` | warm sessions, foreground lease, output pin, their generations | open, close, switch, pin, release, worker fault | actors, UI |
| **Capture finalizer** `capture_finalizer_v2.rs` | staging root, bound artifact | bind, finalize, import, cleanup | worker's files, cartridge writer, library |
| **Decoded recording** `decoded_recording.rs`, `crates/output-mp4` | recorder phase, single finalizer outcome | arm, submit, stop | presentation, encoder thread |
| **Extension lifecycle** `crates/extension-manager/src/lifecycle.rs`, `activation.rs` | package trees, trust receipts, seals, usage locks, staging and trash | install, repair, enable, disable, remove, resolve | file system, other processes |
| **Worker supervisor** `crates/core/src/worker_supervisor/windows.rs` | process, kill-on-close job, bootstrap, pipes | spawn, contain, connect, wait, kill | the worker, session owners |
| **Library** `crates/library` | catalog of cartridges, paths, collections | import, reindex, migrate, back up | SQLite, files |
| **Player runtimes** `playback_runtime.rs`, `playback_runtime_v2.rs` | play intent, loop, end, reset in flight, rotation | play, pause, restart, loop, rotate, shutdown | worker task, presenter task, ring |
| **Playback schedule** `crates/core/src/playback_schedule.rs` | generation, next cycle, pending reset | next command, accept decode, reset | player runtime |
| Cartridge format, codec packs, presets, windows and Spout, UI, H3 codec, operators, SDK, ComfyUI, tools | documents, bytes, tensors | | |

### What is hard in it

* **Shared memory.** Two processes move a queue with atomics; a reset rewrites it under a reader
  that may be anywhere in a copy; a worker may die holding the producer claim.
* **Two views of one session.** The host never asks for the state of the Deck: it takes each
  reply's snapshot, compares it field by field with what it expected, and derives some fields by
  itself. Any path on which the two diverge ends the session later, far from its cause.
* **Work in several steps.** `process_once` is a process, a ring read, perhaps a `capture.status`,
  perhaps a finalization, perhaps a causal reset. Each may fail with the earlier ones done.
* **Ends.** The actor stops on a trust failure, a vanished caller, a shutdown or a dead worker,
  with a command in flight, frames pending or a capture active.
* **Files.** Extensions, captures and the library move through renames and receipts which a crash
  may interrupt.

### What makes each component correct

* Ring: one writer; a batch is delivered once, in order and whole; an unread slot is not reused;
  no legal read or adoption is refused; a batch published is taken unless a reset withdraws it.
* Deck session: host and worker agree between commands; frames are fresh and in order; every wrap
  is followed by a causal reset; a capture's tape is what was processed; capture and recording
  exclude each other; a finite capture ends; an obedient worker is never called faulty; the end of
  a session settles its capture and stops its process.
* Output broker: at most one foreground lease; a pinned output is not taken; a stale token
  releases nothing.
* Finalizer: nothing partial is ever visible, nothing that exists is overwritten, staging is gone.
* Extension lifecycle: what runs is what was validated, at most one enabled version of an ID, a
  package in use is not removed, each crash is recovered by the next start.
* Worker client: a reply is applied to the request it answers, once; after any doubt nothing is.
* Player: a restart is followed by frames of the new generation only; the sources of truth for
  *playing* agree once a command is answered.

The hazards, each at its line and with the properties that would catch it, are in `PROJECT.json`.

## 2. Modules

| Module | What it is |
|---|---|
| `BatchQueue` | what the ring promises: a bounded queue of batches with withdrawal and epochs |
| `RingV2` | the ring as it is: one step per load or store of a header atomic |
| `MCRingV2` + 2 cfg | its instances for TLC |
| `RingV2_proofs`, `RingV2_refinement` | the inductive invariant and its safety theorems; the proof that `RingV2` implements `BatchQueue` |
| `DeckSession` | the actor and the worker of a live Deck session, composed through commands, replies and the ring |
| `DeckSession_proofs`, `MCDeckSession` + 3 cfg | its proofs; its instances for TLC |
| `DeckRegistry` | the controller of the warm sessions with its broker, lease and pin, and the commands that interleave on it, over session actors reduced to what the controller can observe |
| `DeckRegistry_proofs`, `MCDeckRegistry` + 2 cfg | its proofs; its instances for TLC |
| `SequentialCalls` | what the worker link promises: calls one at a time, served at most once and in order, a verdict is that call's own |
| `WorkerLink` | the link as it is: processes, pipe, envelopes with sequences, deadlines, heartbeats, shutdown |
| `WorkerLink_proofs`, `MCWorkerLink` + 1 cfg | its proofs, with the refinement of `SequentialCalls`; its instance for TLC |
| `ExtensionLifecycle` | the versions of one extension ID on disk: trees, receipts, seals, trash and leases, with the commands of several processes and crashes between any two file operations |
| `ExtensionLifecycle_proofs`, `MCExtensionLifecycle` + 2 cfg | its proofs; its instances for TLC |
| `Player` | LatentPlayer's Protocol 2 playback: the coordinator's view and commands, the actor, the worker's player half |
| `Player_proofs`, `MCPlayer` + 1 cfg | its proofs; its instance for TLC |
| `DecodedRecording` | the recorder of decoded frames: actor, background writer, stoppers, files |
| `DecodedRecording_proofs`, `MCDecodedRecording` + 1 cfg | its proofs; its instance for TLC |

The modules meet where the code does. `RingV2` is the queue `DeckSession` keeps in `mapping`;
`WorkerLink` is the `call` of `DeckSession` and `Player`; `DeckSession` is an actor of
`DeckRegistry`, and an armed `DecodedRecording` is the recording it pins; the leases of
`ExtensionLifecycle` are what a launched session holds of its package. Each composed module states
the part of its neighbour it relies on, so that no run carries the product of two of them.

### RingV2

The header's five atomics are the variables `state`, `generation`, `produced`, `consumed` and
`claim`; `slot[i]` is slot `i` of the mapping with its commit word (`seq`), its generation and
two halves of plain bytes, `meta` and `pixels`, so that a torn copy can be told from a whole one.
`wpc`/`wgen` hold the step and the descriptor of a producer endpoint, the worker's and the owner's
own; `rpc`/`rgen`/`read` those of the reader in Core.

| Code | Actions |
|---|---|
| `validate_mapping_header`, `claim_producer`, `Drop` | `Validate`, `Claim`, `DropProducer` |
| `write_mapping_batch` | `BeginWrite`, `WriterLoadBefore`, `WriterRetry`, `WriterSettled`, `ClearSlot`, `FillMeta`, `FillPixels`, `CommitSlot`, `Publish` |
| `reset_mapping_generation` by the worker or, after a crash, by the owner | `BeginReset`, `OwnerClaim`, `OwnerBeginReset`, `ZeroGeneration`, `WipeSlot`, `ZeroProduced`, `ZeroConsumed`, `StoreGeneration`, `StoreReady`, `OwnerUnclaim` |
| `read_mapping_batch` | `BeginRead`, `CheckReady`, `CheckGeneration`, `ReaderLoad*`, `ReaderDepth`, `LoadCommitted`, `MismatchGeneration`, `CopyMeta`, `CopyPixels`, `Release` |
| `adopt_mapping_generation` | `OwnerAdopt`, `ReaderAdopt` |
| a worker that dies | `WorkerCrash`, at any step, the claim kept |

Loads and stores are sequentially consistent in the model; the code uses acquire and release on
each atomic, and every cross-thread fact the proof uses is carried by one such pair (the commit
word and the sequences), so weaker orders are not explored. `published` and `delivered` are
histories: what the live generation has published and what the reader has been handed.

`Quiesced` is how the hosts drive the ring: the deck actor and the players never read while a
reset command is pending. `Quiesced = FALSE` drops that rule and lets every read cross every reset.

### DeckSession

One record, `host`, is the status the actor last accepted (`RuntimeActor::status`), another,
`deck`, is the worker's session as `_deck_status_wire` tells it: state, generation, sequence,
settings (controls, roles and seed change alike and are one value), capture state, loop flags,
playing flags and playheads. `call` is the one command in flight and what `process_once` still has
to do after it, `reply` its answer, `writer` the worker's capture session and its staged payload,
`mapping` the ring reduced to its queue.

| Code | Actions |
|---|---|
| the `run` loop | `AutoProcess`, `PresentFrame`, the requests |
| the end of `run`: `stop`, `request_shutdown`, `settle_capture_on_shutdown`, the drop of the actor | `EndSession`: `StopWorker`, `WorkerStopped`, `SettleCapture`, `DropActor` |
| requests of the UI | `Tick`, `SettingsSet`, `TransportSet`, `ResetDeck`, `StartCapture`, `StopCapture`, `AskStatus`, `StartRecording`, `Shutdown` |
| worker handlers | `ServeProcess` (operator, staging, decoding, playheads, publication and capture limits), `ServeSet`, `ServeTransport`, `ServeReset`, `ServeCaptureStart`, `ServeCaptureStop`, `ServeCaptureStatus`, `ServeShutdown` |
| the host's checks and updates on each reply | `ReceiveProcess`, `ReceiveSet`, `ReceiveTransport`, `ReceiveReset`, `ReceiveCaptureStart`, `ReceiveStatus`, `ReceiveError`, `GiveUp` |
| `validate_*`, `valid_*` | `ValidProcess`, `ValidTransport`, `ValidReset`, `StatusSteps` |

A handler that commits state and then fails is modelled with its partial effect: a rejected
process leaves the sequence incremented, a rejected decode leaves the slot staged, a rejected
reset may leave the capture dropped. `Faults` selects which failures a run allows. `TransportLock`
is the contract of `capture-policy.ts`, that transport is not changed while a capture runs; the
faceplate does not apply it to transport, which is a finding below.

The end of a session is four steps, between which a worker may answer, hang or die: it is asked to
shut down after the recorder is stopped, the wait for it ends with its exit or at
`SHUTDOWN_DEADLINE`, a capture still active is settled as aborted, and dropping the actor drops the
kill-on-close job.

Finalizing a capture is one step with three outcomes (finalized, refused, import failed).
`rejected` and `seam` are histories. What happens inside a command, its envelopes and deadlines, is
`WorkerLink`'s; here a command is a call that is answered, refused, or never answered.

### DeckRegistry

`ctl` is `GenericDeckController`: the registry's sessions with their worker, the reservations, the
sessions being closed, the lease transition in progress and the output that is being started; in
it, `ctl.broker` is `SessionBroker`. `task[t]` is the command a caller waits for: where it is, and
the locals it took out of the lock with it, among them the broker a foreground transition prepared
and installs only when the actors have answered. Each section under the lock, and each wait for an
actor, is one action. The session of a worker is `serves[w]`; a replacement gives a session a
new worker.

| Code | Actions and operators |
|---|---|
| `broker.rs` | `Bound`, `Closed`, `Faulted`, `Switched`, `Cleared`, `Pinned`, `Released` |
| `reap_closed`, the head of most sections | `Reap` |
| `deck_generic_open` | `OpenReserve`, `OpenStart`, `OpenCommit`, `OpenAbandon`, `OpenCancel`, `Viewport`, `Seen`, `Unopen` |
| `deck_generic_close` | `ClosePrepare`, `CloseStop`, `CloseFinish` |
| `deck_generic_foreground_set`, `_clear` | `SwitchPrepare`, `ClearPrepare`, `Hide`, `Show`, `Restore`, `Abort`, `Complete`, `Unshow`, `Reshow` |
| `deck_generic_sources_replace` | `ReplaceBegin`, `Preflight`, `Swap`, `Restart`, `Configure`, `Install`, `Discard`, `Settle`, `Fail`, `Viewport`, `Unshown` |
| `deck_generic_capture_start`, `deck_generic_recording_start`, the pin monitors | `WorkRuntime`, `WorkPin`, `WorkStart`, `WorkUnpin`, `WorkStarted`, `MonitorSees`, `MonitorReleases` |
| `shutdown_all` | `Exit`, `Drain` |
| the actors, as requests meet them | `Asks`, `Serves`, `LateAnswer`, `WorkerFault`, `ActorEnds`, `WorkEnds` |
| `snapshot`, and a command that is refused, which only reaps | `Poll` |

An actor is running, `ending` (out of its loop: it answers nothing, but its capture and its output
are not settled yet) or gone. A caller gives up after `ACTOR_DEADLINE`; the actor may serve the
abandoned request later, and then ends because it cannot deliver the answer (`finish`). Every
`shutdown` is `ShutsDown`: the actor has ended (`Stop`), or its caller gave up (`Overdue`) and goes on
as its code does, which for a close, an abandoned open and the exit means that the session is
forgotten while its actor still runs, and for a replacement that it is settled as failed. What a
worker does inside its session is `DeckSession`'s; here it only ends, or ends its work.

There are two callers. `GenericDeckWorkspace.svelte` sends its commands through `run`, which
refuses to start one while another is in progress, except for closes; so one caller sends all
commands but close, one at a time, and a second one sends closes and the exit beside it.

### WorkerLink and SequentialCalls

One Protocol 2 session from spawn to the end of the process. `host`, `configured`, `outcome`,
`sent`, `pending`, `nextIn`, `reading` and `cut` are the supervisor and its sequential client with
`SessionValidator`; `toWorker` and `toHost` the two directions of the pipe; `worker`, `session`,
`cmd`, `reply`, `writing` and `nextCommand` the command loop; `pump` and `stopping` the heartbeat
thread, which shares `nextOut` and the writer with it.

| Code | Actions |
|---|---|
| `worker_supervisor/windows.rs` | `Spawn`, `Contain`, `ContainFails`, `Bootstrap`, `KilledByJob`, `Drop`, `ForceKill`, `HostDies` |
| `worker_client_v2.rs`, `v2.rs` `SessionValidator` | `Call`, `CallRefused`, `ReadSome`, `Reject`, `Greeted`, `Receive` (`Replied`, `Heartbeat`, `LateReply`), `Expire` as `Late`, `Renewed` or `Starved`, `ReadGarbage`, `ExitSeen` |
| `runtime_v2.py`, the command loop | `Connect`, `BootFails`, `Fetch`, `LoopFails`, `Joined`, `Serve`, `Hang`, `Exit`, `WorkerDies`, `MainLocks`, `MainWrites`, `MainSent`, `MainWriteFails` |
| `runtime_v2.py`, the heartbeat thread | `PumpLocks`, `PumpWrites`, `PumpSent`, `PumpFails`, `PumpStops` |

A message ID is a fresh UUID, so a command is its sequence. The deadlines of heartbeat and command
are one action, `Expire`: `Late` where the worker could still answer, counted and never forced,
`Starved` where nothing can. A read that is cancelled inside a frame leaves the stream out of step
(`cut`); a command that timed out leaves its reply to arrive later, which the client takes for an
unexpected one until the shutdown, which passes over it. The write of a command has no deadline in
the code and the pipe to the worker is never full. `SequentialCalls` is the promise to the owners of
a session: calls one after another, each served at most once and in order, a verdict being that
call's own; `Told` maps what `call` returned to it.

Left out: process ID and token checks, pipe security and the encoding of the bootstrap, the fields
of the payloads, Protocol 1.

### ExtensionLifecycle

The versions of one package ID: `tree`, `receipt`, `seal`, a `stray` partial receipt, and `litter`
in the staging and trash roots are the files; `lock` is the lifecycle lock and `task[p]` the command
of process `p` that holds it, with the steps it has still to do; `cache[p]` and `session[p]` are the
leases of a process, in its `ActivePackageCache` and in its sessions. Every file operation is one
action, so that a process may die between any two.

| Code | Actions |
|---|---|
| `publish_new`, `repair_prepared` | `BeginInstall`, `BeginRepair`, `Stage`, `Publish`, `Link`, `Rollback`, `RollbackFails`, `SweepRollback`, `Restore`, `RestoreFails` |
| `remove` | `BeginRemove`, `Quarantine`, `Unreceipt`, `Unseal`, `Discard` |
| `set_enabled`, `enable_if_only_installed_version`, `disable` | `BeginEnable`, `BeginEnableOnly`, `BeginDisable`, `WriteSeal`, `Commit`, `CommitFails` |
| `verify` | `BeginVerify` |
| resolution, `revalidate_cached_active` | `BeginResolve`, `ResolveSealed`, `ResolveCached` |
| `acquire_lock`, `prepare_locked_roots` | `Idle`, `Sweeps`, `MeetBusy`, `Refuse` |
| the end of a session, eviction, invalidation, exit | `DropSession`, `DropCached` |
| the system | `Crash`, `Damage` |

A seal is `[of, enabled, fits]`: the bytes and the receipt it was written for, and whether the
receipt has been rewritten since. `Reserved` IDs (`org.latentdeck.*`) are never repaired, and only
the provisioning of bundled packages lets an ID select a version by itself. Files of a leased or a
validating version cannot be damaged, as Windows denies the write. The usage lock is held
exactly while some process has a lease. Three error paths return without undoing what was done, and
so do the actions: between the publishing rename and the receipt (`lifecycle.rs:1538-1539`, in
`Publish`), after the receipt is linked and its partial file cannot be removed, which rolls the tree
back and leaves the receipt (`:2900-2901`, in `Link`), and when the receipt cannot be looked for after
the quarantine (`:1328`, in `Unreceipt`). Left out: the inventory, the validation of archives, the
busy flag and the capacity of the cache.

### Player

`view` is `PlayerCoordinator`; `cmd` the command of the interface that holds the lock of the runtime
slot, with its `answer`; `queue` the channel of the `actor`; `call` the worker command it waits for;
`worker` the player half of `runtime_v2.py`: playhead, the decoder's memory, the loop flag the source
was opened with. `shown`, `halved` and `behind` are histories. A reset may fail after the worker has
reset its decoder and before it has moved the playhead (`runtime_v2.py:1568-1569`): `CallFails` then
leaves a young decoder in the middle of the cartridge, and `halved` remembers it.

| Code | Actions |
|---|---|
| `main.rs`, `playback_runtime_v2.rs`, `player.rs`: load, play, pause, restart, stop, exit | `Begin`, `Launch`, `Send`, `Receive`, `GiveUp`, `Stop`, `StopAcknowledged`, `StopDone`, `StopFails`, `Load`, `SetLoop` |
| the actor's `select` loop | `Take`, `Refill`, `Present`, `StatusDone`, `ResetDone`, `StepDone`, `ShutdownDone`, `CallFails`, `Cleanup` |
| `_player_step`, `_player_reset` | `NextSlot`, `Decoded`, `Batch`, `Rewound`, inside the replies above |
| a dead worker, a passed deadline, a refused frame | `LinkFails` |

What the interface offers in which phase (`controlsFor`) is not assumed: every command may come at
any time. A link that is down stays down, as `WorkerLink` shows. Status, viewport and Spout
requests are polls, of which only the first asks the worker. The stream generation is left to `RingV2`;
`output_available`, the codec summary and the loading phase are left out.

### DecodedRecording

`slot`, `last`, `finalizing`, `completed` and `waiters` are the controller behind its mutex; `call[c]`
the stop of a caller, the actor being one of them; `rec[r]` the recorders in the order they were
armed, each with its queue, its status and its writer thread; `file[d]` what stands at a destination.

| Code | Actions |
|---|---|
| arming through the actor, `start_worker` | `AskStart`, `ArmRefused`, `Retire`, `Arm`, `StartFails` |
| `submit_padded_rgba` and `fail`, the presentation | `Present`, `FailEnds` |
| `stop`, `finalize` and its condition variable | `StopIdle`, `StopJoins`, `StopTakes`, `Finalized`, `Wake` |
| status commands and the pin's monitor | `Poll` |
| the writer thread of `output-mp4` | `Receive`, `Disconnected`, `Open`, `OpenFails`, `ShowRecording`, `Write`, `WriteFails`, `Leave`, `Finish`, `FinishFails`, `Publish`, `PublishFails`, `ShowFinished` |
| the user, who may save a file of that name | `OwnerWrites` |

A recorder is finalized at most once, so its number is the epoch of its finalization. Each section
under the mutex is one action, but for a submission that fails: `fail` tells the writer that it is
cancelled and then closes the channel, and the writer, which does not take the mutex, goes on between
the two. The writer's update to `Recording` after the encoder has opened is a
step of its own, because `fail` may come between. Only the actor arms, so the second check in `arm`
never fires and is left out. A source that is replaced changes the size of the frames and nothing
else. Poisoned locks, a panic of the writer, a failing `remove_file`, the timing and the layout of
frames are left out; the calls of Media Foundation are assumed to return.

## 3. Runs

| Run | Instance | Question |
|---|---|---|
| `ring_crossing` | 2 slots, 2 batches, sequences to 3, 2 generations, reads and resets crossing | exactly-once, in order, whole; one writer; refinement of `BatchQueue` |
| `ring_live` | 2 slots, 1 batch, 3 generations, reads quiesced, fair | nothing legal refused; batches are taken, acknowledged resets are adopted |
| `deck_capture` | 2 sources of 2 and 3 slots with any loop flags, 2 frames a batch, snapshot and live capture, 2 settings, 3 requests, a failing writer, timeouts, crashes, vanished callers | host and worker in step, faithful tapes, fresh frames, seams closed, an honest view, nobody misjudged |
| `deck_live` | 1 source, both captures, every fault, a worker that may hang, transport unlocked, fair | ring in step; captures and sessions end |
| `deck_transport_in_capture` | the smallest that shows it | finding 1 of section 5 |
| `registry` | 3 identities, 2 warm, 5 commands of every kind, every fault, late answers and shutdowns included | lease, pin, broker, screen and capacity consistent; nothing left behind |
| `registry_live` | 2 identities, 4 commands, every fault, fair | one output on the screen; transitions end, pins of ended work are released |
| `link` | 3 calls, 6 frames, 2 late deadlines, a pipe of 2 frames, budgets of 5 messages and 2 pending commands, every fault, fair | no genuine peer is refused; an orderly end is one; refinement of `SequentialCalls`; calls end, no worker outlives its host |
| `extensions` | 2 versions, 2 builds of each, 2 processes, 5 commands, 2 mishaps, a reserved ID or not | leased files stay intact; one enabled version; only an enabled one runs; commands are all, nothing or a known half |
| `ext_stray_receipt` | 6 commands, 1 mishap | finding 2 of section 5 |
| `player` | cartridges of 1 and 2 slots, 2 frames a slot, a channel of 2, 1 late deadline or half-failed reset, every fault, fair | frames of one pass, in order and whole; an honest view; commands end, playback gets to its end |
| `recording` | 2 recordings to 1 destination, 2 stopping commands and the actor, a queue of 1, 2 frames, every fault, fair | answers and files agree, nothing partial or overwritten; every stop returns |

**Bounds.** A ring of two slots with three sequences wraps both indices, reaches full and empty
and the exhaustion of the sequence (`MaxSequence` is the `u64::MAX` of the code); two generations
give a reset under every step of a read, three a second reset before the first is adopted. Tries is 2
for the 8 of the code: the retry loop is entered, repeated and given up. Sources of two and three
slots wrap at different processes, so that one seam opens while the other source is inside its run;
three staged slots are a start, a middle and an end. `Requests`, `MaxGeneration` and `MaxSequence`
bound only the user and the counters, in the guards of `Request`, `InBounds` and `ResetDeck`; a
behaviour that meets one stops, which is why deadlock is not checked: a session that was shut down
really stops, and so does a crashed worker.

In the registry three identities compete for two places, so that an open meets a full registry, a
session being closed and one being replaced; five commands are enough to open two sessions, give one
the lease, pin it and still send a command that meets the pin, and each has up to seven steps
between which closes, faults and monitors come. One abandoned request per actor is kept: an actor
that meets it ends, so a second one is never served. Polls are always possible there, so a deadlock
cannot occur; that no command gets stuck is what `TransitionsEnd` and `NothingLeft` say.

On the link three calls are a configuration, a command and a shutdown, or a command whose reply comes
during the next two; a budget of five messages is met by three commands and their heartbeats and a
pipe of two frames is filled by one heartbeat before a reply. On disk two versions with two builds
give each of install, repair, update and selection something to collide with; five commands install
both, enable one, and still repair, remove or disable under a lease; two mishaps are a crash and a
crash, or a failure and a failed undo, of the next command. In the player a cartridge of one slot
ends in its first batch and one of two has a slot between; a channel of two fills while the actor is
in a call. A recording needs two stopping commands besides the actor before one of them can wait for
the wrong finalization, and a second recorder of the same destination before an old answer can be
taken for the new; a queue of one is full at the second frame.

Sets of settings, builds, versions and processes are symmetric and reduced in safety runs only.

**Fairness.** Ring: the endpoints finish what they begin, and the host polls reads and adopts an
acknowledged generation; nothing forces a worker to publish or to reset. Deck: the actor
receives replies, gives up on a worker that is dead or late and goes on with its end (weak fairness:
each is one task with nothing to wait for but a deadline). Nothing is asked of the worker, which may
hang. Decoding and presentation get strong fairness, because
the `run` loop takes at most the requests already in its channel before it decodes or presents, and
the pollers ask every 200 ms. The deadline of a call passes if nothing else happens, that of the
shutdown too. Registry: a command goes on, because each of its waits is bounded by `ACTOR_DEADLINE` or
`SHUTDOWN_DEADLINE`, or is a start that returns; a monitor looks every 200 ms;
an actor comes to the requests in its queue, and ends once it is out of its loop. No command, poll,
fault or end of work is forced, so a pin is shown to be released without the interface asking. Link:
supervisor, client, command loop and heartbeat thread take the steps they can; a deadline passes
where nothing else can happen; a kill-on-close job kills. No heartbeat, request or fault is forced.
Player: commands and the actor go on; `Present` and `Refill` are strong, because the `select` is
biased to a due frame and polls come every 250 ms. `PlaysOut` assumes that Loop is changed finitely
often. Recording: threads run, the encoder's calls return, a woken waiter gets the mutex.


## 4. Proofs

Every theorem below is proved for all values of the constants its module declares, from nothing but
that module's named assumptions (a positive slot count, natural bounds, a set of faults among those
the model knows). A proof module extends its component and has the same shape: an invariant `IInv`
which TLC checked first, `Init => IInv`, one lemma or one step per action for
`IInv /\ [Next]_vars => IInv'`, and a temporal theorem per property.

### RingV2_proofs and RingV2_refinement

| Theorem | Says |
|---|---|
| `Coherence` | `TypeOK /\ Coherent` is an inductive invariant |
| `TypeCorrect` | types |
| `ClaimExcludes` | `SoleWriter`: never two writers inside the mapping |
| `DeliveryInOrder` | `DeliveredInOrder`: what the reader has is a prefix of what was published |
| `UnreadNeverOverwritten` | `UnreadIntact`: an unread slot still holds its batch, committed |
| `NoTornBatch` | `HeldBatchWhole`: what is about to be released is one batch, even if a reset crossed the copy |
| `QuiescedNeverRefused` | `NeverRefused`: if resets begin only between calls, no read is refused |
| `QueueImplemented` | `QueueSpec`: the ring implements `BatchQueue` |

None of the properties is inductive alone. `Coherent` is their conjunction with four parts:
`LifeInv` ties `state` and `generation` to the step of the endpoint that is resetting, and says
what descriptors may equal the live generation; `WriteInv` says what the slot being written
holds at each step of the write, and that its index differs from every unread one; `CountInv`
bounds `consumed <= produced <= consumed + SlotCount` and ties both to the histories; `ReadInv`
says what the reader's locals mean while its generation is still live. The central argument is
`UnreadStep`: the writer's target differs from each unread sequence by less than `SlotCount`, so by
`IndexApart` they are different slots; the only non-linear fact is `NoMultipleBetween`. A read
that a reset crosses keeps only the weak half of `ReadInv`; `CheckGeneration` after the copy is the
step that restores the strong one, and `NoTornBatch` fails in the model without it.

`QuiescedNeverRefused` assumes `Quiesced`, which is how host and worker use the ring: the worker
resets only while it serves a command and the host reads only between two. Its invariant `QuietInv`
adds to `Coherent` what a wipe has wiped so far, up to the zeroed cursors of a generation that waits
for its adoption (`WipeInv`), and that a read runs in the reader's own generation from its first load
to its last (`QuietReadInv`); an empty ring is then the only thing a reader can meet besides a batch.

The refinement maps the unread part of `published` to the queue. `Publish` is `Put`
(`SubSeqAppend`), the last check of the generation, after which a read can only succeed, is `Take`
(`HeadTailOfSubSeq`), the first store of a reset is `Withdraw`, the reader's adoption is `Adopt`;
every other step, the release of a slot among them, is invisible. It needs one fact more than
`Coherent`, `WritesBatch`, that an endpoint inside a write holds a batch.

### DeckSession_proofs

| Theorem | Says |
|---|---|
| `TypeCorrect` | types; playheads stay inside their sources, captures inside their limits |
| `RingFollows` | `RingInStep`: between two commands the ring is empty and of the status's generation |
| `FramesFresh` | `FreshFrames`: frames in line are of the settings in force |
| `ViewTrue` | `ViewTellsEnd`: the published view is in progress exactly while a capture is active |
| `StepsTogether` | `InStep`: between two commands host and worker agree on every field |
| `NeverAccused` | `NeverMisjudged`: the validators accept whatever an obedient worker does |
| `SeamsClose` | `SeamsClosed`: no source is decoded past its wrap before a reset has closed the seam |
| `TapesFaithful` | `TapeFaithful`: a capture's tape is the run of slots that were decoded, none lost, none twice |

The first four hold for any faults. `CallInv` says what a command in flight was sent for: inside
`process_once` the frames of its batch are still in line and match the status. `RingInv` says what
the ring holds at each stage of a command: its one batch between the acknowledgement of a process
and its receipt, another generation between those of a reset, and nothing otherwise. A receive ends
in one of three ways (`Kept`, `Done`, `Further`), and `ReceivesKeep` shows once that each of them
keeps the invariant.

The next two are about a worker that has refused nothing, over any captures, crashes, timeouts and
failed imports. Their invariant `Agreed` follows the command: while it is unanswered the host's
status *is* the worker's session; once it is acknowledged, the two differ by exactly what the
validator of that command allows (`AckInv`), and an active capture may be `Behind` the worker's by
one legal transition. They assume `Ordinary`: transport waits for the end of a capture, and no source
is a single slot. Neither can be dropped; the first is the run `deck_transport_in_capture`, the
second a finding of section 5 which the failed proof of `ValidReset` brought up.

`SeamsClose` and `TapesFaithful` ask less of the worker and more of the limits. `SeamInv` says that an
open seam is `Owed` its reset: the actor still has to look at the reply that wrapped, asks for the
status of the capture first, or has sent the reset; and that the actor's playheads are the worker's
but for a reply it has not looked at (`Abreast`), so that it sees the wrap. That holds if `Unhindered`:
no reset is refused by the decoder, no import fails, a capture has a reset event for every generation
the session comes to, and no source is a single slot. Each of the four is needed, and what happens
without it is a finding of section 5; other refusals, crashes and timeouts are allowed. `TapeInv`
follows the worker's tape: what it holds is whole (`Intact`), its last entry is the slot the Deck
stands on, or one reset lies between (`AtLast`), and a reset that closes a seam finds the slot of the
wrap on it (`Filled`). It holds if `Flawless`, which adds that no operator and no decode is rejected,
because such a process has moved the tape and not the playheads, or the reverse.

### DeckRegistry_proofs

| Theorem | Says |
|---|---|
| `SessionsKnown` | `BrokerKnowsSessions`: the broker has the sessions that are warm and not closing, no others |
| `PinHeld` | `PinOwnsLease` and `LeaseOfSession`: a pin is that of the lease held, a lease that of a warm session |
| `LeavesNothing` | `NothingLeft`: nothing in the controller outlives the command it belongs to, nor the exit, and no worker whose shutdown was not given up |
| `CapacityHeld` | `Capacity`: with the sessions being opened, replaced and ended, and without workers whose shutdown was given up, there are never more than `MaxWarm` workers |
| `OneIsShown` | `OneShown`: no two sessions are on the output unless one is being closed, or its actor is to end |
| `LeaseIsShown` | `LeaseShown`: between two lease transitions the output shows the lease, also after a rollback, and nobody else but actors that are to end or being closed |
| `WorkIsPinned` | `WorkPinned`: a capture or recording that runs has the pin of its session and kind, unless its actor is to end |

What is excepted is exact and has the code for its reason. An actor is to end (`Doomed`) when it has
left its loop, or when a request in its queue that nobody waits for any more, a shutdown included,
will make it leave: it serves nothing after the first such request, and the fairness of the run
`registry_live` brings it there. A worker is left out of the count (not in `Attended`) only from the moment a
`shutdown` of it gave up, because from then on the code does not count it either. No theorem but those
two makes an exception for it, and without a timeout there is none.

`IInv` is an invariant of the controller (`ControllerOK`) and one of what each command has taken out
of the lock with it (`TaskOK`). Any section may reap, but a section only loses sessions (`After`), so
what another command has in hand keeps. Numbers of transitions are never used again, so a command
whose transition is still in progress is the only one of its kind (`InTransition`): it replaces a
session that nobody else can close, or it holds a prepared broker which misses no session there is
now, and `Complete` installs that broker only if the warm sets are still equal (`InstalledOK`). The
callers are unrestricted except for `OneIsShown` and `LeaseIsShown`: any number of them, any command
at any time.

`LeavesNothing` is an inventory of what is in the lock and who will take it away. `Fits` gives every
reservation, closing session, transition and output start to a command at a step that still removes
it, and every worker to its session or to the command that `Holds` it; `Staff` says that no identity
has two workers, that no two commands make one for the same identity, and that a recording has a
worker or a replacement under way. `Budget`, that a number is left for the next worker, is about a bound of
the model. `CapacityHeld` counts `Rooms`: the sessions, the identities for which a command still makes
a worker, and those an exit still has to end. Every worker is in a room by `Inventory`, and a room is
only added while they are fewer than `MaxWarm`.

`OneIsShown` and `LeaseIsShown` are about three things that are changed apart: what the actors show,
the lease in the lock, and the locals of the switch that runs between them. `Screen` relates them:
who may show at each step of a switch or replacement (`Holder`: nobody while it is `Dark`, only the
target once it is `Ahead`, else the lease), that the switch still knows whom it took the output from
(`Switcher`), and that the holder does show at the steps where it should (`Lit`). They assume
`OneCaller`: one caller sends the commands and the others close and exit, as `run` of
`GenericDeckWorkspace.svelte` has it; those others are `Bystanders`, which only take sessions away.
It is needed: with two commanding callers the rollback of a switch runs beside the next switch, and
TLC finds two sessions showing. Both hold with any faults, requests and shutdowns that are given up
included: a session that was closed and forgotten while it still shows, or whose replacement failed
while its old actor runs, has an actor that is to end, which `Screen` keeps true until it has ended.
That it shows at all in the meantime is a finding of section 5.

`WorkIsPinned` relates the work of the actors, the pin in the lock, the tokens that commands and
monitors took out of it, and the workers they were given. That work has its pin (`Owned`) is not
inductive: `Backed` adds what each command (`Tasked`) and each monitor (`Watched`) still relies on. A
command that has pinned starts its work only in the worker of the session the pin is of; one that
unpins, and a monitor that has seen the end, hold a token under which nothing runs any more; no two of
them have the same token (`Apart`), so that none releases the pin of another; a prepared switch finds
no pin until it is complete. A section that takes a pin away must show that no work runs (`Spares`);
for a reap, a fault and a failed replacement this is where the inventory above is needed: no worker of
the session whose entry is emptied is left but the new one, or one that is to end. It holds for any
callers and any faults.

### WorkerLink_proofs

| Theorem | Says |
|---|---|
| `TypeCorrect` | types |
| `NoneRefused` | `PeersAgree`: unless a deadline cut a frame, no side refuses the other's frame or command |
| `OrderlyEnd` | `CleanEnd`: an acknowledged shutdown left a stopped session and an ended process |
| `CallsImplemented` | `CallsSpec`: the session implements `SequentialCalls` |

`FramesInv` is the heart: as long as the client is in frame and within its budget, the frames in the
pipe are the ones that follow its counter, each with the verdict of its own command, up to the frame
the worker writes next. `PendingInv` adds that each of the replies among them is still expected, and
expected once. `CommandInv` says that the commands in the pipe are the ones the worker has not taken,
`ServeInv` that it has served all it has taken but the one in its hand, `WriteInv` that the command
loop and the heartbeat thread never hold the writer together, `ClientInv` what the client knows of
its last command. For `CallsImplemented` every action is shown to be `Ask`, `Serve`, `Answer`, `Fail` or
invisible.

### ExtensionLifecycle_proofs

| Theorem | Says |
|---|---|
| `TypeCorrect` | types |
| `OneEnabledCorrect` | `OneEnabled`: no two versions of an ID that is not reserved are enabled |
| `LeaseIntactCorrect` | `LeaseIntact`: the files a lease was granted for stay as they are while it is held |
| `OnlyEnabledRunsCorrect` | `OnlyEnabledRuns`: a new session gets a version that is enabled at that moment |
| `AllOrNothingCorrect` | `AllOrNothing`: a command that returns has done all of its work on tree and receipt, none, or one of three known halves |

`LockInv` says that a command at work holds the lock, so there is one at a time; a lemma per step
(`Moves`, `Ends`) then reduces an action to what it does to that one. `StepsInv` and `DueInv` say
which steps belong to which commands and which of them have a receipt to write; `AloneInv` that the
version an enabling receipt is about to be written for has no enabled rival; `TaskInv` that a version
being moved has no lease, and one being judged keeps the files the judgement was about; `SealInv` that
a seal that fits names the bytes that are there, so that a resolution that skips the hashing gets what
was hashed.

`AllOrNothing` is about a whole command and is proved step by step: `MidwayInv` says how far the
command at work has come, that is which of the old tree, none and the promised one is in place,
whether the receipt is the old or the promised one, and that the tree an undo would bring back is the
one the command found. Each step leads to the `Midway` of the next one or returns with one of the
outcomes (`Returns`): the work, none of it, or a half that an error path of the code leaves
(`HalfDone`): a published tree whose receipt was not written, a first receipt whose tree was taken
back, a removed tree whose receipt was not looked at. That says which commands leave no half and
that none leaves another one; the halves are a finding of section 5. TLC has checked the invariant on the instance of the run `extensions` first.
A crash, a rollback that fails and a restore that fails are left aside, as in the property.

### Player_proofs

| Theorem | Says |
|---|---|
| `TypeCorrect` | types |
| `PassFaithfulCorrect` | `PassFaithful`: frames in order, each once, decoded with the right memory unless a reset failed half way |
| `ViewHonestCorrect` | `ViewHonest`: the view tells whether the runtime plays and which frame is on the output |
| `EndsWholeCorrect` | `EndsWhole`: a pass ends by itself only when its last frame has been shown |

`SlotInv` ties the runtime slot to the command holding its lock, `CallInv` the command in flight to
what the actor had decided before it, `FramesInv` the pending frames to the playhead of the worker: what has
been shown, what is pending and what the call will bring are one run of frames.

### DecodedRecording_proofs

| Theorem | Says |
|---|---|
| `TypeCorrect` | types |
| `InvariantHolds` | `IInv` |
| `Honest` | `RecordingHonest`: answers and files agree, nothing partial stays, nothing is replaced |

`RecordersInv` says that file, writer's hand and queue of a recorder are together what was presented
to it (`Whole`), that it is cancelled exactly if it has failed (`Sound`), also between the two steps of
`fail`, so that a channel that is closed behind a frame it lost never looks like an orderly end, and
that what its status promises is on disk (`Kept`); `FilesInv` that a partial file has a writer at work
on it; `ControlInv` that the finalization in progress is the last recorder's, that a completed outcome stays until its
last waiter has read it (the counter is the cardinality of those who wait), and that they wait for
that recorder; `OwnerKept` that a file of the owner is never touched.

### What is only model-checked

Every safety invariant and action property that a passing run checks is also a theorem, some of them
under a condition. What is left:

* Liveness of every module and anything that needs `ENABLED`: outside the prover's reach.
* That the conditions of the conditional theorems (`Quiesced`, `Ordinary`, `Unhindered`, `Flawless`,
  `OneCaller`) are what the code's callers do is read from the code and not proved; each names the
  behaviour without it in this file.

## 5. Findings

With a run each:

1. `deck_transport_in_capture`. During a live capture `deck.transport.set` moves the worker's Deck
   state to playing or paused; the host alone goes back to capturing at the next `capture.status`.
   The next controls change is then refused as a protocol fault and ends session and capture.
2. `ext_stray_receipt`. A process that dies while it replaces a receipt leaves a
   `.receipt-*.partial` file, which nothing sweeps and which `ensure_no_other_enabled_version` reads
   as the receipt of another version: from then on no version of that ID can be enabled.

Seen while modelling and stated here without a run. Each is a consequence of the lines named; some
are deliberate.

*Deck.*
* A causal reset that is refused at the capture's limit of reset events during a `ProcessOnce` is
  never made up for: the host has already taken the wrapped status.
* A failed Library import, raised in a user's `ProcessOnce`, reaches the decoding loop as an error
  and skips the causal reset (`generic_deck_runtime.rs:850`); when the snapshot completes while the
  actor decodes on its own it ends the session, against the comment and the test that say otherwise.
* After a faulted capture a Deck whose sources have all settled is still reported as playing. The
  batch decoded as the last source settles is never presented (`generic_deck_runtime.rs:858`).
* A Deck reset ends the session of a source of a single slot that has played to its end, or is
  paused, without Loop: the worker reports the end of the stream at slot 0
  (`runtime_v2.py:965`), and `validate_reset_status` demands that none is
  (`generic_deck_runtime.rs:2160`). The reset of the interface is always of this kind
  (`GenericDeckWorkspace.svelte:1109`), and a snapshot capture makes such cartridges. With
  `Count = 1` TLC finds `NeverMisjudged` violated in six steps; the instances have two slots or more.
* A slot whose decode was rejected stays on the tape and is appended again (`runtime_v2.py:1691`). A
  looping source of a single slot never resets, because its playhead does not move.

*Registry.*
* Two sessions can be on the output at once, against `docs/guides/ARTIST_WORKFLOW.md:201-202`. When a
  switch cannot be completed, because a third session has died since it was prepared, its rollback
  asks the target to hide and ignores the answer (`generic_deck_state.rs:2466`), then shows the
  previous one (`:2470`). If the hide is given up after `ACTOR_DEADLINE`, both show until the target's
  actor comes to the abandoned request, hides and ends. It takes three sessions and the failed proof of
  `OneShown` brought it up; the exception for actors that are to end in the property is this and the
  next.
* A `shutdown` waits for `ACTOR_DEADLINE` and `SHUTDOWN_DEADLINE` (`generic_deck_runtime.rs:665-686`)
  and its callers go on when it gives up. A close then forgets the session while its actor still runs,
  shows and may record (`generic_deck_state.rs:2481-2484`); an abandoned open and the exit likewise; a
  replacement is settled as failed beside the old actor (`:2060-2069`). Until that actor ends, another
  session can be shown beside it, and its worker runs beyond `MAX_WARM_SESSIONS`. `Doomed` and
  `Attended` in `OneShown`, `LeaseShown`, `Capacity` and `NothingLeft` are exactly these workers.
* The monitor of a capture takes any error of `capture_status` for the end of the capture, a timeout
  included: while the actor is busy for longer than `ACTOR_DEADLINE` the pin is released under a
  running capture, and the lease can be switched or cleared. The actor ends the session later, when
  it comes to the abandoned request.
* An open whose output fails closes its session, and when that close is refused because a lease
  transition has begun in between, the failed session stays until its actor ends.

*Worker link.* `spec/worker-protocol/README.md:163-165` asks the host to rotate or stop a session
while enough message budget remains for a shutdown. The client keeps no reserve: exhaustion is met by
failing the next command or frame (`v2.rs:2073`, `2107`).

*Extensions.*
* Three error paths undo nothing or half: an install or repair that fails between the publishing rename
  and the receipt returns with the new tree in place and no receipt, or the old one
  (`lifecycle.rs:1538-1539`); one that cannot remove the partial file of a receipt already linked
  takes the tree back and leaves the receipt (`:2900-2901`); a removal that cannot look for the receipt
  leaves it without its tree (`:1328`). None leaves a receipt enabled that was not, but tree and
  receipt do not belong together any more when the command has returned its error.
* A repair with a different archive replaces an enabled, healthy version: the gate at
  `lifecycle.rs:211-225` is weaker than the description at 172-177.
* `enable_if_only_installed_version` (`lifecycle.rs:1224`) looks at directories and not at receipts
  (`spec/deck-package/README.md:293`). Two versions of a reserved ID can be left enabled and valid:
  the removal of a damaged enabled one dies before it deletes the receipt, the other is selected, and
  an installation of the first dies between tree and receipt. TLC finds it with three mishaps.

*Player.*
* A reset that fails in `set_generation` has reset the decoder and kept the playhead
  (`runtime_v2.py:1568-1569`): frames decoded after it start from a young memory in the middle of the
  cartridge. `PassFaithful` says so with `halved`.
* Selecting a codec or decoder, or an open that fails, while playing leaves the view Playing with no
  runtime; only Restart recovers. A failed Pause or Restart likewise leaves the actor stopped. After a
  call that timed out, Restart does not recover.
* `set_loop` with a full channel changes only the view; Play during the reset of a loop may be
  answered by a spurious error.
* An adoption that fails in a reset is reported but the session is not terminated, which
  `player_session_v2.rs:909-915` asks of its callers.
* `spec/worker-protocol/README.md:329` says that the worker never wraps by itself and reports the end
  of the stream; opened with loop it wraps and reports none.

*Recording.* A failure while the encoder is opening is overwritten by the writer's update to
`Recording` (`output-mp4/src/lib.rs:441`, against line 60): the status stays "recording" until the
stop.

## 6. What the plan has left

1. An abstract `OutputLease` (one holder, pins that block its moves) for `DeckRegistry` to implement.
2. `CaptureFinalizer`: staging, validation, no-clobber write, import, with a failure at each; one
   actor's sequence of steps, today one step of `DeckSession` with three outcomes.
3. `LibraryImport`: import and reindex of paths that appear, move and vanish.
4. `PlaybackSchedule`: a pure algorithm, checked against a reference cadence over bounded inputs.
5. The Protocol 2 commands `deck.restart` and raw import; codec selection and its rebinding.

## 7. Not modelled

Parsing, hashing and writing of cartridges; tensors, shaders and encoders; window handles, Spout and
D3D sharing; validation of documents (presets, manifests, schemas); the UI beyond the requests it
makes; diagnostics; ABI 1 of the ring and Protocol 1, which ABI 2 and Protocol 2 replace. They are
sequential computation over data or calls into a platform, where a model would repeat the code. Of
the modelled components, `deck.restart` (no host sends it), the viewport and Spout commands of the
actors and the selection of codecs are left out. The components table of `PROJECT.json` has the
status of each part.
