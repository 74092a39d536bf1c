-------------------------- MODULE DecodedRecording --------------------------
(***************************************************************************)
(* Decoded MP4 recording of one Deck session: the controller that the Tauri  *)
(* commands share with the Deck's actor, the recorder it holds, the writer    *)
(* thread of every recorder, and the files.  The actor arms a recorder and    *)
(* offers it each frame it presents without ever waiting for the encoder; any *)
(* number of commands may stop it meanwhile, and all but one of them wait for *)
(* the finalization of the other.                                            *)
(* A recorder is finalized at most once, so its number stands for the epoch   *)
(* of its finalization.                                                      *)
(***************************************************************************)
EXTENDS Naturals, Sequences, FiniteSets

CONSTANTS
    Stoppers,       \* commands that may stop the recording at the same time
    Destinations,   \* files an owner may choose
    Capacity,       \* FRAME_QUEUE_CAPACITY
    MaxRecordings,  \* bound: recorders armed
    MaxFrames,      \* bound: frames presented to one recorder
    Faults          \* faults of the instance

ASSUME RecordingAssumption ==
    /\ Capacity \in Nat \ {0} /\ MaxRecordings \in Nat /\ MaxFrames \in Nat
    /\ IsFiniteSet(Stoppers) /\ "actor" \notin Stoppers /\ "none" \notin Destinations
    /\ Faults \subseteq {"open", "write", "finish", "publish", "spawn"}

VARIABLES
    slot,           \* recorder the controller holds, 0 for none
    last,           \* last_status of the controller
    finalizing,     \* recorder that is being finalized, 0 for none
    completed,      \* completed_finalization: [of, verdict], of 0 for none
    waiters,        \* commands that wait for a finalization
    call,           \* the stop of every caller: [pc, of]
    actor,          \* the Deck's actor: an error while it is inside fail with it
    retiring,       \* recorder it is dropping, 0 for none
    start,          \* destination of the start request in its channel
    pinned,         \* whether the MP4 pin is held
    armed,          \* recorders armed so far
    rec,            \* the recorders, numbered in that order
    file,           \* what stands at each destination
    owned           \* history: destinations the owner has written

control == <<slot, last, finalizing, completed, waiters>>
vars == <<control, call, actor, retiring, start, pinned, armed, rec, file, owned>>

Recorders == 1..MaxRecordings
Callers == Stoppers \cup {"actor"}
Errors == {"frame", "overflow", "encoder", "exists", "finalize"}
States == {"idle", "armed", "recording", "finalizing", "finished", "cancelled", "failed"}
Verdicts == States \cup Errors \cup {"stopped", "none"}
Sizes == {"intrinsic", "other", "odd"}
Frame == [nr : Nat, size : Sizes]
Partials == [made : BOOLEAN, frames : Seq(Frame)]
Recorder ==
    [dest : Destinations \cup {"none"}, status : States, size : Sizes \cup {"none"}, error : Errors \cup {"none"},
     cancelled : BOOLEAN, sender : BOOLEAN, queue : Seq(Frame), held : Seq(Frame),
     worker : {"receiving", "opening", "opened", "writing", "leaving", "finishing",
               "publishing", "published", "ended"},
     partial : Partials, shown : Seq(Frame)]

NoPartial == [made |-> FALSE, frames |-> <<>>]
NoFile == [by |-> "nobody", of |-> 0, frames |-> <<>>]
OwnersFile == [by |-> "owner", of |-> 0, frames |-> <<>>]
Output(r, frames) == [by |-> "recorder", of |-> r, frames |-> frames]
File == [by : {"nobody", "owner", "recorder"}, of : Nat, frames : Seq(Frame)]

Armed(d) ==
    [dest |-> d, status |-> "armed", size |-> "none", error |-> "none", cancelled |-> FALSE,
     sender |-> TRUE, queue |-> <<>>, held |-> <<>>, worker |-> "receiving",
     partial |-> NoPartial, shown |-> <<>>]
Unarmed == [Armed("none") EXCEPT !.worker = "ended"]
NoFinalization == [of |-> 0, verdict |-> "none"]

TypeOK ==
    /\ armed \in 0..MaxRecordings /\ rec \in [Recorders -> Recorder]
    /\ slot \in 0..armed /\ retiring \in 0..armed /\ last \in States
    /\ finalizing \in 0..armed /\ waiters \in Nat
    /\ completed \in [of : 0..armed, verdict : Verdicts]
    /\ call \in [Callers -> [pc : {"idle", "joining", "waiting"}, of : 0..armed]]
    /\ actor \in {"running", "arming", "over"} \cup Errors
    /\ start \in Destinations \cup {"none"} /\ pinned \in BOOLEAN
    /\ file \in [Destinations -> File] /\ owned \subseteq Destinations

Init ==
    /\ slot = 0 /\ last = "idle" /\ finalizing = 0
    /\ completed = NoFinalization /\ waiters = 0
    /\ call = [c \in Callers |-> [pc |-> "idle", of |-> 0]]
    /\ actor = "running" /\ retiring = 0 /\ start = "none" /\ pinned = FALSE
    /\ armed = 0 /\ rec = [r \in Recorders |-> Unarmed]
    /\ file = [d \in Destinations |-> NoFile] /\ owned = {}

Active(state) == state \in {"armed", "recording", "finalizing"}

(* set_worker_failure, and what fail does before it closes the channel.       *)
Failed(m, error) == [m EXCEPT !.cancelled = TRUE, !.error = error, !.status = "failed"]
Closed(m) == [m EXCEPT !.sender = FALSE]

(* A fail that closes the channel before it tells the writer.                *)
FailClosing(m, error, first) == IF first THEN Closed(m) ELSE Failed(m, error)

(* The two parts of fail; the writer may take steps between them.            *)
Fail(m, error, first) == IF first THEN Failed(m, error) ELSE Closed(m)

(* The actor holds the controller's lock all through a submission.           *)
Unlocked == actor \notin Errors
-----------------------------------------------------------------------------
(* The commands that start a recording and look at it.                       *)

AskStart(d) ==
    /\ ~pinned /\ start = "none" /\ actor # "over" /\ armed < MaxRecordings
    /\ start' = d /\ pinned' = TRUE
    /\ UNCHANGED <<control, call, actor, retiring, armed, rec, file, owned>>

(* Status commands and the pin's monitor.                                    *)
Poll ==
    LET state == IF slot = 0 THEN last ELSE rec[slot].status IN
    /\ Unlocked
    /\ last' = state
    /\ pinned' = (pinned /\ (start # "none" \/ Active(state)))
    /\ UNCHANGED <<slot, finalizing, completed, waiters, call, actor, retiring, start, armed, rec, file, owned>>

Refuse == start' = "none" /\ pinned' = FALSE
-----------------------------------------------------------------------------
(* The actor: arming in two steps, because a retired recorder is joined off   *)
(* the controller's lock.  Nobody else arms, so the lock it takes the second  *)
(* time finds the slot as it left it.                                        *)

(* A guard that forgets those who have yet to read the last outcome.         *)
ArmsOver == finalizing = 0 /\ (slot # 0 => ~Active(rec[slot].status))

MayArm ==
    /\ finalizing = 0 /\ waiters = 0
    /\ slot # 0 => ~Active(rec[slot].status)

ArmRefused ==
    /\ actor = "running" /\ start # "none" /\ ~MayArm
    /\ Refuse
    /\ UNCHANGED <<control, call, actor, retiring, armed, rec, file, owned>>

Retire ==
    /\ actor = "running" /\ start # "none" /\ MayArm
    /\ actor' = "arming" /\ slot' = 0 /\ retiring' = slot
    /\ rec' = [r \in Recorders |->
                 IF r = slot THEN Closed([rec[r] EXCEPT !.cancelled = TRUE]) ELSE rec[r]]
    /\ UNCHANGED <<last, finalizing, completed, waiters, call, start, pinned, armed, file, owned>>

Retired == actor = "arming" /\ (retiring # 0 => rec[retiring].worker = "ended")

Arm ==
    /\ Retired /\ file[start] = NoFile
    /\ armed' = armed + 1 /\ slot' = armed + 1 /\ last' = "armed"
    /\ rec' = [rec EXCEPT ![armed + 1] = Armed(start)]
    /\ completed' = NoFinalization
    /\ actor' = "running" /\ retiring' = 0 /\ start' = "none"
    /\ UNCHANGED <<finalizing, waiters, call, pinned, file, owned>>

StartFails ==
    /\ Retired /\ (file[start] # NoFile \/ "spawn" \in Faults)
    /\ actor' = "running" /\ retiring' = 0 /\ Refuse
    /\ UNCHANGED <<control, call, armed, rec, file, owned>>

(* What a recorder makes of one presented frame.  Taking the lock again, the  *)
(* waiters and the finalization never meet a submission: there is no recorder *)
(* in the slot then.                                                         *)
Accepting(m) == m.error = "none" /\ m.status \in {"armed", "recording"}
Changed(m, f) == m.size \notin {"none", f.size}

Refusal(m, f) ==
    CASE f.size = "odd" \/ (Accepting(m) /\ Changed(m, f)) -> "frame"
      [] f.size # "odd" /\ Accepting(m) /\ ~Changed(m, f) /\ Len(m.queue) = Capacity -> "overflow"
      [] OTHER -> "none"

Submit(m, f) == IF Accepting(m) THEN [m EXCEPT !.queue = Append(@, f), !.size = f.size] ELSE m

Present(size) ==
    LET m == rec[slot]
        f == [nr |-> Len(m.shown) + 1, size |-> size]
        refusal == Refusal(m, f)
        n == IF refusal = "none" THEN Submit(m, f) ELSE Fail(m, refusal, TRUE)
    IN
    /\ actor = "running" /\ slot # 0 /\ Len(m.shown) < MaxFrames
    /\ rec' = [rec EXCEPT ![slot] = [n EXCEPT !.shown = Append(@, f)]]
    /\ IF refusal = "none"
       THEN /\ last' = IF n.error # "none" THEN "failed" ELSE n.status
            /\ UNCHANGED actor
       ELSE actor' = refusal /\ UNCHANGED last
    /\ UNCHANGED <<slot, finalizing, completed, waiters, call, retiring, start, pinned, armed, file, owned>>

FailEnds ==
    /\ actor \in Errors
    /\ rec' = [rec EXCEPT ![slot] = Fail(@, actor, FALSE)]
    /\ last' = "failed" /\ actor' = "running"
    /\ UNCHANGED <<slot, finalizing, completed, waiters, call, retiring, start, pinned, armed, file, owned>>
-----------------------------------------------------------------------------
(* Stopping: any command, and the actor as its runtime ends.  A stop answers  *)
(* with the completed finalization, its own or the one it has waited for, or  *)
(* with the last status if there is none.                                     *)

MayStop(c) ==
    /\ call[c].pc = "idle" /\ Unlocked
    /\ c = "actor" => actor = "running"

(* The actor stops the recording as it ends; its requests end with it.        *)
Leaving(c) ==
    IF c = "actor" THEN actor' = "over" /\ start' = "none" ELSE UNCHANGED <<actor, start>>

Enter(c, pc, r) == call' = [call EXCEPT ![c] = [pc |-> pc, of |-> r]]
Return(c) == Enter(c, "idle", 0)

StopIdle(c) ==
    /\ MayStop(c) /\ finalizing = 0 /\ slot = 0
    /\ Leaving(c)
    /\ UNCHANGED <<control, call, retiring, pinned, armed, rec, file, owned>>

StopJoins(c) ==
    /\ MayStop(c) /\ finalizing # 0
    /\ waiters' = waiters + 1
    /\ Enter(c, "waiting", finalizing)
    /\ Leaving(c)
    /\ UNCHANGED <<slot, last, finalizing, completed, retiring, pinned, armed, rec, file, owned>>

StopTakes(c) ==
    /\ MayStop(c) /\ finalizing = 0 /\ slot # 0
    /\ finalizing' = slot /\ slot' = 0
    /\ completed' = NoFinalization /\ last' = "finalizing"
    /\ rec' = [rec EXCEPT ![slot] = Closed(@)]
    /\ Enter(c, "joining", slot)
    /\ Leaving(c)
    /\ UNCHANGED <<waiters, retiring, pinned, armed, file, owned>>

Verdict(m) ==
    IF m.error # "none" THEN m.error
    ELSE IF m.status \in {"finished", "cancelled"} THEN m.status ELSE "stopped"

Finalized(c) ==
    LET r == call[c].of
        v == Verdict(rec[r])
    IN
    /\ call[c].pc = "joining" /\ rec[r].worker = "ended"
    /\ last' = IF v \in {"finished", "cancelled"} THEN v ELSE "failed"
    /\ completed' = [of |-> r, verdict |-> v] /\ finalizing' = 0
    /\ Return(c)
    /\ UNCHANGED <<slot, waiters, actor, retiring, start, pinned, armed, rec, file, owned>>

Wake(c) ==
    /\ call[c].pc = "waiting" /\ completed.of = call[c].of
    /\ waiters' = IF waiters = 0 THEN 0 ELSE waiters - 1
    /\ Return(c)
    /\ UNCHANGED <<slot, last, finalizing, completed, actor, retiring, start, pinned, armed, rec, file, owned>>
-----------------------------------------------------------------------------
(* The writer thread of a recorder.                                          *)

At(r, pc) == rec[r].worker = pc
Becomes(r, m) ==
    /\ rec' = [rec EXCEPT ![r] = m]
    /\ UNCHANGED <<control, call, actor, retiring, start, pinned, armed, owned>>

Receive(r) ==
    LET m == rec[r] IN
    /\ At(r, "receiving") /\ m.queue # <<>>
    /\ Becomes(r, [m EXCEPT
           !.queue = Tail(@),
           !.held = IF m.cancelled THEN <<>> ELSE <<Head(m.queue)>>,
           !.worker = IF m.cancelled THEN "leaving"
                      ELSE IF m.partial.made THEN "writing" ELSE "opening"])
    /\ UNCHANGED file

Disconnected(r) ==
    LET m == rec[r] IN
    /\ At(r, "receiving") /\ m.queue = <<>> /\ ~m.sender
    /\ Becomes(r, [m EXCEPT !.worker = "leaving"])
    /\ UNCHANGED file

Open(r) ==
    /\ At(r, "opening")
    /\ Becomes(r, [rec[r] EXCEPT !.worker = "opened", !.partial.made = TRUE])
    /\ UNCHANGED file

(* The sink may have created the partial file before it failed.              *)
OpenFails(r) ==
    /\ "open" \in Faults /\ At(r, "opening")
    /\ \E made \in BOOLEAN :
         Becomes(r, [Failed(rec[r], "encoder") EXCEPT
                         !.worker = "leaving", !.partial.made = made, !.held = <<>>])
    /\ UNCHANGED file

ShowRecording(r) ==
    /\ At(r, "opened")
    /\ Becomes(r, [rec[r] EXCEPT !.worker = "writing", !.status = "recording"])
    /\ UNCHANGED file

Write(r) ==
    LET m == rec[r] IN
    /\ At(r, "writing")
    /\ Becomes(r, [m EXCEPT
           !.partial.frames = Append(@, Head(m.held)), !.held = <<>>, !.worker = "receiving"])
    /\ UNCHANGED file

WriteFails(r) ==
    /\ "write" \in Faults /\ At(r, "writing")
    /\ Becomes(r, [Failed(rec[r], "encoder") EXCEPT !.worker = "leaving", !.held = <<>>])
    /\ UNCHANGED file

Leave(r) ==
    LET m == rec[r] IN
    /\ At(r, "leaving")
    /\ Becomes(r,
           IF m.cancelled
           THEN [m EXCEPT !.worker = "ended", !.partial = NoPartial]
           ELSE IF m.partial.made
           THEN [m EXCEPT !.worker = "finishing", !.status = "finalizing"]
           ELSE [m EXCEPT !.worker = "ended", !.status = "cancelled"])
    /\ UNCHANGED file

Finish(r) ==
    /\ At(r, "finishing")
    /\ Becomes(r, [rec[r] EXCEPT !.worker = "publishing"])
    /\ UNCHANGED file

FinishFails(r) ==
    /\ "finish" \in Faults /\ At(r, "finishing")
    /\ Becomes(r, [Failed(rec[r], "finalize") EXCEPT !.worker = "ended", !.partial = NoPartial])
    /\ UNCHANGED file

(* One rename that never replaces a file.                                    *)
Publish(r) ==
    LET m == rec[r] IN
    /\ At(r, "publishing") /\ file[m.dest] = NoFile
    /\ Becomes(r, [m EXCEPT !.worker = "published", !.partial = NoPartial])
    /\ file' = [file EXCEPT ![m.dest] = Output(r, m.partial.frames)]

PublishFails(r) ==
    LET m == rec[r]
        there == file[m.dest] # NoFile
    IN
    /\ At(r, "publishing") /\ (there \/ "publish" \in Faults)
    /\ Becomes(r, [Failed(m, IF there THEN "exists" ELSE "finalize") EXCEPT
                       !.worker = "ended", !.partial = NoPartial])
    /\ UNCHANGED file

ShowFinished(r) ==
    /\ At(r, "published")
    /\ Becomes(r, [rec[r] EXCEPT !.worker = "ended", !.status = "finished"])
    /\ UNCHANGED file

(* The owner saves something else under the same name.                       *)
OwnerWrites(d) ==
    /\ file[d] = NoFile
    /\ file' = [file EXCEPT ![d] = OwnersFile] /\ owned' = owned \cup {d}
    /\ UNCHANGED <<control, call, actor, retiring, start, pinned, armed, rec>>
-----------------------------------------------------------------------------
Stop(c) == StopIdle(c) \/ StopJoins(c) \/ StopTakes(c)

Works(r) ==
    \/ Receive(r) \/ Disconnected(r) \/ Open(r) \/ OpenFails(r) \/ ShowRecording(r)
    \/ Write(r) \/ WriteFails(r) \/ Leave(r) \/ Finish(r) \/ FinishFails(r)
    \/ Publish(r) \/ PublishFails(r) \/ ShowFinished(r)

Arming == ArmRefused \/ Retire \/ Arm \/ StartFails

Next ==
    \/ \E d \in Destinations : AskStart(d) \/ OwnerWrites(d)
    \/ Poll
    \/ Arming
    \/ \E size \in Sizes : Present(size)
    \/ FailEnds
    \/ \E c \in Callers : Stop(c) \/ Finalized(c) \/ Wake(c)
    \/ \E r \in Recorders : Works(r)

Spec == Init /\ [][Next]_vars

(* The threads run, the encoder's calls return, and a woken waiter gets the   *)
(* lock.  Commands, frames, faults and the owner's files are not fair.        *)
FairSpec ==
    /\ Spec
    /\ \A r \in Recorders : WF_vars(Works(r))
    /\ \A c \in Callers : WF_vars(Finalized(c)) /\ WF_vars(Wake(c))
    /\ WF_vars(Arm \/ StartFails)
-----------------------------------------------------------------------------
(* What a stop answers and what stands in the file agree: "finished" only if  *)
(* the file holds every frame that was presented while the recording was armed,*)
(* in order, an error or a cancellation only if no file came of it, and a stop *)
(* that found nothing to stop claims no file.  A stop that waits for another   *)
(* can still read the outcome of that one, whatever was armed since.           *)
AnswerTrue ==
    LET r == completed.of
        v == completed.verdict
    IN  /\ IF r = 0 THEN slot = 0 /\ finalizing = 0 => last \notin {"finished", "cancelled"}
           ELSE /\ v = Verdict(rec[r])
                /\ IF v = "finished" THEN file[rec[r].dest] = Output(r, rec[r].shown)
                   ELSE file[rec[r].dest].of # r
                /\ v = "cancelled" => rec[r].shown = <<>>
        /\ \A c \in Callers : call[c].pc = "waiting" => call[c].of \in {finalizing, completed.of}

(* A writer that has ended leaves no partial file beside the destination.     *)
NothingPartial == \A r \in Recorders : rec[r].worker = "ended" => ~rec[r].partial.made

(* No recording replaces what the owner has saved under its name meanwhile.   *)
OwnerKept == \A d \in owned : file[d] = OwnersFile

(* The files and the answers of a recording, whatever failed or raced.        *)
RecordingHonest == AnswerTrue /\ NothingPartial /\ OwnerKept

(* Every stop returns, the actor's own as its runtime ends included, and so   *)
(* does the arming of a recorder that first joins a failed one.               *)
StopsEnd ==
    /\ \A c \in Callers : (call[c].pc # "idle") ~> (call[c].pc = "idle")
    /\ (actor = "arming") ~> (actor # "arming")
=============================================================================
