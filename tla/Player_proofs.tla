---------------------------- MODULE Player_proofs ----------------------------
(* Theorems of Player, for any cartridges, frames of a slot, room in the        *)
(* channel, passed deadlines and faults.                                      *)
EXTENDS Player, TLAPS

(* Arithmetic of frames: where a slot begins in its cartridge.               *)
LEMMA Products ==
  ASSUME NEW a \in Nat, NEW b \in Nat, NEW f \in Nat, a <= b
  PROVE  a * f \in Nat /\ a * f <= b * f /\ (a + 1) * f = a * f + f
<1>1. PICK c \in Nat : b = a + c
  <2>1. b - a \in Nat /\ b = a + (b - a)
    OBVIOUS
  <2> QED
    BY <2>1
<1>2. b * f = a * f + c * f /\ a * f \in Nat /\ c * f \in Nat
  BY <1>1
<1> QED
  BY <1>2

LEMMA Divided ==
  ASSUME NEW n \in Nat, NEW f \in Nat \ {0}, NEW r \in 0 .. f - 1
  PROVE  (n * f + r) \div f = n /\ (n * f + r) % f = r
  OBVIOUS

-----------------------------------------------------------------------------
(* A runtime that is not in its slot is only there while the command that     *)
(* started it goes on, and none is there while a cartridge is loaded.         *)
SlotInv ==
    /\ cmd.at # "over" => cmd.name # "none"
    /\ cmd.at \in {"send", "launch"} => cmd.name \in {"play", "pause", "restart", "poll"}
    /\ cmd.at \in {"launch", "load"} => ~held
    /\ ~held /\ cmd.at \in {"over", "launch", "load"} => actor.life = "none"
    /\ cmd.name \in {"play", "pause", "restart", "poll"} => cartridge # 0
    /\ actor.life # "none" => cartridge # 0

(* What the actor's call is about tells whether it plays: decoding goes on    *)
(* while it does, pausing, restarting and stopping begin by an end of it.     *)
CallInv ==
    /\ actor.life # "running" => call.name = "none" /\ ~actor.playing
    /\ call.name = "none" => call.why = "none"
    /\ call.name = "status" => call.why \in {"play", "pause", "poll"}
    /\ call.name = "reset" => call.why \in {"restart", "loop"}
    /\ call.name = "step" => call.why = "none"
    /\ call.name = "shutdown" => call.why = "shutdown"
    /\ call.why \in {"pause", "restart", "shutdown"} => ~actor.playing
    /\ call.name = "step" => actor.playing /\ actor.pending = <<>> /\ actor.playhead < cartridge
    /\ call.why = "loop" => actor.playing /\ actor.pending = <<>> /\ actor.playhead >= cartridge

(* Shown and pending frames are those of the slots up to the playhead, and a  *)
(* worker that answers is at the same slot, with all before it in its memory  *)
(* unless a reset has failed half way.                                        *)
FrameAt(i) == Frame((i - 1) \div SlotFrames, (i - 1) % SlotFrames, (i - 1) \div SlotFrames)

FramesInv ==
    actor.life = "running" =>
        /\ actor.playhead <= cartridge
        /\ actor.eos => actor.playhead = cartridge
        /\ actor.presented = Len(shown)
        /\ Len(shown) + Len(actor.pending) = actor.playhead * SlotFrames
        /\ \A i \in 1 .. Len(actor.pending) : Alike(actor.pending[i], FrameAt(Len(shown) + i))
        /\ link = "up" => /\ worker.playhead = actor.playhead
                          /\ worker.memory = actor.playhead \/ halved

IInv == TypeOK /\ SlotInv /\ CallInv /\ FramesInv /\ PassFaithful /\ ViewHonest

-----------------------------------------------------------------------------
(* Type correctness, in two parts.                                           *)
Views == [phase : Phases, loop : BOOLEAN, position : Nat]
Cmds == [name : Commands \cup {"none"}, at : Stages, failed : BOOLEAN]
Answers == {"none", "ok", "failed", "unavailable", "late"}
Asked == [name : Requests, asked : BOOLEAN]
Actors == [life : {"none", "running", "closing", "ended"}, playing : BOOLEAN, loop : BOOLEAN,
           pending : Seq(Frames), presented : Nat, playhead : Nat, eos : BOOLEAN]
Calls == [name : {"none", "status", "reset", "step", "shutdown"}, why : Requests \cup {"none"},
          asked : BOOLEAN]
Workers == [playhead : Nat, memory : Nat, loops : BOOLEAN]

CommandTypes ==
    /\ view \in Views /\ cartridge \in Cartridges \cup {0}
    /\ held \in BOOLEAN /\ behind \in BOOLEAN /\ halved \in BOOLEAN
    /\ cmd \in Cmds /\ answer \in Answers /\ mishaps \in Nat

RuntimeTypes ==
    /\ queue \in Seq(Asked) /\ actor \in Actors /\ call \in Calls
    /\ worker \in Workers /\ link \in {"up", "down"} /\ shown \in Seq(Frames)

LEMMA TypeParts == TypeOK <=> CommandTypes /\ RuntimeTypes
  BY DEF TypeOK, CommandTypes, RuntimeTypes, Views, Cmds, Answers, Asked, Actors, Calls, Workers

LEMMA Constants ==
    /\ SlotFrames \in Nat \ {0} /\ MaxMishaps \in Nat
    /\ Cartridges \cup {0} \subseteq Nat
  BY PlayerAssumption

(* The values a command, a call, an actor and a worker are set to.           *)
LEMMA Values ==
    /\ Idle \in Cmds /\ NoCall \in Calls /\ NoWorker \in Workers
    /\ Gone \in Actors /\ [Gone EXCEPT !.life = "closing"] \in Actors
<1>1. Idle \in Cmds /\ NoCall \in Calls /\ NoWorker \in Workers
  BY DEF Idle, Cmds, Stages, NoCall, Calls, NoWorker, Workers
<1>2. Gone \in Actors
  BY DEF Gone, Actors
<1>3. [Gone EXCEPT !.life = "closing"] \in Actors
  BY <1>2 DEF Actors
<1> QED
  BY <1>1, <1>2, <1>3

LEMMA InitHolds == Init => IInv
<1> SUFFICES ASSUME Init
             PROVE  IInv
  OBVIOUS
<1>1. CommandTypes
  BY Values DEF Init, CommandTypes, Phases, Views, Answers
<1>2. RuntimeTypes
  BY Values DEF Init, RuntimeTypes
<1>3. SlotInv /\ CallInv /\ FramesInv
  BY DEF Init, SlotInv, CallInv, FramesInv, Idle, Gone, NoCall
<1>4. PassFaithful /\ ViewHonest
  BY DEF Init, PassFaithful, ViewHonest, Plays, Gone
<1> QED
  BY <1>1, <1>2, <1>3, <1>4, TypeParts DEF IInv

LEMMA Moved ==
  ASSUME cmd \in Cmds, NEW s \in Stages
  PROVE  [cmd EXCEPT !.at = s] \in Cmds /\ [cmd EXCEPT !.at = s, !.failed = TRUE] \in Cmds
  BY DEF Cmds

LEMMA Phased ==
  ASSUME view \in Views
  PROVE  /\ AsError \in Views /\ AsPlaying(TRUE) \in Views /\ AsPlaying(FALSE) \in Views
         /\ AtStart \in Views /\ [AtStart EXCEPT !.phase = "playing"] \in Views
         /\ [view EXCEPT !.phase = "ready", !.position = 0] \in Views
         /\ [view EXCEPT !.loop = ~view.loop] \in Views
<1>1. AsError \in Views /\ AsPlaying(TRUE) \in Views /\ AsPlaying(FALSE) \in Views
  BY DEF AsError, AsPlaying, Views, Phases
<1>2. AtStart \in Views
  BY DEF AtStart, Views, Phases
<1>3. [AtStart EXCEPT !.phase = "playing"] \in Views
  BY <1>2 DEF Views, Phases
<1>4. [view EXCEPT !.phase = "ready", !.position = 0] \in Views
  BY DEF Views, Phases
<1>5. [view EXCEPT !.loop = ~view.loop] \in Views
  BY DEF Views
<1> QED
  BY <1>1, <1>2, <1>3, <1>4, <1>5

LEMMA Changed ==
  ASSUME actor \in Actors, NEW p \in Seq(Frames), NEW n \in Nat, NEW h \in Nat, NEW e \in BOOLEAN
  PROVE  /\ [actor EXCEPT !.pending = p, !.presented = n] \in Actors
         /\ [actor EXCEPT !.playhead = h, !.eos = e, !.pending = p] \in Actors
         /\ [actor EXCEPT !.pending = p, !.presented = n, !.playhead = h, !.eos = e] \in Actors
<1> DEFINE A == [actor EXCEPT !.pending = p]
           B == [A EXCEPT !.presented = n]
           C == [B EXCEPT !.playhead = h]
<1>1. A \in Actors
  BY DEF Actors
<1>2. B \in Actors
  BY <1>1 DEF Actors
<1>3. C \in Actors
  BY <1>2 DEF Actors
<1>4. [C EXCEPT !.eos = e] \in Actors
  BY <1>3 DEF Actors
<1>5. [actor EXCEPT !.pending = p, !.presented = n] = B
  OBVIOUS
<1>6. [actor EXCEPT !.pending = p, !.presented = n, !.playhead = h, !.eos = e] = [C EXCEPT !.eos = e]
  OBVIOUS
<1>7. [actor EXCEPT !.playhead = h, !.eos = e, !.pending = p] \in Actors
  BY DEF Actors
<1> QED
  BY <1>2, <1>4, <1>5, <1>6, <1>7

LEMMA ToldTyped ==
  ASSUME answer \in Answers, NEW asked, NEW v \in {"ok", "failed", "unavailable"}, Told(asked, v)
  PROVE  answer' \in Answers
  BY DEF Told, Answers

LEMMA HeadTyped ==
  ASSUME queue \in Seq(Asked), queue # <<>>
  PROVE  /\ Head(queue) \in Asked /\ Tail(queue) \in Seq(Asked)
         /\ Head(queue).name \in Requests /\ Head(queue).asked \in BOOLEAN
<1>1. Head(queue) \in Asked /\ Tail(queue) \in Seq(Asked)
  OBVIOUS
<1> QED
  BY <1>1 DEF Asked

LEMMA CommandTypesStep == IInv /\ [Next]_vars => CommandTypes'
<1> SUFFICES ASSUME IInv, CommandTypes, RuntimeTypes, [Next]_vars
             PROVE  CommandTypes'
  BY TypeParts DEF IInv
<1> USE DEF CommandTypes
<1>1. ASSUME NEW c \in Commands, Begin(c)
      PROVE  CommandTypes'
  BY <1>1 DEF Begin, Cmds, Stages
<1>2. CASE SetLoop
  BY <1>2, Phased DEF SetLoop
<1>3. CASE GiveUp
  BY <1>3 DEF GiveUp, Answers
<1>4. CASE LinkFails \/ StepDone \/ UNCHANGED vars
  BY <1>4 DEF LinkFails, StepDone, vars
<1>5. CASE Launch
  BY <1>5, Values, Moved DEF Launch, Stages
<1>6. CASE Send \/ Stop \/ StopAcknowledged
  BY <1>6, Moved DEF Send, Stop, StopAcknowledged, Stages, Answers
<1>7. CASE Receive
  BY <1>7, Values, Moved DEF Receive, Stages, Answers
<1>8. ASSUME NEW wholly \in BOOLEAN, Stopped(wholly), mishaps' \in Nat
      PROVE  CommandTypes'
  <2>1. cmd' \in {Idle} \cup {[cmd EXCEPT !.at = s] : s \in Stages}
    BY <1>8 DEF Stopped, Stages
  <2>2. cmd' \in Cmds
    BY <2>1, Values, Moved
  <2> QED
    BY <1>8, <2>2 DEF Stopped, Answers
<1>9. CASE StopDone
  BY Zenon, <1>8, <1>9 DEF StopDone
<1>10. CASE StopFails
  <2>1. mishaps' \in Nat
    BY <1>10 DEF StopFails
  <2> QED
    BY Zenon, <1>8, <1>10, <2>1 DEF StopFails
<1>11. CASE Load
  BY <1>11, Values, Phased DEF Load
<1>12. CASE Take
  <2>1. answer' \in Answers /\ behind' \in BOOLEAN
    BY <1>12, ToldTyped DEF Take
  <2> QED
    BY <1>12, <2>1 DEF Take
<1>13. CASE Refill
  BY <1>13, Phased DEF Refill, BreakOff
<1>14. CASE Present
  <2>1. actor.presented \in Nat /\ (actor.life = "running" => cartridge * SlotFrames - 1 \in Nat)
    <3>1. actor.life = "running" => cartridge \in Nat \ {0}
      BY Constants DEF IInv, SlotInv
    <3>2. \A c, f \in Nat \ {0} : c * f - 1 \in Nat
      OBVIOUS
    <3> QED
      BY <3>1, <3>2, Constants DEF RuntimeTypes, Actors
  <2>2. \A p \in Nat : [view EXCEPT !.position = p] \in Views
    BY DEF Views
  <2> QED
    BY <1>14, <2>1, <2>2, Phased DEF Present, Looks, BreakOff
<1>15. CASE StatusDone
  BY <1>15, ToldTyped, Phased DEF StatusDone
<1>16. CASE ResetDone
  BY <1>16, ToldTyped, Phased DEF ResetDone
<1>17. CASE ShutdownDone
  BY <1>17, ToldTyped DEF ShutdownDone
<1>18. CASE CallFails
  <2>1. mishaps' \in Nat
    BY <1>18 DEF CallFails
  <2>2. halved' \in BOOLEAN
    BY Zenon, <1>18 DEF CallFails, CommandTypes
  <2> QED
    BY <1>18, <2>1, <2>2, ToldTyped, Phased DEF CallFails, BreakOff
<1>19. CASE Cleanup
  BY <1>19, ToldTyped DEF Cleanup
<1> QED
  BY <1>1, <1>2, <1>3, <1>4, <1>5, <1>6, <1>7, <1>9, <1>10, <1>11, <1>12, <1>13, <1>14, <1>15,
     <1>16, <1>17, <1>18, <1>19
     DEF Next, CommandStep, Served

LEMMA RuntimeTypesStep == IInv /\ [Next]_vars => RuntimeTypes'
<1> SUFFICES ASSUME IInv, CommandTypes, RuntimeTypes, [Next]_vars
             PROVE  RuntimeTypes'
  BY TypeParts DEF IInv
<1> USE DEF RuntimeTypes
<1>1. ASSUME NEW c \in Commands, Begin(c)
      PROVE  RuntimeTypes'
  BY <1>1 DEF Begin
<1>2. ASSUME NEW r \in Asked
      PROVE  Append(queue, r) \in Seq(Asked)
  OBVIOUS
<1>3. CASE SetLoop
  <2>1. [name |-> IF view.loop THEN "unloop" ELSE "loop", asked |-> FALSE] \in Asked
    BY DEF Asked, Requests
  <2> QED
    BY <1>2, <1>3, <2>1 DEF SetLoop
<1>4. CASE GiveUp
  <2>1. \A i \in 1 .. Len(queue) : [queue[i] EXCEPT !.asked = FALSE] \in Asked
    <3> SUFFICES ASSUME NEW i \in 1 .. Len(queue)
                 PROVE  [queue[i] EXCEPT !.asked = FALSE] \in Asked
      OBVIOUS
    <3>1. queue[i] \in Asked
      OBVIOUS
    <3> QED
      BY <3>1 DEF Asked
  <2>2. queue' \in Seq(Asked)
    BY <1>4, <2>1 DEF GiveUp
  <2>3. call' \in Calls
    BY <1>4 DEF GiveUp, Calls
  <2> QED
    BY <1>4, <2>2, <2>3 DEF GiveUp
<1>5. CASE Receive \/ StopAcknowledged \/ Load \/ UNCHANGED vars
  BY <1>5 DEF Receive, StopAcknowledged, Load, vars
<1>6. CASE Launch
  <2>1. Fresh \in Actors
    BY DEF Fresh, Actors, CommandTypes, Views
  <2>2. [NoWorker EXCEPT !.loops = view.loop] \in Workers
    BY DEF NoWorker, Workers, CommandTypes, Views
  <2>3. actor' \in {Fresh, actor}
    BY <1>6 DEF Launch
  <2>4. worker' \in {[NoWorker EXCEPT !.loops = view.loop], worker}
    BY <1>6 DEF Launch
  <2>5. link' \in {"up", "down"} /\ shown' \in Seq(Frames) /\ UNCHANGED <<queue, call>>
    <3>1. <<>> \in Seq(Frames)
      OBVIOUS
    <3> QED
      BY <1>6, <3>1 DEF Launch
  <2> QED
    BY <2>1, <2>2, <2>3, <2>4, <2>5
<1>7. CASE Send
  <2>1. [name |-> cmd.name, asked |-> TRUE] \in Asked
    BY <1>7 DEF Send, IInv, SlotInv, Requests, Asked
  <2> QED
    BY <1>2, <1>7, <2>1 DEF Send
<1>8. CASE Stop
  <2>1. [name |-> "shutdown", asked |-> TRUE] \in Asked
    BY DEF Requests, Asked
  <2> QED
    BY <1>2, <1>8, <2>1 DEF Stop
<1>9. CASE StopDone \/ StopFails
  <2>1. /\ actor' = Gone /\ queue' = <<>> /\ call' = NoCall /\ worker' = NoWorker
        /\ link' = "up" /\ shown' = <<>>
    BY <1>9 DEF StopDone, StopFails, Stopped
  <2> QED
    BY <2>1, Values
<1>10. CASE Take
  <2>1. queue # <<>> /\ queue' \in Seq(Asked)
    BY <1>10, HeadTyped DEF Take
  <2>2. call' \in Calls
    BY <1>10, <2>1, HeadTyped DEF Take, Calls
  <2>3. actor' \in Actors
    BY <1>10 DEF Take, Actors
  <2> QED
    BY <1>10, <2>1, <2>2, <2>3 DEF Take
<1>11. CASE Refill
  <2>1. call' \in Calls
    BY <1>11 DEF Refill, NoCall, Calls, Requests
  <2>2. actor' \in Actors
    <3>1. [actor EXCEPT !.playing = FALSE, !.eos = TRUE] \in Actors
      BY DEF Actors
    <3> QED
      BY <1>11, <3>1, Values DEF Refill, BreakOff
  <2> QED
    BY <1>11, <2>1, <2>2 DEF Refill
<1>12. CASE Present
  <2>1. actor.pending \in Seq(Frames) /\ actor.pending # <<>>
    BY <1>12 DEF Present, FrameDue, Actors
  <2>2. Head(actor.pending) \in Frames /\ Tail(actor.pending) \in Seq(Frames)
    BY <2>1
  <2>3. [actor EXCEPT !.pending = Tail(actor.pending), !.presented = actor.presented + 1] \in Actors
    <3>1. actor.presented + 1 \in Nat
      BY DEF Actors
    <3> QED
      BY <2>2, <3>1, Changed
  <2>4. Append(shown, Head(actor.pending)) \in Seq(Frames)
    BY <2>2
  <2> QED
    BY <1>12, <2>3, <2>4, Values DEF Present, BreakOff
<1>13. CASE StatusDone
  <2>1. \A b \in BOOLEAN : [actor EXCEPT !.playing = b] \in Actors
    BY DEF Actors
  <2> QED
    BY <1>13, <2>1, Values DEF StatusDone
<1>14. CASE ResetDone
  <2>1. [actor EXCEPT !.pending = <<>>, !.presented = 0, !.playhead = 0, !.eos = FALSE] \in Actors
    <3>1. <<>> \in Seq(Frames)
      OBVIOUS
    <3> QED
      BY <3>1, Changed
  <2>2. Rewound \in Workers
    BY DEF Rewound, Workers
  <2>3. call' \in Calls
    BY <1>14, Values DEF ResetDone, NoCall, Calls
  <2> QED
    BY <1>14, <2>1, <2>2, <2>3 DEF ResetDone
<1>15. CASE StepDone
  <2>1. NextSlot \in Nat /\ NextSlot + 1 \in Nat /\ worker.memory + 1 \in Nat
    BY DEF NextSlot, Workers
  <2>2. Decoded \in Workers /\ Decoded.playhead \in Nat
    BY <2>1 DEF Decoded, Workers
  <2>3. Batch \in Seq(Frames)
    <3>1. \A part \in 1 .. SlotFrames : Frame(NextSlot, part - 1, worker.memory) \in Frames
      BY <2>1, Constants DEF Frame, Frames, Workers
    <3> QED
      BY <3>1, Constants DEF Batch
  <2>4. ReportsEnd \in BOOLEAN
    BY DEF ReportsEnd
  <2>5. [actor EXCEPT !.playhead = Decoded.playhead, !.eos = ReportsEnd, !.pending = Batch]
           \in Actors
    BY <2>2, <2>3, <2>4 DEF Actors
  <2> QED
    BY <1>15, <2>2, <2>5, Values DEF StepDone
<1>16. CASE ShutdownDone
  BY <1>16, Values DEF ShutdownDone
<1>17. CASE CallFails
  <2>1. worker' \in Workers
    BY <1>17 DEF CallFails, Workers
  <2> QED
    BY <1>17, <2>1, Values DEF CallFails, BreakOff
<1>18. CASE Cleanup
  BY <1>18 DEF Cleanup, Actors
<1>19. CASE LinkFails
  BY <1>19, Values DEF LinkFails
<1> QED
  BY <1>1, <1>3, <1>4, <1>5, <1>6, <1>7, <1>8, <1>9, <1>10, <1>11, <1>12, <1>13, <1>14, <1>15,
     <1>16, <1>17, <1>18, <1>19
     DEF Next, CommandStep, Served

-----------------------------------------------------------------------------
(* Which steps move the actor: those of its own loop need it running.        *)
ActorStep == Take \/ Refill \/ Present \/ Served \/ Cleanup

Beside == GiveUp \/ LinkFails \/ SetLoop

LEMMA Running ==
  ASSUME IInv, ActorStep
  PROVE  /\ Cleanup \/ actor.life = "running"
         /\ actor.life # "none" /\ actor'.life # "none" /\ cartridge # 0
         /\ UNCHANGED <<cartridge, held, cmd>>
<1>1. CASE Take \/ Refill \/ Present
  <2>1. actor.life = "running" /\ UNCHANGED <<cartridge, held, cmd>>
    BY <1>1 DEF Take, Refill, Present, Looks
  <2>2. actor'.life # "none"
    BY <1>1, <2>1 DEF Take, Refill, Present, BreakOff, Gone, IInv, TypeOK
  <2> QED
    BY <2>1, <2>2 DEF IInv, SlotInv
<1>2. CASE Served
  <2>1. call.name # "none" /\ UNCHANGED <<cartridge, held, cmd>>
    BY <1>2 DEF Served, StatusDone, ResetDone, StepDone, ShutdownDone, CallFails
  <2>2. actor.life = "running"
    BY <2>1 DEF IInv, CallInv, NoCall
  <2>3. actor'.life # "none"
    BY <1>2, <2>2 DEF Served, StatusDone, ResetDone, StepDone, ShutdownDone, CallFails,
                      BreakOff, Gone, IInv, TypeOK
  <2> QED
    BY <2>1, <2>2, <2>3 DEF IInv, SlotInv
<1>3. CASE Cleanup
  BY <1>3 DEF Cleanup, IInv, TypeOK, SlotInv
<1> QED
  BY <1>1, <1>2, <1>3 DEF ActorStep

LEMMA SlotInvStep == IInv /\ [Next]_vars => SlotInv'
<1> SUFFICES ASSUME IInv, SlotInv, [Next]_vars
             PROVE  SlotInv'
  BY DEF IInv
<1> USE DEF SlotInv
<1>1. CASE ActorStep
  BY <1>1, Running
<1>2. CASE Beside \/ UNCHANGED vars
  <2>1. UNCHANGED <<cartridge, held, cmd, actor>>
    BY <1>2 DEF Beside, GiveUp, LinkFails, SetLoop, vars
  <2> QED
    BY <2>1
<1>3. ASSUME NEW c \in Commands, Begin(c)
      PROVE  SlotInv'
  BY <1>3 DEF Begin, Idle, Commands
<1>4. CASE Launch
  <2>1. cmd.name \in {"play", "pause", "restart", "poll"} /\ ~held /\ UNCHANGED <<cartridge, held>>
    BY <1>4 DEF Launch
  <2>2. \/ cmd'.at = "send" /\ cmd'.name = cmd.name
        \/ cmd' = Idle /\ actor' = actor
    BY <1>4 DEF Launch, IInv, TypeOK
  <2> QED
    BY <1>4, <2>1, <2>2 DEF Launch, Idle
<1>5. CASE Send \/ Stop \/ StopAcknowledged
  <2>1. cmd'.at \in {"answer", "stopping", "settle"} /\ cmd'.name = cmd.name /\ cmd.at # "over"
    BY <1>5 DEF Send, Stop, StopAcknowledged, IInv, TypeOK
  <2>2. UNCHANGED <<cartridge, held, actor>>
    BY <1>5 DEF Send, Stop, StopAcknowledged
  <2> QED
    BY <2>1, <2>2
<1>6. CASE Receive
  <2>1. CASE cmd' = Idle /\ held' = TRUE
    BY <1>6, <2>1 DEF Receive, Idle
  <2>2. CASE cmd'.at = "stop" /\ cmd'.name = cmd.name /\ held' = held
    BY <1>6, <2>2 DEF Receive
  <2>3. held = TRUE \/ held = FALSE
    BY DEF IInv, TypeOK
  <2>4. CASE answer = "ok"
    BY <1>6, <2>1, <2>4 DEF Receive
  <2>5. CASE answer # "ok" /\ held = FALSE
    <3>1. cmd' = [cmd EXCEPT !.at = "stop", !.failed = TRUE] /\ held' = held
      BY <1>6, <2>5 DEF Receive
    <3> QED
      BY <2>2, <3>1 DEF IInv, TypeOK
  <2>6. CASE answer # "ok" /\ held = TRUE
    <3>1. held' = held /\ cmd' \in {Idle, [cmd EXCEPT !.at = "stop"]}
      BY <1>6, <2>6 DEF Receive
    <3> QED
      BY <2>1, <2>2, <2>6, <3>1 DEF IInv, TypeOK
  <2> QED
    BY <2>3, <2>4, <2>5, <2>6
<1>7. CASE StopDone \/ StopFails
  <2>1. ~held' /\ actor' = Gone /\ cartridge' = cartridge /\ cmd.at # "over"
    BY <1>7 DEF StopDone, StopFails, Stopped
  <2>2. \/ cmd' = Idle
        \/ cmd'.at = "over" /\ cmd'.name = "exit"
        \/ cmd'.at = "load" /\ cmd'.name = "open"
        \/ cmd'.at = "launch" /\ cmd'.name = cmd.name /\ cmd.name \notin {"exit", "select", "open"}
    BY <1>7 DEF StopDone, StopFails, Stopped, IInv, TypeOK
  <2>3. cmd.name \in Commands
    BY <2>1 DEF IInv, TypeOK
  <2> QED
    BY <2>1, <2>2, <2>3 DEF Gone, Idle, Commands
<1>8. CASE Load
  <2>1. cmd' = Idle /\ actor.life = "none" /\ UNCHANGED <<actor, held>>
    BY <1>8 DEF Load
  <2> QED
    BY <2>1 DEF Idle
<1> QED
  BY <1>1, <1>2, <1>3, <1>4, <1>5, <1>6, <1>7, <1>8 DEF Next, CommandStep, ActorStep, Beside

(* The steps that leave the actor and its call as they are, or end them.     *)
LEMMA Apart ==
  ASSUME IInv, [Next]_vars, ~ActorStep
  PROVE  \/ UNCHANGED <<actor, shown, halved, worker, link, cartridge>>
            /\ call'.name = call.name /\ call'.why = call.why
         \/ LinkFails
         \/ actor.life = "none" /\ UNCHANGED <<actor, call, shown, worker, link>>
         \/ actor.life = "none" /\ actor' = Fresh /\ shown' = <<>> /\ link' = "up"
            /\ worker'.playhead = 0 /\ worker'.memory = 0 /\ UNCHANGED <<call, cartridge>>
         \/ actor' = Gone /\ call' = NoCall
<1>1. CASE (\E c \in Commands : Begin(c)) \/ SetLoop \/ UNCHANGED vars
  BY <1>1 DEF Begin, SetLoop, vars
<1>2. CASE GiveUp
  BY <1>2 DEF GiveUp, IInv, TypeOK
<1>3. CASE Send \/ Receive \/ Stop \/ StopAcknowledged
  BY <1>3 DEF Send, Receive, Stop, StopAcknowledged
<1>4. CASE Launch
  BY <1>4 DEF Launch, NoWorker, IInv, SlotInv
<1>5. CASE StopDone \/ StopFails
  BY <1>5 DEF StopDone, StopFails, Stopped
<1>6. CASE Load
  BY <1>6 DEF Load, IInv, SlotInv
<1> QED
  BY <1>1, <1>2, <1>3, <1>4, <1>5, <1>6 DEF Next, CommandStep, ActorStep

LEMMA CallInvStep == IInv /\ [Next]_vars => CallInv'
<1> SUFFICES ASSUME IInv, CallInv, [Next]_vars
             PROVE  CallInv'
  BY DEF IInv
<1> USE DEF CallInv
<1>1. CASE ~ActorStep
  <2>1. CASE LinkFails
    BY <2>1 DEF LinkFails
  <2>2. CASE UNCHANGED <<actor, cartridge>> /\ call'.name = call.name /\ call'.why = call.why
    BY <2>2
  <2>3. CASE ~LinkFails /\ ~(UNCHANGED <<actor, cartridge>> /\ call'.name = call.name /\ call'.why = call.why)
    <3>1. /\ actor'.life # "running" \/ actor' = Fresh
          /\ ~actor'.playing /\ call'.name = "none" /\ call'.why = "none"
      BY <1>1, <2>3, Apart DEF Fresh, Gone, NoCall
    <3> QED
      BY <3>1
  <2> QED
    BY <2>1, <2>2, <2>3
<1>2. CASE Take
  <2>1. /\ actor.life = "running" /\ cartridge' = cartridge /\ call.name = "none"
        /\ queue # <<>> /\ Head(queue).name \in Requests
    BY <1>2, HeadTyped, TypeParts DEF Take, Looks, NoCall, IInv, RuntimeTypes
  <2>2. actor'.life = "running" /\ actor'.playing \in {actor.playing, FALSE}
    BY <1>2, <2>1 DEF Take, IInv, TypeOK
  <2>3. CASE call' = call
    BY <2>1, <2>2, <2>3
  <2>4. CASE call'.name = "status" /\ call'.why \in {"play", "poll"}
    BY <2>1, <2>2, <2>4
  <2>5. CASE call'.name \in {"status", "reset", "shutdown"} /\ actor'.playing = FALSE
             /\ call'.why = CASE call'.name = "status" -> "pause"
                              [] call'.name = "reset" -> "restart"
                              [] OTHER -> "shutdown"
    BY <2>1, <2>2, <2>5
  <2> QED
    BY <1>2, <2>1, <2>3, <2>4, <2>5 DEF Take, Requests, IInv, TypeOK
<1>3. CASE Refill
  <2>1. /\ actor.life = "running" /\ cartridge' = cartridge /\ call = NoCall
        /\ actor.playing /\ actor.pending = <<>>
    BY <1>3 DEF Refill, Looks, RefillDue
  <2>2. AtEnd <=> actor.playhead >= cartridge
    BY <2>1 DEF AtEnd, IInv, FramesInv, TypeOK
  <2>3. actor.playhead \in Nat /\ cartridge \in Nat
    BY Constants DEF IInv, TypeOK
  <2>4. CASE call' = [NoCall EXCEPT !.name = "step"] /\ ~AtEnd /\ actor' = actor
    BY <2>1, <2>2, <2>3, <2>4 DEF NoCall
  <2>5. CASE call' = [NoCall EXCEPT !.name = "reset", !.why = "loop"] /\ AtEnd /\ actor' = actor
    BY <2>1, <2>2, <2>3, <2>5 DEF NoCall
  <2>6. CASE call' = call /\ actor'.playing = FALSE
    BY <2>1, <2>6 DEF NoCall
  <2> QED
    BY <1>3, <2>4, <2>5, <2>6 DEF Refill, BreakOff, Gone, IInv, TypeOK
<1>4. CASE Present
  <2>1. actor.life = "running" /\ cartridge' = cartridge /\ call = NoCall /\ call' = call
    BY <1>4 DEF Present, Looks
  <2>2. (actor'.playing = actor.playing /\ actor'.life = actor.life) \/ ~actor'.playing
    BY <1>4 DEF Present, BreakOff, Gone, IInv, TypeOK
  <2> QED
    BY <2>1, <2>2 DEF NoCall
<1>5. CASE StatusDone \/ CallFails \/ ShutdownDone \/ StepDone
  <2>1. actor.life = "running"
    BY <1>5 DEF StatusDone, CallFails, ShutdownDone, StepDone
  <2>2. call' = NoCall /\ (actor'.life = "running" \/ ~actor'.playing)
    BY <1>5, <2>1 DEF StatusDone, CallFails, ShutdownDone, StepDone, BreakOff, Gone, IInv, TypeOK
  <2> QED
    BY <2>2 DEF NoCall
<1>6. CASE ResetDone
  <2>1. actor.life = "running" /\ cartridge # 0 /\ cartridge' = cartridge /\ cartridge \in Nat
    BY <1>6, Constants DEF ResetDone, IInv, TypeOK, SlotInv
  <2>2. actor'.life = "running" /\ actor'.playing = actor.playing /\ actor'.pending = <<>> /\ actor'.playhead = 0
    BY <1>6, <2>1 DEF ResetDone, IInv, TypeOK
  <2>3. CASE call.why = "restart"
    BY <1>6, <2>1, <2>2, <2>3 DEF ResetDone, NoCall
  <2>4. CASE call.why = "loop"
    BY <1>6, <2>1, <2>2, <2>4 DEF ResetDone, NoCall
  <2> QED
    BY <1>6, <2>3, <2>4 DEF ResetDone
<1>7. CASE Cleanup
  BY <1>7 DEF Cleanup, IInv, TypeOK
<1> QED
  BY <1>1, <1>2, <1>3, <1>4, <1>5, <1>6, <1>7 DEF ActorStep, Served

(* The frames of a pass, and of the next slot behind those of a playhead.    *)
LEMMA Passing ==
  ASSUME NEW slots \in Nat, NEW i \in 1 .. slots * SlotFrames
  PROVE  Pass(slots)[i] = FrameAt(i)
  BY DEF Pass, FrameAt

LEMMA NextFrames ==
  ASSUME NEW n \in Nat, NEW p \in 1 .. SlotFrames
  PROVE  Frame(n, p - 1, n) = FrameAt(n * SlotFrames + p)
<1>1. p - 1 \in 0 .. SlotFrames - 1 /\ n * SlotFrames \in Nat
  BY Constants
<1>2. (n * SlotFrames + p) - 1 = n * SlotFrames + (p - 1)
  BY <1>1, Constants
<1>3. (n * SlotFrames + (p - 1)) \div SlotFrames = n
      /\ (n * SlotFrames + (p - 1)) % SlotFrames = p - 1
  BY <1>1, Constants, Divided
<1> QED
  BY <1>2, <1>3 DEF FrameAt

LEMMA FramesInvStep == IInv /\ [Next]_vars => FramesInv'
<1> SUFFICES ASSUME IInv, FramesInv, [Next]_vars, actor'.life = "running"
             PROVE  FramesInv'
  BY DEF IInv, FramesInv
<1> USE DEF FramesInv
<1>0. /\ cartridge \in Nat /\ actor.playhead \in Nat /\ SlotFrames \in Nat \ {0}
      /\ actor.pending \in Seq(Frames) /\ shown \in Seq(Frames)
  BY Constants DEF IInv, TypeOK
<1>1. CASE ~ActorStep
  <2>1. CASE LinkFails
    BY <2>1 DEF LinkFails, FrameAt, Alike
  <2>2. CASE UNCHANGED <<actor, shown, halved, worker, link, cartridge>>
    BY <2>2 DEF FrameAt, Alike
  <2>3. CASE actor' = Fresh /\ shown' = <<>> /\ worker'.playhead = 0 /\ worker'.memory = 0 /\ cartridge' = cartridge
    BY <1>0, <2>3 DEF Fresh
  <2> QED
    BY <1>1, <2>1, <2>2, <2>3, Apart DEF Gone
<1>2. ASSUME actor.life = "running", UNCHANGED <<cartridge, shown, halved, worker, link>>,
             UNCHANGED <<actor.playhead, actor.presented, actor.pending>>,
             actor'.eos => actor.playhead = cartridge
      PROVE  FramesInv'
  BY <1>2 DEF FrameAt, Alike
<1>3. CASE Take
  BY <1>2, <1>3 DEF Take, Looks, IInv, TypeOK
<1>4. CASE Refill
  <2>1. AtEnd => actor.playhead = cartridge
    BY <1>0, <1>4 DEF AtEnd, Refill, Looks
  <2> QED
    BY <1>2, <1>4, <2>1 DEF Refill, Looks, BreakOff, Gone, IInv, TypeOK
<1>5. CASE Present
  <2>1. /\ actor.life = "running" /\ actor.pending # <<>> /\ UNCHANGED <<cartridge, worker, link, halved>>
        /\ shown' = Append(shown, Head(actor.pending))
        /\ actor' = [actor EXCEPT !.pending = Tail(actor.pending), !.presented = actor.presented + 1]
    BY <1>5 DEF Present, Looks, FrameDue, BreakOff, Gone
  <2>2. /\ actor'.pending = Tail(actor.pending) /\ actor'.presented = actor.presented + 1
        /\ actor'.playhead = actor.playhead /\ actor'.eos = actor.eos
    BY <2>1 DEF IInv, TypeOK
  <2>3. Len(shown') = Len(shown) + 1 /\ Len(actor'.pending) = Len(actor.pending) - 1
    BY <1>0, <2>1, <2>2
  <2>4. \A i \in 1 .. Len(actor'.pending) : Alike(actor'.pending[i], FrameAt(Len(shown') + i))
    <3> SUFFICES ASSUME NEW i \in 1 .. Len(actor'.pending)
                 PROVE  Alike(actor'.pending[i], FrameAt(Len(shown') + i))
      OBVIOUS
    <3>1. i + 1 \in 1 .. Len(actor.pending) /\ actor'.pending[i] = actor.pending[i + 1]
      BY <1>0, <2>1, <2>2, <2>3
    <3>2. Len(shown') + i = Len(shown) + (i + 1)
      BY <1>0, <2>3
    <3> QED
      BY <2>1, <3>1, <3>2
  <2>5. Len(shown') + Len(actor'.pending) = actor'.playhead * SlotFrames
    <3>1. Len(shown) + Len(actor.pending) = actor.playhead * SlotFrames
      BY <2>1
    <3>2. Len(shown) \in Nat /\ Len(actor.pending) \in Nat
      BY <1>0
    <3>3. \A a, b \in Nat : (a + 1) + (b - 1) = a + b
      OBVIOUS
    <3>4. (Len(shown) + 1) + (Len(actor.pending) - 1) = Len(shown) + Len(actor.pending)
      BY Zenon, <3>2, <3>3
    <3>5. Len(shown') + Len(actor'.pending) = actor.playhead * SlotFrames
      BY Zenon, <2>3, <3>1, <3>4
    <3> QED
      BY Zenon, <2>2, <3>5
  <2>6. /\ actor'.playhead <= cartridge' /\ (actor'.eos => actor'.playhead = cartridge')
        /\ actor'.presented = Len(shown')
        /\ link' = "up" => /\ worker'.playhead = actor'.playhead
                           /\ worker'.memory = actor'.playhead \/ halved'
    BY <1>0, <2>1, <2>2, <2>3
  <2> QED
    BY <2>1, <2>4, <2>5, <2>6 DEF Alike, FrameAt
<1>6. CASE StatusDone
  <2>1. actor.life = "running"
    BY <1>6 DEF StatusDone, IInv, CallInv
  <2> QED
    BY <1>2, <1>6, <2>1 DEF StatusDone, IInv, TypeOK
<1>7. CASE ResetDone
  <2>1. /\ actor'.playhead = 0 /\ actor'.eos = FALSE /\ actor'.presented = 0 /\ actor'.pending = <<>>
        /\ shown' = <<>> /\ worker'.playhead = 0 /\ worker'.memory = 0 /\ cartridge' = cartridge
    BY <1>7 DEF ResetDone, Rewound, IInv, TypeOK
  <2> QED
    BY <1>0, <2>1
<1>8. CASE StepDone
  <2> DEFINE n == actor.playhead
  <2>1. /\ actor.life = "running" /\ n < cartridge /\ actor.pending = <<>>
        /\ worker.playhead = n /\ (worker.memory = n \/ halved)
        /\ UNCHANGED <<cartridge, link, shown, halved>>
    BY <1>8 DEF StepDone, IInv, CallInv
  <2>2. /\ NextSlot = n /\ Decoded.playhead = n + 1
        /\ worker.memory \in Nat /\ Decoded.memory = worker.memory + 1
    BY <1>0, <2>1 DEF NextSlot, Decoded, IInv, TypeOK
  <2>3. /\ actor'.playhead = n + 1 /\ actor'.eos = ReportsEnd /\ actor'.pending = Batch
        /\ actor'.presented = actor.presented /\ worker' = Decoded
    BY <1>8, <2>2 DEF StepDone, IInv, TypeOK
  <2>4. Len(Batch) = SlotFrames /\ \A p \in 1 .. SlotFrames : Alike(Batch[p], Frame(n, p - 1, n))
    <3>1. \A p \in 1 .. SlotFrames : Batch[p] = Frame(n, p - 1, worker.memory)
      BY <2>2 DEF Batch
    <3>2. \A p \in 1 .. SlotFrames : Alike(Frame(n, p - 1, worker.memory), Frame(n, p - 1, n))
      BY <2>1 DEF Alike, Frame
    <3>3. Len(Batch) = SlotFrames
      BY <1>0 DEF Batch
    <3> QED
      BY <3>1, <3>2, <3>3
  <2>5. Len(shown) = n * SlotFrames /\ (n + 1) * SlotFrames = n * SlotFrames + SlotFrames
    BY <1>0, <2>1, Products
  <2>6. \A i \in 1 .. Len(actor'.pending) : Alike(actor'.pending[i], FrameAt(Len(shown') + i))
    <3> SUFFICES ASSUME NEW i \in 1 .. Len(actor'.pending)
                 PROVE  Alike(actor'.pending[i], FrameAt(Len(shown') + i))
      OBVIOUS
    <3>1. i \in 1 .. SlotFrames /\ actor'.pending[i] = Batch[i] /\ Len(shown') = n * SlotFrames
      BY <2>1, <2>3, <2>4, <2>5
    <3>2. Alike(Batch[i], Frame(n, i - 1, n)) /\ Frame(n, i - 1, n) = FrameAt(n * SlotFrames + i)
      BY <1>0, <2>4, <3>1, NextFrames
    <3> QED
      BY <3>1, <3>2
  <2>7. ReportsEnd => n + 1 = cartridge
    BY <1>0, <2>1, <2>2 DEF ReportsEnd
  <2>8. worker'.playhead = n + 1 /\ (worker'.memory = n + 1 \/ halved')
    BY <1>0, <2>1, <2>2, <2>3
  <2>9. (\A i \in 1 .. Len(actor.pending) : Alike(actor.pending[i], FrameAt(Len(shown) + i)))'
    BY <2>1, <2>6 DEF Alike, FrameAt
  <2>10. Len(shown') + Len(actor'.pending) = actor'.playhead * SlotFrames
    BY <1>0, <2>1, <2>3, <2>4, <2>5
  <2> QED
    BY <1>0, <2>1, <2>3, <2>5, <2>7, <2>8, <2>9, <2>10
<1>9. CASE ShutdownDone \/ Cleanup
  BY <1>9 DEF ShutdownDone, Cleanup, Gone, IInv, TypeOK
<1>10. CASE CallFails
  <2>1. actor.life = "running" /\ actor' = actor /\ UNCHANGED <<cartridge, shown, link>>
    BY <1>10 DEF CallFails, BreakOff, Gone, IInv, CallInv
  <2>2. CASE UNCHANGED <<worker, halved>>
    BY <1>2, <2>1, <2>2
  <2>3. CASE /\ link = "up" /\ worker' = [worker EXCEPT !.memory = 0]
             /\ halved' = (halved \/ worker.memory # 0)
    <3>1. worker'.playhead = worker.playhead /\ worker'.memory = 0
      BY <2>3 DEF IInv, TypeOK
    <3>2. worker'.playhead = actor.playhead /\ (worker'.memory = actor.playhead \/ halved')
      BY <2>1, <2>3, <3>1
    <3> QED
      BY <2>1, <2>3, <3>2 DEF Alike, FrameAt
  <2> QED
    BY <1>10, <2>2, <2>3 DEF CallFails
<1> QED
  BY <1>1, <1>3, <1>4, <1>5, <1>6, <1>7, <1>8, <1>9, <1>10 DEF ActorStep, Served

(* Where the output moves on.                                                *)
LEMMA Shows ==
  ASSUME IInv, [Next]_vars, actor'.life # "none"
  PROVE  \/ shown' = <<>>
         \/ UNCHANGED <<shown, cartridge>> /\ (halved => halved') /\ actor.life # "none"
         \/ /\ Present /\ actor.life = "running" /\ actor.pending # <<>> /\ cartridge' = cartridge
            /\ shown' = Append(shown, Head(actor.pending)) /\ halved' = halved
            /\ actor' = [actor EXCEPT !.pending = Tail(actor.pending),
                                      !.presented = actor.presented + 1]
            /\ view' = [view EXCEPT !.position =
                            IF actor.presented < cartridge * SlotFrames
                            THEN actor.presented ELSE cartridge * SlotFrames - 1]
            /\ behind' = behind
<1>1. CASE ~ActorStep
  BY <1>1, Apart DEF LinkFails, Gone
<1>2. CASE Take \/ Refill
  BY <1>2, Running DEF ActorStep, Take, Refill
<1>3. CASE Present
  BY <1>3 DEF Present, Looks, FrameDue
<1>4. CASE Served \/ Cleanup
  BY <1>4, Running DEF ActorStep, Served, StatusDone, ResetDone, StepDone, ShutdownDone, CallFails, Cleanup
<1> QED
  BY <1>1, <1>2, <1>3, <1>4 DEF ActorStep

(* The frame that is shown next is the one that comes next in the pass.      *)
LEMMA ShownNext ==
  ASSUME IInv, actor.life = "running", actor.pending # <<>>
  PROVE  /\ Len(shown) \in Nat /\ Len(shown) + 1 \in 1 .. cartridge * SlotFrames
         /\ cartridge \in Nat /\ cartridge * SlotFrames \in Nat
         /\ actor.presented = Len(shown)
         /\ Alike(Head(actor.pending), Pass(cartridge)[Len(shown) + 1])
<1>1. /\ cartridge \in Nat /\ actor.playhead \in Nat /\ SlotFrames \in Nat
      /\ actor.pending \in Seq(Frames) /\ shown \in Seq(Frames)
  BY Constants DEF IInv, TypeOK
<1>2. /\ actor.playhead <= cartridge /\ actor.presented = Len(shown)
      /\ Len(shown) + Len(actor.pending) = actor.playhead * SlotFrames
      /\ \A i \in 1 .. Len(actor.pending) : Alike(actor.pending[i], FrameAt(Len(shown) + i))
  BY DEF IInv, FramesInv
<1>3. Len(shown) \in Nat /\ Len(actor.pending) \in Nat /\ Len(actor.pending) >= 1
      /\ Head(actor.pending) = actor.pending[1]
  BY <1>1
<1>4. actor.playhead * SlotFrames <= cartridge * SlotFrames /\ cartridge * SlotFrames \in Nat
  BY <1>1, <1>2, Products
<1>5. Len(shown) + 1 \in 1 .. cartridge * SlotFrames
  <2>1. \A a, b, m, n \in Nat : b >= 1 /\ a + b = m /\ m <= n => a + 1 \in 1 .. n
    OBVIOUS
  <2>2. actor.playhead * SlotFrames \in Nat
    BY <1>1, <1>2, Products
  <2> QED
    BY Zenon, <1>2, <1>3, <1>4, <2>1, <2>2
<1>6. Alike(Head(actor.pending), FrameAt(Len(shown) + 1))
  BY <1>2, <1>3
<1>7. Pass(cartridge)[Len(shown) + 1] = FrameAt(Len(shown) + 1)
  BY <1>1, <1>5, Passing
<1> QED
  BY <1>1, <1>2, <1>3, <1>4, <1>5, <1>6, <1>7

(* Alike in the next state.                                                  *)
StillAlike(f, g) == f.slot = g.slot /\ f.part = g.part /\ (f.memory = g.memory \/ halved')

LEMMA PassFaithfulStep == IInv /\ [Next]_vars => PassFaithful'
<1> SUFFICES ASSUME IInv, PassFaithful, [Next]_vars, actor'.life # "none"
             PROVE  /\ Len(shown') <= cartridge' * SlotFrames
                    /\ \A i \in 1 .. Len(shown') : StillAlike(shown'[i], Pass(cartridge')[i])
  BY DEF IInv, PassFaithful, Pass, Frame, Alike, StillAlike
<1>1. CASE shown' = <<>>
  <2>1. cartridge' \in Nat
    BY CommandTypesStep, Constants DEF CommandTypes
  <2>2. \A c, f \in Nat : c * f \in Nat
    OBVIOUS
  <2>3. cartridge' * SlotFrames \in Nat
    BY <2>1, <2>2, Constants
  <2> QED
    BY <1>1, <2>3
<1>2. CASE UNCHANGED <<shown, cartridge>> /\ (halved => halved') /\ actor.life # "none"
  BY <1>2 DEF PassFaithful, Alike, StillAlike
<1>3. CASE /\ actor.life = "running" /\ actor.pending # <<>> /\ cartridge' = cartridge
           /\ shown' = Append(shown, Head(actor.pending)) /\ halved' = halved
  <2>1. shown \in Seq(Frames) /\ actor.life # "none"
    BY <1>3 DEF IInv, TypeOK
  <2>2. /\ Len(shown') = Len(shown) + 1
        /\ Alike(shown'[Len(shown) + 1], Pass(cartridge)[Len(shown) + 1])
    BY <1>3, <2>1, ShownNext
  <2>3. \A i \in 1 .. Len(shown) : shown'[i] = shown[i]
    BY <1>3, <2>1
  <2>4. Len(shown) \in Nat /\ Len(shown) + 1 <= cartridge * SlotFrames
    BY <1>3, ShownNext
  <2> QED
    BY <1>3, <2>1, <2>2, <2>3, <2>4 DEF PassFaithful, Alike, StillAlike
<1> QED
  BY <1>1, <1>2, <1>3, Shows

LEMMA ViewHonestStep == IInv /\ [Next]_vars => ViewHonest'
<1> SUFFICES ASSUME IInv, ViewHonest, [Next]_vars
             PROVE  ViewHonest'
  BY DEF IInv
<1> USE DEF ViewHonest, Plays
<1>0. view \in Views /\ actor \in Actors
  BY TypeParts DEF IInv, CommandTypes, RuntimeTypes
<1>1. CASE ~ActorStep
  <2>1. CASE Load
    <3>1. actor' = actor /\ actor.life = "none" /\ view'.phase \in {"ready", "error"}
      BY <1>0, <2>1 DEF Load, AsError, IInv, SlotInv, Views
    <3> QED
      BY <3>1
  <2>2. CASE StopDone \/ StopFails
    <3>1. /\ actor' = Gone /\ view' = view
          /\ behind' = (view.phase = "playing")
      BY Zenon, <2>2 DEF StopDone, StopFails, Stopped
    <3>2. ~Plays' /\ actor'.life = "none"
      BY <3>1 DEF Gone
    <3>3. view'.phase = "playing" => behind'
      BY Zenon, <3>1
    <3> QED
      BY <3>2, <3>3
  <2>3. CASE Launch
    BY <2>3 DEF Launch, Fresh, IInv, SlotInv
  <2>4. CASE SetLoop
    <3>1. view'.phase = view.phase /\ view'.position = view.position
      BY <1>0, <2>4 DEF SetLoop, Views
    <3> QED
      BY <2>4, <3>1 DEF SetLoop
  <2>5. CASE (\E c \in Commands : Begin(c)) \/ UNCHANGED vars
    BY <2>5 DEF Begin, vars
  <2>6. CASE GiveUp \/ LinkFails \/ Send \/ Receive \/ Stop \/ StopAcknowledged
    BY <2>6 DEF GiveUp, LinkFails, Send, Receive, Stop, StopAcknowledged
  <2> QED
    BY <1>1, <2>1, <2>2, <2>3, <2>4, <2>5, <2>6 DEF Next, CommandStep, ActorStep
<1>2. ASSUME view'.phase \notin {"playing"}, actor'.life # "running"
      PROVE  ViewHonest'
  BY <1>2
<1>3. CASE Take
  <2>1. /\ UNCHANGED <<view, shown>> /\ actor'.life = actor.life
        /\ \/ actor'.playing = actor.playing /\ behind' = behind
           \/ ~actor'.playing /\ behind' = (view.phase = "playing")
    BY <1>0, <1>3 DEF Take, Actors
  <2> QED
    BY <2>1
<1>4. CASE Refill
  <2>1. CASE UNCHANGED <<view, actor, behind>>
    BY <1>4, <2>1 DEF Refill
  <2>2. CASE BreakOff
    BY <1>0, <1>2, <2>2 DEF BreakOff, AsError, Gone, Views
  <2>3. CASE actor' = [actor EXCEPT !.playing = FALSE, !.eos = TRUE] /\ view' = AsPlaying(FALSE)
    <3>1. actor'.playing = FALSE /\ view'.phase = "paused" /\ view'.position = view.position
          /\ actor'.life = actor.life /\ shown' = shown
      BY <1>0, <1>4, <2>3 DEF Refill, AsPlaying, Actors, Views
    <3> QED
      BY <3>1
  <2> QED
    BY <1>4, <2>1, <2>2, <2>3 DEF Refill
<1>5. CASE Present
  <2>1. CASE BreakOff
    BY <1>0, <1>2, <2>1 DEF BreakOff, AsError, Gone, Views
  <2>2. CASE ~BreakOff
    <3>1. /\ actor.life = "running" /\ actor.pending # <<>>
          /\ shown' = Append(shown, Head(actor.pending)) /\ behind' = behind
          /\ actor'.life = actor.life /\ actor'.playing = actor.playing /\ view'.phase = view.phase
          /\ view'.position = IF actor.presented < cartridge * SlotFrames
                              THEN actor.presented ELSE cartridge * SlotFrames - 1
      BY <1>0, <1>5, <2>2 DEF Present, Looks, FrameDue, Views, Actors
    <3>2. /\ Len(shown) \in Nat /\ actor.presented = Len(shown)
          /\ Len(shown) + 1 <= cartridge * SlotFrames /\ cartridge * SlotFrames \in Nat
      BY <3>1, ShownNext
    <3>3. Len(shown') = Len(shown) + 1
      BY <3>1 DEF IInv, TypeOK
    <3>4. view'.position = Len(shown') - 1
      BY <3>1, <3>2, <3>3
    <3> QED
      BY <3>1, <3>4
  <2> QED
    BY <2>1, <2>2
<1>6. CASE StatusDone
  <2>1. CASE UNCHANGED <<view, actor, behind>>
    BY <1>6, <2>1 DEF StatusDone
  <2>2. CASE view' = AsPlaying(call.why = "play") /\ actor' = [actor EXCEPT !.playing = (call.why = "play")]
             /\ call.why \in {"play", "pause"}
    <3>1. /\ actor'.life = "running" /\ shown' = shown /\ view'.position = view.position
          /\ actor.life = "running"
      BY <1>0, <1>6, <2>2 DEF StatusDone, AsPlaying, Views, Actors, IInv, CallInv
    <3>2. actor'.playing <=> call.why = "play"
      BY <1>0, <2>2 DEF Actors
    <3>3. view'.phase = "playing" <=> call.why = "play"
      BY <1>0, <2>2 DEF AsPlaying, Views
    <3> QED
      BY <3>1, <3>2, <3>3
  <2> QED
    BY <1>6, <2>1, <2>2 DEF StatusDone
<1>7. CASE ResetDone
  <2>1. shown' = <<>> /\ actor'.playing = actor.playing /\ actor'.life = actor.life /\ actor.life = "running"
    BY <1>0, <1>7 DEF ResetDone, Actors, IInv, CallInv
  <2>2. CASE call.why = "restart"
    <3>1. view'.phase = "paused" /\ ~actor.playing
      BY <1>0, <1>7, <2>2 DEF ResetDone, AtStart, Views, IInv, CallInv
    <3> QED
      BY <2>1, <3>1
  <2>3. CASE call.why = "loop"
    <3>1. AtStart \in Views
      BY <1>0, Phased
    <3>2. view'.phase = "playing" /\ actor.playing
      BY <1>7, <2>3, <3>1 DEF ResetDone, Views, IInv, CallInv
    <3> QED
      BY <2>1, <3>2
  <2> QED
    BY <1>7, <2>2, <2>3 DEF ResetDone
<1>8. CASE StepDone
  <2>1. actor'.playing = actor.playing /\ actor'.life = actor.life /\ UNCHANGED <<view, behind, shown>>
    BY <1>0, <1>8 DEF StepDone, Actors
  <2> QED
    BY <2>1
<1>9. CASE ShutdownDone
  <2>1. ~actor.playing /\ actor'.life = "closing" /\ UNCHANGED <<view, behind>>
    BY <1>9 DEF ShutdownDone, Gone, IInv, CallInv
  <2> QED
    BY <2>1
<1>10. CASE CallFails
  <2>1. CASE BreakOff
    BY <1>0, <1>2, <2>1 DEF BreakOff, AsError, Gone, Views
  <2>2. CASE ~BreakOff
    BY <1>10, <2>2 DEF CallFails
  <2> QED
    BY <2>1, <2>2
<1>11. CASE Cleanup
  <2>1. actor'.life = "ended" /\ actor.life = "closing" /\ UNCHANGED <<view, behind>>
    BY <1>0, <1>11 DEF Cleanup, Actors
  <2> QED
    BY <2>1
<1> QED
  BY <1>1, <1>3, <1>4, <1>5, <1>6, <1>7, <1>8, <1>9, <1>10, <1>11 DEF ActorStep, Served

(* Playback ends, or begins to loop, at a refill past the last slot only, with *)
(* nothing pending: all frames of the cartridge have been shown.              *)
LEMMA AllShown ==
  ASSUME IInv, actor.life = "running", actor.pending = <<>>, AtEnd
  PROVE  ShownWhole
<1>1. /\ cartridge \in Nat /\ actor.playhead \in Nat /\ SlotFrames \in Nat /\ shown \in Seq(Frames)
  BY Constants DEF IInv, TypeOK
<1>2. actor.playhead = cartridge
  BY <1>1 DEF IInv, FramesInv, AtEnd
<1>3. Len(shown) = cartridge * SlotFrames
  <2>1. Len(shown) + 0 = cartridge * SlotFrames
    BY <1>2 DEF IInv, FramesInv
  <2> QED
    BY <1>1, <2>1
<1> QED
  BY <1>3 DEF IInv, ShownWhole

LEMMA EndsWholeStep ==
  ASSUME IInv, [Next]_vars,
         \/ Plays /\ queue' = queue /\ actor'.life = "running" /\ ~actor'.playing
         \/ call.why # "loop" /\ call'.why = "loop"
  PROVE  ShownWhole
<1>0. actor \in Actors /\ queue \in Seq(Asked)
  BY TypeParts DEF IInv, RuntimeTypes
<1>1. CASE ~ActorStep
  BY <1>0, <1>1, Apart DEF Plays, Fresh, Gone, NoCall, LinkFails
<1>2. CASE Take
  <2>1. queue' # queue
    BY <1>0, <1>2 DEF Take
  <2>2. call'.why # "loop"
    BY <1>2 DEF Take
  <2> QED
    BY <2>1, <2>2 DEF Plays
<1>3. CASE Refill
  <2>1. CASE AtEnd
    <3>1. actor.life = "running" /\ actor.pending = <<>>
      BY <1>3 DEF Refill, Looks, RefillDue
    <3> QED
      BY <2>1, <3>1, AllShown
  <2>2. CASE ~AtEnd
    <3>1. actor' = actor /\ call'.why = "none"
      BY <1>3, <2>2 DEF Refill, NoCall
    <3> QED
      BY <3>1 DEF Plays
  <2> QED
    BY <2>1, <2>2
<1>4. CASE Present
  <2>1. call' = call
    BY <1>4 DEF Present
  <2>2. actor'.life = "running" => actor'.playing = actor.playing
    BY <1>0, <1>4 DEF Present, BreakOff, Gone, Actors
  <2> QED
    BY <2>1, <2>2 DEF Plays
<1>5. CASE Served \/ Cleanup
  <2>1. call'.why # "loop" \/ call' = call
    <3>1. call' \in {NoCall, [NoCall EXCEPT !.name = "step"], call}
      BY <1>5 DEF Served, StatusDone, ResetDone, StepDone, ShutdownDone, CallFails, Cleanup
    <3> QED
      BY <3>1 DEF NoCall
  <2>2. CASE StatusDone
    <3>1. Plays => call.why # "pause"
      BY DEF Plays, IInv, CallInv
    <3>2. \/ actor' = actor
          \/ actor' = [actor EXCEPT !.playing = (call.why = "play")] /\ call.why \in {"play", "pause"}
      BY <2>2 DEF StatusDone
    <3>3. Plays => actor'.playing
      BY <1>0, <3>1, <3>2 DEF Plays, Actors
    <3> QED
      BY <2>1, <3>3
  <2>3. CASE ResetDone \/ StepDone
    <3>1. actor'.playing = actor.playing
      BY <1>0, <2>3 DEF ResetDone, StepDone, Actors
    <3> QED
      BY <2>1, <3>1 DEF Plays
  <2>4. CASE ShutdownDone \/ Cleanup
    <3>1. actor'.life # "running"
      BY <1>0, <2>4 DEF ShutdownDone, Cleanup, Gone, Actors
    <3> QED
      BY <2>1, <3>1
  <2>5. CASE CallFails
    <3>1. actor' = actor \/ actor'.life # "running"
      BY <2>5 DEF CallFails, BreakOff, Gone
    <3> QED
      BY <2>1, <3>1 DEF Plays
  <2> QED
    BY <1>5, <2>2, <2>3, <2>4, <2>5 DEF Served
<1> QED
  BY <1>1, <1>2, <1>3, <1>4, <1>5 DEF ActorStep

-----------------------------------------------------------------------------
(* The inductive invariant.  What is on the output is only known to be the    *)
(* pass so far because what is pending continues it, which needs the worker   *)
(* at the actor's playhead with all before it in its memory, or a reset that  *)
(* failed half way to tell why not, and that needs the                        *)
(* call in flight to say what the actor will make of its answer.              *)
LEMMA Invariant == Spec => []IInv
<1>1. IInv /\ [Next]_vars => IInv'
  <2> SUFFICES ASSUME IInv, [Next]_vars
               PROVE  IInv'
    OBVIOUS
  <2>1. TypeOK'
    <3>1. CommandTypes' /\ RuntimeTypes'
      BY CommandTypesStep, RuntimeTypesStep
    <3> QED
      BY <3>1, TypeParts, PTL
  <2>2. SlotInv' /\ CallInv' /\ FramesInv' /\ PassFaithful' /\ ViewHonest'
    BY SlotInvStep, CallInvStep, FramesInvStep, PassFaithfulStep, ViewHonestStep
  <2> QED
    BY <2>1, <2>2 DEF IInv
<1> QED
  BY InitHolds, <1>1, PTL DEF Spec

(* Every variable of commands, actor, worker and view keeps the kinds of value *)
(* the code gives it: a position, a playhead, a request of the channel.       *)
THEOREM TypeCorrect == Spec => []TypeOK
<1>1. IInv => TypeOK
  BY DEF IInv
<1> QED
  BY Invariant, <1>1, PTL

(* A runtime shows its cartridge from the first frame on, each frame once and *)
(* decoded after all slots before it, unless a restart has failed with the    *)
(* decoder reset already: refill_once, present_once, reset and    *)
(* step of the actor, _player_step and _player_reset of the worker.           *)
THEOREM PassFaithfulCorrect == Spec => []PassFaithful
<1>1. IInv => PassFaithful
  BY DEF IInv
<1> QED
  BY Invariant, <1>1, PTL

(* The view the commands and the actor both write tells whether the runtime   *)
(* plays and which frame is on the output: PlayerCoordinator.                 *)
THEOREM ViewHonestCorrect == Spec => []ViewHonest
<1>1. IInv => ViewHonest
  BY DEF IInv
<1> QED
  BY Invariant, <1>1, PTL

(* Playback ends by itself, or loops, after the last frame of the cartridge   *)
(* and not before: refill_once and its end of the source.                     *)
THEOREM EndsWholeCorrect == Spec => EndsWhole
<1> DEFINE A == \/ Plays /\ queue' = queue /\ actor'.life = "running" /\ ~actor'.playing
                \/ call.why # "loop" /\ call'.why = "loop"
                => ShownWhole
<1>1. IInv /\ [Next]_vars => [A]_vars
  BY EndsWholeStep
<1> QED
  BY Invariant, <1>1, PTL DEF Spec, EndsWhole
=============================================================================
