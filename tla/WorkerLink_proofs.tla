-------------------------- MODULE WorkerLink_proofs --------------------------
(* Theorems of WorkerLink, for any message budget, size of the pipe, number  *)
(* of calls, frames and deadlines, and any set of faults.                    *)
EXTENDS WorkerLink, TLAPS

(* What the main thread and the heartbeat thread share: only one of them has *)
(* the lock, and the first frame of the worker is the hello.                 *)
WriteInv ==
    /\ writing # "no" => worker \in {"greeting", "replying"} /\ pump \notin {"locked", "written"}
    /\ worker = "greeting" => reply = Event("hello")
    /\ worker \in {"absent", "booting", "greeting"} => nextOut = 1 /\ pump = "off"
    /\ worker \in {"listening", "joining", "serving", "replying"} => nextOut > 1
    /\ pump # "off" => nextOut > 1
    /\ worker = "dead" => pump = "off" /\ writing = "no"

(* The commands in the pipe are the ones the worker has not taken, in order. *)
CommandInv ==
    /\ Len(sent) <= MaxMessages
    /\ nextCommand = cmd.seq + 1
    /\ nextCommand + Len(toWorker) = Len(sent) + 1
    /\ \A i \in 1 .. Len(toWorker) :
          toWorker[i] = [seq |-> cmd.seq + i, name |-> sent[cmd.seq + i]]
    /\ cmd.seq > 0 => cmd.name = sent[cmd.seq]

(* The worker has served every command it has taken but the one it serves.   *)
ServeInv ==
    /\ Len(served) <= cmd.seq /\ cmd.seq <= Len(served) + 1
    /\ worker \in {"joining", "serving"} => cmd.seq = Len(served) + 1
    /\ worker \notin {"joining", "serving", "dead"} => cmd.seq = Len(served)
    /\ worker = "replying" =>
          cmd.seq > 0 /\ reply = [kind |-> served[cmd.seq], to |-> cmd.seq, name |-> cmd.name]
    /\ \A k \in 1 .. Len(served) :
          served[k] = "ack" /\ sent[k] = "shutdown" => session = "stopped"

(* What the client knows of its last command.                                *)
ClientInv ==
    /\ host = "idle" => worker = "absent"
    /\ outcome.of <= Len(sent)
    /\ InCall => Len(sent) > 0
    /\ host = "calling" => sent[Len(sent)] # "shutdown"
    /\ host \in {"closing", "acked"} => sent[Len(sent)] = "shutdown"
    /\ host = "acked" => Len(served) = Len(sent) /\ served[Len(sent)] = "ack"

(* As long as the client is in frame and within its budget, the frames in    *)
(* the pipe are the ones that follow, and each reply is expected.            *)
Readable == ~cut /\ host # "gone" /\ nextIn <= MaxMessages

IsReply(b) == b.kind \in {"ack", "error"}

Written == writing = "written" \/ pump = "written"

(* Replies that are in the pipe or were: those up to this number.            *)
Replies == IF worker = "replying" /\ writing # "written" THEN Len(served) - 1 ELSE Len(served)

FrameOK(i) ==
    LET b == toHost[i].body IN
    /\ toHost[i].seq + 1 = nextIn + i
    /\ b.kind = "hello" <=> toHost[i].seq = 1
    /\ IsReply(b) => /\ b.to \in 1 .. Replies
                     /\ b.name = sent[b.to] /\ b.kind = served[b.to]
    /\ ~IsReply(b) => b.to = 0

(* The sequence of the next frame that comes into the pipe.                  *)
Following == IF Written THEN nextOut + 1 ELSE nextOut

FramesInv ==
    Readable =>
        /\ worker # "dead" => nextIn + Len(toHost) = Following
        /\ \A i \in 1 .. Len(toHost) : FrameOK(i)

PendingInv ==
    Readable =>
        /\ \A i \in 1 .. Len(toHost) :
              IsReply(toHost[i].body) =>
                  /\ toHost[i].body.to \in pending
                  /\ \A j \in 1 .. i - 1 :
                        IsReply(toHost[j].body) => toHost[j].body.to # toHost[i].body.to
        /\ \A k \in 1 .. Len(sent) : k > Replies => k \in pending

IInv == TypeOK /\ WriteInv /\ CommandInv /\ ServeInv /\ ClientInv /\ FramesInv /\ PendingInv
          /\ PeersAgree /\ CleanEnd
-----------------------------------------------------------------------------
(* Type correctness, in three parts.                                         *)
HostTypes ==
    /\ host \in {"idle", "spawned", "contained", "connecting", "ready", "calling", "closing", "acked", "gone"}
    /\ configured \in BOOLEAN /\ reading \in BOOLEAN /\ cut \in BOOLEAN
    /\ outcome \in [of : Nat, verdict : Verdicts]

PipeTypes ==
    /\ sent \in Seq(Names) /\ pending \subseteq 1..Len(sent) /\ nextIn \in Nat \ {0}
    /\ toWorker \in Seq(Command) /\ toHost \in Seq(Frame)

WorkerTypes ==
    /\ contained \in BOOLEAN
    /\ worker \in {"absent", "booting", "greeting", "listening", "joining", "serving", "replying", "leaving", "dead"}
    /\ session \in {"unconfigured", "ready", "stopping", "stopped"}
    /\ cmd \in Command /\ reply \in Body
    /\ writing \in {"no", "locked", "written"}
    /\ nextCommand \in Nat \ {0} /\ nextOut \in Nat \ {0}
    /\ pump \in {"off", "waiting", "locked", "written", "ended", "failed"}
    /\ stopping \in BOOLEAN /\ hung \in BOOLEAN
    /\ served \in Seq({"ack", "error"}) /\ late \in Nat

LEMMA TypeParts == TypeOK <=> HostTypes /\ PipeTypes /\ WorkerTypes
  BY DEF TypeOK, HostTypes, PipeTypes, WorkerTypes

LEMMA TypeInit == Init => TypeOK
<1> SUFFICES ASSUME Init
             PROVE  HostTypes /\ PipeTypes /\ WorkerTypes
  BY TypeParts
<1>1. HostTypes
  BY DEF Init, HostTypes, Verdicts
<1>2. PipeTypes
  BY DEF Init, PipeTypes
<1>3. reply \in Body /\ cmd \in Command /\ served \in Seq({"ack", "error"})
  BY DEF Init, Event, NoCommand, Body, Command, Names
<1>4. nextCommand \in Nat \ {0} /\ nextOut \in Nat \ {0} /\ late \in Nat
  BY DEF Init
<1>5. WorkerTypes
  BY Zenon, <1>3, <1>4 DEF Init, WorkerTypes
<1> QED
  BY <1>1, <1>2, <1>5

(* The first frame in the pipe, where the client takes one.                  *)
LEMMA TakeTyped ==
  ASSUME TypeOK, Take
  PROVE  /\ Head(toHost) \in Frame /\ Head(toHost).body \in Body
         /\ toHost' \in Seq(Frame) /\ reading' = FALSE
<1>1. toHost \in Seq(Frame) /\ toHost # <<>> /\ toHost' = Tail(toHost) /\ reading' = FALSE
  BY DEF Take, TypeOK
<1>2. Head(toHost) \in Frame /\ Tail(toHost) \in Seq(Frame)
  BY <1>1
<1> QED
  BY <1>1, <1>2 DEF Frame

LEMMA ReturnTyped ==
  ASSUME TypeOK, NEW v \in Verdicts, Return(v)
  PROVE  outcome' \in [of : Nat, verdict : Verdicts] /\ host' = "ready"
<1>1. Len(sent) \in Nat
  BY DEF TypeOK
<1> QED
  BY <1>1 DEF Return

LEMMA HostTypesStep == TypeOK /\ [Next]_vars => HostTypes'
<1> SUFFICES ASSUME TypeOK, HostTypes, [Next]_vars
             PROVE  HostTypes'
  BY TypeParts
<1>1. CASE Supervise
  BY <1>1 DEF Supervise, Spawn, Contain, ContainFails, Bootstrap, Drop, ForceKill, HostDies,
              KilledByJob, Leave, HostTypes, hostVars
<1>2. CASE Main \/ Pump \/ UNCHANGED vars
  <2>1. UNCHANGED hostVars
    BY <1>2 DEF Main, Connect, BootFails, MainLocks, MainWrites, MainSent, MainWriteFails, Fetch,
                LoopFails, Joined, Serve, Hang, Exit, WorkerDies, Pump, PumpLocks, PumpWrites,
                PumpSent, PumpFails, PumpStops, vars
  <2> QED
    BY <2>1 DEF HostTypes, hostVars
<1>3. ASSUME NEW n \in Names, Call(n)
      PROVE  HostTypes'
  BY <1>3 DEF Call, Send, HostTypes
<1>4. CASE CallRefused \/ ReadSome \/ ReadGarbage
  BY <1>4, ReturnTyped DEF CallRefused, ReadSome, ReadGarbage, HostTypes, Verdicts
<1>5. CASE Reject \/ Greeted
  BY <1>5, TakeTyped, ReturnTyped DEF Reject, Greeted, HostTypes, Verdicts
<1>6. CASE Receive
  <2> DEFINE b == Head(toHost).body
  <2>1. b \in Body /\ reading' = FALSE /\ cut' = cut
    BY <1>6, TakeTyped DEF Receive
  <2>2. b.kind \in {"ack", "error", "heartbeat", "hello"}
    BY <2>1 DEF Body
  <2>3. /\ host' \in {"ready", "acked", host} /\ configured' \in BOOLEAN
        /\ outcome' \in [of : Nat, verdict : Verdicts]
    <3>1. CASE Replied(b)
      BY <2>2, <3>1, ReturnTyped DEF Replied, HostTypes, Verdicts
    <3>2. CASE Heartbeat(b)
      BY <3>2 DEF Heartbeat, HostTypes
    <3>3. CASE LateReply(b)
      BY <3>3, ReturnTyped DEF LateReply, HostTypes, Verdicts
    <3> QED
      BY <1>6, <3>1, <3>2, <3>3 DEF Receive
  <2> QED
    BY <2>1, <2>3 DEF HostTypes
<1>7. CASE Late \/ Starved
  BY <1>7, ReturnTyped DEF Late, Starved, Expire, Leave, HostTypes, Verdicts
<1>8. CASE ExitSeen
  BY <1>8, ReturnTyped DEF ExitSeen, HostTypes, Verdicts
<1> QED
  BY <1>1, <1>2, <1>3, <1>4, <1>5, <1>6, <1>7, <1>8 DEF Next, Client

LEMMA PipeTypesStep == TypeOK /\ [Next]_vars => PipeTypes'
<1> SUFFICES ASSUME TypeOK, PipeTypes, [Next]_vars
             PROVE  PipeTypes'
  BY TypeParts
<1>1. CASE Supervise
  BY <1>1 DEF Supervise, Spawn, Contain, ContainFails, Bootstrap, Drop, ForceKill, HostDies,
              KilledByJob, Leave, PipeTypes, hostVars
<1>2. ASSUME NEW n \in Names, Call(n)
      PROVE  PipeTypes'
  <2>1. [seq |-> Len(sent) + 1, name |-> n] \in Command
    BY DEF PipeTypes, Command
  <2>2. Len(sent) \in Nat /\ Len(sent') = Len(sent) + 1 /\ sent' \in Seq(Names)
    BY <1>2 DEF Call, Send, PipeTypes
  <2>3. toWorker' \in Seq(Command)
    BY <1>2, <2>1 DEF Call, Send, PipeTypes
  <2>4. pending' \subseteq 1 .. Len(sent')
    <3>1. pending' = pending \cup {Len(sent) + 1}
      BY <1>2 DEF Call, Send
    <3>2. pending \subseteq 1 .. Len(sent)
      BY DEF PipeTypes
    <3>3. \A k \in Nat : \A s \in SUBSET (1 .. k) : s \cup {k + 1} \subseteq 1 .. k + 1
      OBVIOUS
    <3> QED
      BY <2>2, <3>1, <3>2, <3>3
  <2> QED
    BY <1>2, <2>2, <2>3, <2>4 DEF Call, PipeTypes
<1>3. CASE CallRefused \/ ReadSome \/ ExitSeen
  BY <1>3 DEF CallRefused, ReadSome, ExitSeen, PipeTypes
<1>4. CASE Reject
  BY <1>4, TakeTyped DEF Reject, PipeTypes
<1>5. CASE Greeted \/ Receive
  <2>1. \E b \in Body : Advance(b) /\ UNCHANGED <<sent, toWorker>> /\ toHost' \in Seq(Frame)
    BY <1>5, TakeTyped DEF Greeted, Receive
  <2>2. nextIn' \in Nat \ {0} /\ pending' \subseteq pending
    BY <2>1 DEF Advance, PipeTypes
  <2> QED
    BY <2>1, <2>2 DEF PipeTypes
<1>6. CASE Late \/ Starved
  BY <1>6 DEF Late, Starved, Expire, Leave, PipeTypes
<1>7. CASE ReadGarbage
  <2>1. toHost' \in Seq(Frame)
    BY <1>7 DEF ReadGarbage, PipeTypes
  <2> QED
    BY <1>7, <2>1 DEF ReadGarbage, PipeTypes
<1>8. ASSUME NEW b \in Body, Put(b)
      PROVE  toHost' \in Seq(Frame)
  <2>1. [seq |-> nextOut, body |-> b] \in Frame
    BY DEF Frame, TypeOK
  <2> QED
    BY <1>8, <2>1 DEF Put, PipeTypes
<1>9. CASE MainWrites \/ PumpWrites
  <2>1. Event("heartbeat") \in Body /\ reply \in Body
    BY DEF Event, Body, TypeOK
  <2>2. toHost' \in Seq(Frame)
    BY <1>8, <1>9, <2>1 DEF MainWrites, PumpWrites
  <2> QED
    BY <1>9, <2>2 DEF MainWrites, PumpWrites, PipeTypes, hostVars
<1>10. CASE Fetch
  BY <1>10 DEF Fetch, PipeTypes, hostVars
<1>11. CASE Connect \/ BootFails \/ MainLocks \/ MainSent \/ MainWriteFails \/ LoopFails
            \/ Joined \/ Serve \/ Hang \/ Exit \/ WorkerDies
  BY <1>11 DEF Connect, BootFails, MainLocks, MainSent, MainWriteFails, LoopFails, Joined, Serve,
               Hang, Exit, WorkerDies, PipeTypes, hostVars
<1>12. CASE PumpLocks \/ PumpSent \/ PumpFails \/ PumpStops \/ UNCHANGED vars
  BY <1>12 DEF PumpLocks, PumpSent, PumpFails, PumpStops, vars, PipeTypes, hostVars
<1> QED
  BY <1>1, <1>2, <1>3, <1>4, <1>5, <1>6, <1>7, <1>9, <1>10, <1>11, <1>12
     DEF Next, Client, Main, Pump

LEMMA WorkerTypesStep == TypeOK /\ [Next]_vars => WorkerTypes'
<1> SUFFICES ASSUME TypeOK, WorkerTypes, [Next]_vars
             PROVE  WorkerTypes'
  BY TypeParts
<1>1. CASE Spawn
  BY <1>1 DEF Spawn, WorkerTypes, mainVars
<1>13. CASE Contain
  BY <1>13 DEF Contain, WorkerTypes, mainVars
<1>11. CASE ContainFails \/ Bootstrap
  BY <1>11 DEF ContainFails, Bootstrap, Ends, WorkerTypes, mainVars
<1>2. CASE Drop \/ ForceKill \/ HostDies \/ KilledByJob
  BY <1>2 DEF Drop, ForceKill, HostDies, KilledByJob, Ends, WorkerTypes, mainVars
<1>3. CASE Client \/ UNCHANGED vars
  <2>1. UNCHANGED <<contained, worker, mainVars, nextOut, pump, stopping>> /\ late' \in Nat
    BY <1>3 DEF Client, Call, CallRefused, ReadSome, Reject, Greeted, Receive, Late, Starved, Expire,
                ReadGarbage, ExitSeen, vars, WorkerTypes
  <2> QED
    BY <2>1 DEF WorkerTypes, mainVars
<1>4. CASE Connect \/ BootFails \/ MainLocks
  BY <1>4 DEF Connect, BootFails, MainLocks, Event, Body, WorkerTypes, mainVars
<1>5. CASE MainWrites \/ MainSent \/ MainWriteFails
  BY <1>5 DEF MainWrites, MainSent, MainWriteFails, WorkerTypes
<1>6. CASE Fetch
  <2>1. cmd' \in Command
    BY <1>6 DEF Fetch, TypeOK
  <2>2. nextCommand' \in Nat \ {0}
    BY <1>6 DEF Fetch, WorkerTypes
  <2>3. worker' \in {"leaving", "joining", "serving"}
    BY <1>6 DEF Fetch
  <2>4. stopping' \in BOOLEAN
    BY <1>6 DEF Fetch, WorkerTypes
  <2>5. UNCHANGED <<contained, session, reply, writing, nextOut, pump, hung, served, late>>
    BY <1>6 DEF Fetch
  <2> QED
    BY Zenon, <2>1, <2>2, <2>3, <2>4, <2>5 DEF WorkerTypes
<1>7. CASE LoopFails \/ Joined
  <2>1. worker' \in {"leaving", "serving"}
    BY <1>7 DEF LoopFails, Joined
  <2>2. UNCHANGED <<contained, mainVars, nextOut, pump, stopping, late>>
    BY <1>7 DEF LoopFails, Joined
  <2> QED
    BY ZenonT(30), <2>1, <2>2 DEF WorkerTypes, mainVars
<1>h. CASE Hang
  <2>1. hung' \in BOOLEAN
    BY <1>h DEF Hang
  <2>2. UNCHANGED <<contained, worker, session, cmd, reply, writing, nextCommand, nextOut, pump, stopping, served, late>>
    BY <1>h DEF Hang
  <2> QED
    BY ZenonT(30), <2>1, <2>2 DEF WorkerTypes
<1>8. CASE Exit \/ WorkerDies
  BY <1>8 DEF Exit, WorkerDies, Ends, WorkerTypes
<1>9. CASE Serve
  <2>1. PICK v \in {"ack", "error"} :
            Dispatch(v) /\ served' = Append(served, v)
            /\ reply' = [kind |-> v, to |-> cmd.seq, name |-> cmd.name]
    BY <1>9 DEF Serve
  <2>2. reply' \in Body /\ served' \in Seq({"ack", "error"})
    BY <2>1 DEF WorkerTypes, Body, Command
  <2>3. session' \in {"unconfigured", "ready", "stopping", "stopped"}
    BY <2>1 DEF Dispatch, WorkerTypes
  <2> QED
    BY <1>9, <2>2, <2>3 DEF Serve, WorkerTypes
<1>10. CASE PumpLocks \/ PumpWrites
  BY <1>10 DEF PumpLocks, PumpWrites, WorkerTypes, mainVars
<1>12. CASE PumpSent
  BY <1>12 DEF PumpSent, WorkerTypes, mainVars
<1>14. CASE PumpFails
  BY <1>14 DEF PumpFails, WorkerTypes, mainVars
<1>15. CASE PumpStops
  BY <1>15 DEF PumpStops, WorkerTypes, mainVars
<1> QED
  BY <1>1, <1>2, <1>3, <1>4, <1>5, <1>6, <1>7, <1>h, <1>8, <1>9, <1>10, <1>11, <1>12, <1>13, <1>14, <1>15
     DEF Next, Supervise, Main, Pump

LEMMA TypeStep == TypeOK /\ [Next]_vars => TypeOK'
<1> SUFFICES ASSUME TypeOK, [Next]_vars
             PROVE  (HostTypes /\ PipeTypes /\ WorkerTypes)'
  BY TypeParts DEF TypeOK, HostTypes, PipeTypes, WorkerTypes
<1> QED
  BY HostTypesStep, PipeTypesStep, WorkerTypesStep

(* Type correctness.                                                         *)
THEOREM TypeCorrect == Spec => []TypeOK
  BY TypeInit, TypeStep, PTL DEF Spec
-----------------------------------------------------------------------------
(* The invariant of the proofs.                                              *)

LEMMA InvInit == Init => IInv
<1> SUFFICES ASSUME Init
             PROVE  IInv
  OBVIOUS
<1>1. WriteInv /\ ClientInv
  BY DEF Init, WriteInv, ClientInv, InCall
<1>2. CommandInv /\ ServeInv
  BY LinkAssumption DEF Init, CommandInv, ServeInv, NoCommand
<1>3. FramesInv /\ PendingInv
  BY DEF Init, FramesInv, PendingInv, Following, Written
<1>4. PeersAgree /\ CleanEnd
  BY DEF Init, PeersAgree, CleanEnd
<1> QED
  BY <1>1, <1>2, <1>3, <1>4, TypeInit DEF IInv

(* The client writes nothing of the worker's.                                *)
LEMMA ClientKeeps ==
  ASSUME Client
  PROVE  UNCHANGED <<contained, worker, session, cmd, reply, writing, nextCommand, hung, served,
                     nextOut, pump, stopping>>
<1>1. CASE \E n \in Names : Call(n)
  BY <1>1 DEF Call, mainVars
<1>2. CASE CallRefused \/ ReadSome \/ Reject \/ Greeted
  BY <1>2 DEF CallRefused, ReadSome, Reject, Greeted, mainVars
<1>3. CASE Receive \/ ReadGarbage \/ ExitSeen
  BY <1>3 DEF Receive, ReadGarbage, ExitSeen, mainVars
<1>4. CASE Late \/ Starved
  BY <1>4 DEF Late, Starved, Expire, mainVars
<1> QED
  BY <1>1, <1>2, <1>3, <1>4 DEF Client

LEMMA WriteStep ==
  ASSUME TypeOK, WriteInv, ClientInv, [Next]_vars
  PROVE  WriteInv'
<1>1. CASE Spawn \/ ContainFails \/ ForceKill \/ KilledByJob
  BY <1>1 DEF Spawn, ContainFails, ForceKill, KilledByJob, Ends, WriteInv, ClientInv, mainVars
<1>2. CASE Contain \/ Bootstrap \/ Drop \/ HostDies \/ Client \/ UNCHANGED vars
  <2>1. UNCHANGED <<worker, writing, reply, nextOut, pump>>
    BY <1>2, ClientKeeps DEF Contain, Bootstrap, Drop, HostDies, vars, mainVars
  <2> QED
    BY <2>1 DEF WriteInv
<1>3. CASE Connect \/ BootFails \/ MainLocks
  BY <1>3 DEF Connect, BootFails, MainLocks, WriterFree, WriteInv, mainVars
<1>4. CASE MainWrites \/ MainWriteFails
  BY <1>4 DEF MainWrites, MainWriteFails, WriteInv, mainVars
<1>5. CASE MainSent
  BY <1>5 DEF MainSent, WriteInv, TypeOK
<1>6. CASE Fetch \/ LoopFails \/ Joined \/ Hang
  BY <1>6 DEF Fetch, LoopFails, Joined, Hang, WriteInv, mainVars
<1>7. CASE Serve
  BY <1>7 DEF Serve, WriteInv
<1>8. CASE Exit \/ WorkerDies
  BY <1>8 DEF Exit, WorkerDies, Ends, WriteInv
<1>9. CASE PumpLocks \/ PumpWrites \/ PumpFails \/ PumpStops
  BY <1>9 DEF PumpLocks, PumpWrites, PumpFails, PumpStops, WriterFree, WriteInv, mainVars
<1>10. CASE PumpSent
  BY <1>10 DEF PumpSent, WriteInv, mainVars, TypeOK
<1> QED
  BY <1>1, <1>2, <1>3, <1>4, <1>5, <1>6, <1>7, <1>8, <1>9, <1>10
     DEF Next, Supervise, Main, Pump

(* The worker takes the command it expects.                                  *)
LEMMA FetchTakes ==
  ASSUME TypeOK, CommandInv, Fetch
  PROVE  /\ toWorker \in Seq(Command) /\ Len(toWorker) \in Nat \ {0}
         /\ cmd.seq \in Nat /\ nextCommand \in Nat /\ Len(sent) \in Nat
         /\ nextCommand = cmd.seq + 1 /\ nextCommand + Len(toWorker) = Len(sent) + 1
         /\ Len(sent) <= MaxMessages
         /\ cmd'.seq = cmd.seq + 1 /\ cmd'.name = sent[cmd.seq + 1]
         /\ nextCommand' = nextCommand + 1 /\ sent' = sent
         /\ toWorker' = Tail(toWorker)
         /\ worker' \in {"joining", "serving"}
<1>1. /\ toWorker \in Seq(Command) /\ Len(toWorker) \in Nat \ {0} /\ Len(sent) \in Nat
      /\ cmd.seq \in Nat /\ nextCommand \in Nat /\ MaxMessages \in Nat
  BY LinkAssumption DEF Fetch, TypeOK, Command
<1>2. /\ nextCommand = cmd.seq + 1 /\ nextCommand + Len(toWorker) = Len(sent) + 1
      /\ Len(sent) <= MaxMessages
  BY DEF CommandInv
<1>3. Head(toWorker) = [seq |-> cmd.seq + 1, name |-> sent[cmd.seq + 1]]
  <2>1. Head(toWorker) = toWorker[1] /\ 1 \in 1 .. Len(toWorker)
    BY <1>1
  <2> QED
    BY <2>1 DEF CommandInv
<1>4. ValidCommand(Head(toWorker))
  BY <1>1, <1>2, <1>3 DEF ValidCommand
<1>5. /\ cmd' = Head(toWorker) /\ nextCommand' = nextCommand + 1 /\ sent' = sent
      /\ toWorker' = Tail(toWorker) /\ worker' \in {"joining", "serving"}
  BY <1>4 DEF Fetch, hostVars
<1>6. cmd'.seq = cmd.seq + 1 /\ cmd'.name = sent[cmd.seq + 1]
  BY <1>3, <1>5
<1> QED
  BY <1>1, <1>2, <1>5, <1>6

LEMMA CommandStep ==
  ASSUME TypeOK, CommandInv, [Next]_vars
  PROVE  CommandInv'
<1>1. CASE Fetch
  <2>1. /\ toWorker \in Seq(Command) /\ Len(toWorker) \in Nat \ {0} /\ Len(sent) \in Nat
        /\ cmd.seq \in Nat /\ nextCommand \in Nat
    BY <1>1, FetchTakes
  <2>2. /\ nextCommand = cmd.seq + 1 /\ nextCommand + Len(toWorker) = Len(sent) + 1
        /\ Len(sent) <= MaxMessages
    BY <1>1, FetchTakes
  <2>4. /\ cmd'.seq = cmd.seq + 1 /\ cmd'.name = sent[cmd.seq + 1]
        /\ nextCommand' = nextCommand + 1 /\ sent' = sent
        /\ toWorker' = Tail(toWorker)
    BY <1>1, FetchTakes
  <2>5. /\ Len(toWorker') = Len(toWorker) - 1
        /\ \A i \in 1 .. Len(toWorker') : toWorker'[i] = toWorker[i + 1]
    BY <2>1, <2>4
  <2>6. nextCommand' + Len(toWorker') = Len(sent') + 1 /\ nextCommand' = cmd'.seq + 1
    BY <2>1, <2>2, <2>4, <2>5
  <2>7. ASSUME NEW i \in 1 .. Len(toWorker')
        PROVE  toWorker'[i] = [seq |-> cmd'.seq + i, name |-> sent'[cmd'.seq + i]]
    <3> DEFINE n == Len(toWorker)
    <3>1. i \in 1 .. n - 1
      BY <2>5
    <3> HIDE DEF n
    <3>2. n \in Nat
      BY <2>1 DEF n
    <3>3. i + 1 \in 1 .. n /\ cmd.seq + (i + 1) = (cmd.seq + 1) + i
      BY <2>1, <3>1, <3>2
    <3> QED
      BY <2>4, <2>5, <3>3 DEF CommandInv, n
  <2> QED
    BY <2>2, <2>4, <2>6, <2>7 DEF CommandInv
<1>2. ASSUME NEW n \in Names, Call(n)
      PROVE  CommandInv'
  <2>1. /\ sent \in Seq(Names) /\ toWorker \in Seq(Command) /\ cmd.seq \in Nat
        /\ MaxMessages \in Nat /\ nextCommand \in Nat
        /\ Len(sent) \in Nat /\ Len(toWorker) \in Nat
    BY LinkAssumption DEF TypeOK, Command
  <2>0. nextCommand = cmd.seq + 1 /\ cmd.seq + Len(toWorker) = Len(sent)
    <3>1. nextCommand = cmd.seq + 1 /\ nextCommand + Len(toWorker) = Len(sent) + 1
      BY DEF CommandInv
    <3> QED
      BY <2>1, <3>1
  <2>2. /\ sent' = Append(sent, n) /\ Len(sent) < MaxMessages
        /\ toWorker' = Append(toWorker, [seq |-> Len(sent) + 1, name |-> n])
        /\ UNCHANGED <<cmd, nextCommand>>
    BY <1>2 DEF Call, Send, CanSend, mainVars
  <2>3. ASSUME NEW i \in 1 .. Len(toWorker')
        PROVE  toWorker'[i] = [seq |-> cmd'.seq + i, name |-> sent'[cmd'.seq + i]]
    <3>1. CASE i = Len(toWorker) + 1
      <4>1. cmd.seq + i = Len(sent) + 1
        BY <2>0, <2>1, <3>1
      <4>2. /\ toWorker'[i] = [seq |-> Len(sent) + 1, name |-> n]
            /\ sent'[Len(sent) + 1] = n
        BY SMTT(30), <2>1, <2>2, <3>1
      <4> QED
        BY <2>2, <4>1, <4>2
    <3>2. CASE i # Len(toWorker) + 1
      <4>1. i \in 1 .. Len(toWorker) /\ cmd.seq + i \in 1 .. Len(sent)
        BY SMTT(30), <2>0, <2>1, <2>2, <3>2
      <4>2. toWorker'[i] = toWorker[i] /\ sent'[cmd.seq + i] = sent[cmd.seq + i]
        BY SMTT(30), <2>1, <2>2, <4>1
      <4> QED
        BY <2>2, <4>1, <4>2 DEF CommandInv
    <3> QED
      BY <3>1, <3>2
  <2>4. Len(sent') = Len(sent) + 1 /\ Len(toWorker') = Len(toWorker) + 1
    BY <2>1, <2>2
  <2>5. cmd'.seq > 0 => cmd'.name = sent'[cmd'.seq]
    <3>1. cmd.seq > 0 => cmd.seq \in 1 .. Len(sent)
      BY <2>0, <2>1
    <3>2. cmd.seq \in 1 .. Len(sent) => sent'[cmd.seq] = sent[cmd.seq]
      BY <2>1, <2>2
    <3> QED
      BY <2>2, <3>1, <3>2 DEF CommandInv
  <2>6. /\ Len(sent') <= MaxMessages /\ nextCommand' = cmd'.seq + 1
        /\ nextCommand' + Len(toWorker') = Len(sent') + 1
    BY <2>0, <2>1, <2>2, <2>4
  <2> QED
    BY <2>3, <2>5, <2>6 DEF CommandInv
<1>3. CASE ~Fetch /\ ~(\E n \in Names : Call(n))
  <2>1. UNCHANGED <<sent, toWorker, nextCommand, cmd>>
    BY <1>3 DEF Next, Supervise, Client, Main, Pump, Spawn, Contain, ContainFails, Bootstrap, Drop,
                ForceKill, HostDies, KilledByJob, Leave, CallRefused, ReadSome, Reject, Greeted,
                Receive, Late, Starved, Expire, ReadGarbage, ExitSeen, Connect, BootFails, MainLocks,
                MainWrites, MainSent, MainWriteFails, LoopFails, Joined, Serve, Hang, Exit, WorkerDies,
                PumpLocks, PumpWrites, PumpSent, PumpFails, PumpStops, vars, mainVars, hostVars
  <2> QED
    BY <2>1 DEF CommandInv
<1> QED
  BY <1>1, <1>2, <1>3
LEMMA ServeStep ==
  ASSUME TypeOK, WriteInv, CommandInv, ServeInv, ClientInv, [Next]_vars
  PROVE  ServeInv'
<1> /\ cmd.seq \in Nat /\ Len(served) \in Nat /\ Len(sent) \in Nat /\ served \in Seq({"ack", "error"})
  BY DEF TypeOK, Command
<1>0. Len(served) <= cmd.seq /\ cmd.seq <= Len(sent)
  <2>1. nextCommand = cmd.seq + 1 /\ nextCommand + Len(toWorker) = Len(sent) + 1
        /\ Len(toWorker) \in Nat
    BY DEF CommandInv, TypeOK
  <2> QED
    BY <2>1 DEF ServeInv
<1>1. CASE Serve
  <2>1. PICK v \in {"ack", "error"} :
            Dispatch(v) /\ served' = Append(served, v)
            /\ reply' = [kind |-> v, to |-> cmd.seq, name |-> cmd.name]
    BY <1>1 DEF Serve
  <2>2. cmd.seq = Len(served) + 1 /\ cmd' = cmd /\ sent' = sent /\ worker' = "replying"
    BY <1>1 DEF Serve, ServeInv, hostVars
  <2>3. /\ Len(served') = Len(served) + 1 /\ served'[cmd.seq] = v
        /\ \A k \in 1 .. Len(served) : served'[k] = served[k]
    BY <2>1, <2>2
  <2>4. sent[cmd.seq] = cmd.name
    BY <2>2 DEF CommandInv
  <2>5. v = "ack" /\ cmd.name = "shutdown" => session' = "stopped"
    BY <2>1 DEF Dispatch
  <2>6. session = "stopped" => session' = "stopped"
    BY <2>1 DEF Dispatch
  <2>7. ASSUME NEW k \in 1 .. Len(served'), served'[k] = "ack", sent'[k] = "shutdown"
        PROVE  session' = "stopped"
    <3>1. CASE k = cmd.seq
      BY <2>2, <2>3, <2>4, <2>5, <2>7, <3>1
    <3>2. CASE k # cmd.seq
      <4>1. k \in 1 .. Len(served)
        BY <2>2, <2>3, <3>2
      <4> QED
        BY <2>2, <2>3, <2>6, <2>7, <4>1 DEF ServeInv
    <3> QED
      BY <3>1, <3>2
  <2> QED
    BY <2>1, <2>2, <2>3, <2>7 DEF ServeInv
<1>2. ASSUME NEW n \in Names, Call(n)
      PROVE  ServeInv'
  <2>1. /\ sent' = Append(sent, n) /\ sent \in Seq(Names)
        /\ UNCHANGED <<worker, session, cmd, reply, served>>
    BY <1>2 DEF Call, Send, mainVars, TypeOK
  <2>2. \A k \in 1 .. Len(served) : sent'[k] = sent[k]
    BY <1>0, <2>1
  <2> QED
    BY <2>1, <2>2 DEF ServeInv
<1>3. CASE Fetch
  <2>1. /\ cmd'.seq = cmd.seq + 1 /\ worker' \in {"joining", "serving"}
        /\ worker = "listening" /\ UNCHANGED <<served, session, sent>>
    BY <1>3, FetchTakes DEF Fetch
  <2> QED
    BY <2>1 DEF ServeInv
<1>4. CASE ~Serve /\ ~Fetch /\ ~(\E n \in Names : Call(n))
  <2>1. UNCHANGED <<served, cmd, session, sent>>
    BY <1>4, ClientKeeps
       DEF Next, Supervise, Client, Main, Pump, Spawn, Contain, ContainFails, Bootstrap, Drop,
           ForceKill, HostDies, KilledByJob, Leave, CallRefused, ReadSome, Reject, Greeted,
           Receive, Late, Starved, Expire, ReadGarbage, ExitSeen, Connect, BootFails, MainLocks,
           MainWrites, MainSent, MainWriteFails, LoopFails, Joined, Hang, Exit, WorkerDies,
           PumpLocks, PumpWrites, PumpSent, PumpFails, PumpStops, vars, mainVars, hostVars
  <2>2. \/ worker' = worker /\ reply' = reply
        \/ worker' = "dead"
        \/ worker \notin {"joining", "serving", "dead"} /\ worker' \in {"booting", "greeting", "leaving", "listening"}
        \/ worker = "joining" /\ worker' = "serving"
    <3>1. CASE Supervise
      BY <3>1 DEF Supervise, Spawn, Contain, ContainFails, Bootstrap, Drop, ForceKill, HostDies,
                  KilledByJob, Ends, mainVars, ClientInv
    <3>2. CASE Client \/ UNCHANGED vars
      BY <3>2, ClientKeeps DEF vars, mainVars
    <3>3. CASE Connect \/ BootFails \/ MainLocks \/ MainWrites \/ LoopFails \/ Joined
      BY <3>3 DEF Connect, BootFails, MainLocks, MainWrites, LoopFails, Joined, mainVars
    <3>4. CASE MainSent \/ MainWriteFails \/ Hang \/ Exit \/ WorkerDies
      BY <3>4 DEF MainSent, MainWriteFails, Hang, Exit, WorkerDies, Ends, WriteInv
    <3>5. CASE Pump
      BY <3>5 DEF Pump, PumpLocks, PumpWrites, PumpSent, PumpFails, PumpStops, mainVars
    <3> QED
      BY <1>4, <3>1, <3>2, <3>3, <3>4, <3>5 DEF Next, Main
  <2> QED
    BY <2>1, <2>2 DEF ServeInv
<1> QED
  BY <1>1, <1>2, <1>3, <1>4

-----------------------------------------------------------------------------
(* What a step does to the call of the client.                               *)

SafeInv == TypeOK /\ WriteInv /\ CommandInv /\ ServeInv /\ ClientInv /\ FramesInv /\ PendingInv

Idles ==
    /\ UNCHANGED <<sent, outcome, served>>
    /\ host' = host \/ (~InCall /\ ~InCall' /\ host # "gone" /\ host' \notin {"gone", "idle"})

Acknowledged ==
    /\ host = "closing" /\ host' = "acked" /\ UNCHANGED <<sent, outcome, served>>
    /\ Len(served) = Len(sent) /\ served[Len(sent)] = "ack"

Answered ==
    /\ InCall /\ host' = "ready" /\ UNCHANGED <<sent, served>>
    /\ Len(served) = Len(sent) /\ outcome' = [of |-> Len(sent), verdict |-> served[Len(sent)]]
    /\ served[Len(sent)] = "ack" => host = "calling" \/ (host = "acked" /\ worker = "dead")

Failed ==
    /\ UNCHANGED <<sent, served>>
    /\ \/ host' = "gone" /\ UNCHANGED outcome
       \/ /\ host' = "ready"
          /\ \E v \in Verdicts \ {"ack", "error"} : outcome' = [of |-> Len(sent), verdict |-> v]

LEMMA Counts ==
  ASSUME TypeOK, CommandInv, ServeInv
  PROVE  /\ Len(sent) \in Nat /\ Len(served) \in Nat /\ cmd.seq \in Nat /\ Replies \in Nat
         /\ Replies <= Len(served) /\ Len(served) <= cmd.seq /\ cmd.seq <= Len(sent)
<1>1. Len(sent) \in Nat /\ Len(served) \in Nat /\ cmd.seq \in Nat
      /\ nextCommand \in Nat /\ Len(toWorker) \in Nat
  BY DEF TypeOK, Command
<1>2. nextCommand = cmd.seq + 1 /\ nextCommand + Len(toWorker) = Len(sent) + 1
  BY DEF CommandInv
<1>3. /\ Len(served) <= cmd.seq
      /\ worker = "replying" => Len(served) = cmd.seq /\ cmd.seq > 0
  BY DEF ServeInv
<1> QED
  BY <1>1, <1>2, <1>3 DEF Replies

LEMMA FrameTyped ==
  ASSUME TypeOK, NEW i \in 1 .. Len(toHost)
  PROVE  toHost[i].seq \in Nat /\ toHost[i].body \in Body /\ toHost[i].body.to \in Nat
<1>1. toHost \in Seq(Frame)
  BY DEF TypeOK
<1>2. toHost[i] \in Frame
  BY <1>1
<1> QED
  BY <1>2 DEF Frame, Body

(* The first frame is the one that follows, and a reply in it is the worker's. *)
LEMMA HeadOK ==
  ASSUME TypeOK, CommandInv, ServeInv, FramesInv, PendingInv, Readable, toHost # <<>>
  PROVE  LET b == Head(toHost).body IN
         /\ Accepts(Head(toHost))
         /\ IsReply(b) => b.to \in 1 .. Replies /\ b.kind = served[b.to]
         /\ ~IsReply(b) => b.to = 0
<1>1. toHost \in Seq(Frame) /\ Len(toHost) \in Nat \ {0} /\ nextIn \in Nat
  BY DEF TypeOK
<1>2. Head(toHost) = toHost[1] /\ 1 \in 1 .. Len(toHost)
  BY <1>1
<1>3. FrameOK(1)
  BY <1>2 DEF FramesInv
<1>4. toHost[1].seq \in Nat
  BY <1>2, FrameTyped
<1>5. toHost[1].seq = nextIn
  BY <1>1, <1>3, <1>4 DEF FrameOK
<1>6. IsReply(toHost[1].body) => toHost[1].body.to \in pending
  BY <1>2 DEF PendingInv
<1>7. toHost[1].body.kind = "hello" <=> nextIn = 1
  BY <1>3, <1>5 DEF FrameOK
<1>8. nextIn # 1 => nextIn > 1
  BY <1>1 DEF TypeOK
<1>9. IsReply(toHost[1].body) => KnownReply(toHost[1].body)
  BY <1>3, <1>6 DEF FrameOK, KnownReply
<1>10. Accepts(toHost[1])
  BY <1>5, <1>7, <1>8, <1>9 DEF Accepts, IsReply, Readable
<1> QED
  BY <1>2, <1>3, <1>10 DEF FrameOK

LEMMA OwnReply ==
  ASSUME SafeInv, Receive, IsReply(Head(toHost).body), IsOwn(Head(toHost).body)
  PROVE  Len(served) = Len(sent) /\ Head(toHost).body.kind = served[Len(sent)]
<1>1. toHost # <<>> /\ Readable
  BY DEF Receive, Take, Accepts, Readable
<1>2. Head(toHost).body.to \in 1 .. Replies /\ Head(toHost).body.kind = served[Head(toHost).body.to]
  BY <1>1, HeadOK DEF SafeInv
<1>3. Head(toHost).body.to = Len(sent)
  BY DEF IsOwn
<1>4. /\ Len(sent) \in Nat /\ Len(served) \in Nat /\ cmd.seq \in Nat /\ Replies \in Nat
      /\ Replies <= Len(served) /\ Len(served) <= cmd.seq /\ cmd.seq <= Len(sent)
  BY Counts DEF SafeInv
<1> QED
  BY <1>2, <1>3, <1>4

LEMMA ReceiveMoves ==
  ASSUME SafeInv, Receive
  PROVE  Idles \/ Acknowledged \/ Answered \/ Failed
<1> DEFINE b == Head(toHost).body
<1>1. UNCHANGED <<sent, served>> /\ host \in {"calling", "closing"}
  BY DEF Receive, mainVars
<1>2. Replied(b) \/ Heartbeat(b) \/ LateReply(b)
  BY DEF Receive
<1>3. CASE Heartbeat(b)
  BY <1>1, <1>3 DEF Heartbeat, Idles
<1>4. CASE LateReply(b)
  <2>1. CASE host = "closing"
    BY <1>1, <1>4, <2>1 DEF LateReply, Idles
  <2>2. CASE host # "closing"
    BY <1>1, <1>4, <2>2 DEF LateReply, Failed, Return, Verdicts
  <2> QED
    BY <2>1, <2>2
<1>5. CASE Replied(b)
  <2>1. Len(served) = Len(sent) /\ b.kind = served[Len(sent)]
    BY <1>5, OwnReply DEF Replied, IsReply
  <2>2. CASE host = "closing" /\ b.kind = "ack"
    BY <1>1, <1>5, <2>1, <2>2 DEF Replied, Acknowledged
  <2>3. CASE ~(host = "closing" /\ b.kind = "ack")
    BY <1>1, <1>5, <2>1, <2>3 DEF Replied, Answered, Return, InCall
  <2> QED
    BY <2>2, <2>3
<1> QED
  BY <1>2, <1>3, <1>4, <1>5

LEMMA ExpireMoves ==
  ASSUME Expire(host)
  PROVE  Failed
<1>1. UNCHANGED <<sent, served>>
  BY DEF Expire, Leave, mainVars
<1>2. CASE host = "connecting"
  BY <1>1, <1>2 DEF Expire, Leave, Failed
<1>3. CASE host # "connecting"
  BY <1>1, <1>3 DEF Expire, Return, Failed, Verdicts
<1> QED
  BY <1>2, <1>3

LEMMA ClientMoves ==
  ASSUME SafeInv, Client
  PROVE  (\E n \in Names : Call(n)) \/ Idles \/ Acknowledged \/ Answered \/ Failed
<1>1. CASE \E n \in Names : Call(n)
  BY <1>1
<1>2. CASE CallRefused
  BY <1>2 DEF CallRefused, Return, Failed, Verdicts, mainVars
<1>3. CASE ReadSome
  BY <1>3 DEF ReadSome, Idles, mainVars
<1>4. CASE Reject
  <2>1. UNCHANGED <<sent, served>>
    BY <1>4 DEF Reject, mainVars
  <2> QED
    BY <1>4, <2>1 DEF Reject, Return, Failed, Verdicts
<1>5. CASE Greeted
  BY <1>5 DEF Greeted, Idles, InCall, mainVars
<1>6. CASE Receive
  BY <1>6, ReceiveMoves
<1>7. CASE Late \/ Starved
  BY <1>7, ExpireMoves DEF Late, Starved
<1>8. CASE ReadGarbage
  <2>1. UNCHANGED <<sent, served>> /\ (Return("protocol") \/ UNCHANGED <<host, outcome>>)
    BY <1>8 DEF ReadGarbage, mainVars
  <2> QED
    BY <2>1 DEF Return, Failed, Verdicts, Idles
<1>9. CASE ExitSeen
  <2>1. UNCHANGED <<sent, served>> /\ worker = "dead"
    BY <1>9 DEF ExitSeen, mainVars
  <2>2. CASE host = "acked"
    <3>1. Return("ack")
      BY <1>9, <2>2 DEF ExitSeen
    <3>2. Len(served) = Len(sent) /\ served[Len(sent)] = "ack"
      BY <2>2 DEF SafeInv, ClientInv
    <3> QED
      BY <2>1, <2>2, <3>1, <3>2 DEF Return, Answered, InCall
  <2>3. CASE host = "connecting"
    BY <1>9, <2>1, <2>3 DEF ExitSeen, Failed
  <2>4. CASE host \notin {"acked", "connecting"}
    <3>1. Return("exited")
      BY <1>9, <2>4 DEF ExitSeen
    <3> QED
      BY <2>1, <3>1 DEF Return, Failed, Verdicts
  <2> QED
    BY <2>2, <2>3, <2>4
<1> QED
  BY <1>1, <1>2, <1>3, <1>4, <1>5, <1>6, <1>7, <1>8, <1>9 DEF Client

LEMMA Moves ==
  ASSUME SafeInv, [Next]_vars
  PROVE  (\E n \in Names : Call(n)) \/ Serve \/ Idles \/ Acknowledged \/ Answered \/ Failed
<1>1. CASE Client
  BY <1>1, ClientMoves
<1>2. CASE Spawn \/ Contain
  BY <1>2 DEF Spawn, Contain, Idles, InCall, mainVars
<1>3. CASE ContainFails \/ Drop \/ HostDies
  BY <1>3 DEF ContainFails, Drop, HostDies, Leave, Failed, mainVars
<1>4. CASE Bootstrap
  BY <1>4 DEF Bootstrap, Idles, Failed, InCall, mainVars
<1>5. CASE ForceKill \/ KilledByJob
  BY <1>5 DEF ForceKill, KilledByJob, Idles, hostVars
<1>6. CASE UNCHANGED vars
  BY <1>6 DEF vars, hostVars, mainVars, Idles
<1>7. CASE Main /\ ~Serve
  <2>1. UNCHANGED <<host, sent, outcome, served>>
    BY <1>7 DEF Main, Connect, BootFails, MainLocks, MainWrites, MainSent, MainWriteFails,
                Fetch, LoopFails, Joined, Hang, Exit, WorkerDies, hostVars, mainVars
  <2> QED
    BY <2>1 DEF Idles
<1>8. CASE Pump
  <2>1. UNCHANGED <<host, sent, outcome, served>>
    BY <1>8 DEF Pump, PumpLocks, PumpWrites, PumpSent, PumpFails, PumpStops, hostVars, mainVars
  <2> QED
    BY <2>1 DEF Idles
<1> QED
  BY <1>1, <1>2, <1>3, <1>4, <1>5, <1>6, <1>7, <1>8 DEF Next, Supervise

-----------------------------------------------------------------------------
(* The client and the end of a session.                                      *)

LEMMA ClientStep ==
  ASSUME SafeInv, [Next]_vars
  PROVE  ClientInv'
<1> /\ Len(sent) \in Nat /\ Len(served) \in Nat /\ cmd.seq \in Nat
    /\ Len(served) <= cmd.seq /\ cmd.seq <= Len(sent) /\ outcome.of \in Nat /\ sent \in Seq(Names)
  BY Counts DEF SafeInv, TypeOK
<1>0. host' = "idle" => worker' = "absent"
  <2>1. host' = "idle" => host = "idle"
    <3>1. Idles \/ Acknowledged \/ Answered \/ Failed => (host' = "idle" => host = "idle")
      BY DEF Idles, Acknowledged, Answered, Failed
    <3>2. (\E n \in Names : Call(n)) => host' # "idle"
      BY DEF Call, Send
    <3>3. Serve => host' = host
      BY DEF Serve, hostVars
    <3> QED
      BY <3>1, <3>2, <3>3, Moves
  <2>2. ASSUME host = "idle", host' = "idle"
        PROVE  worker' = worker
    <3>1. worker = "absent" /\ pump = "off" /\ writing = "no"
      BY <2>2 DEF SafeInv, ClientInv, WriteInv, TypeOK
    <3>2. CASE Client \/ UNCHANGED vars
      BY <3>2, ClientKeeps DEF vars
    <3>3. CASE Supervise
      BY <2>2, <3>3, <3>1 DEF Supervise, Spawn, Contain, ContainFails, Bootstrap, Drop, ForceKill,
                              HostDies, KilledByJob
    <3>4. CASE Main
      BY <3>1, <3>4 DEF Main, Connect, BootFails, MainLocks, MainWrites, MainSent, MainWriteFails,
                        Fetch, LoopFails, Joined, Serve, Hang, Exit, WorkerDies, WorkerLives
    <3>5. CASE Pump
      BY <3>1, <3>5 DEF Pump, PumpLocks, PumpWrites, PumpSent, PumpFails, PumpStops
    <3> QED
      BY <3>2, <3>3, <3>4, <3>5 DEF Next
  <2> QED
    BY <2>1, <2>2 DEF SafeInv, ClientInv
<1>1. ASSUME NEW n \in Names, Call(n)
      PROVE  ClientInv'
  <2>1. /\ sent' = Append(sent, n) /\ outcome' = outcome
        /\ host' = IF n = "shutdown" THEN "closing" ELSE "calling"
    BY <1>1 DEF Call, Send
  <2>2. Len(sent') = Len(sent) + 1 /\ sent'[Len(sent')] = n
    BY <2>1
  <2>3. outcome.of <= Len(sent)
    BY DEF SafeInv, ClientInv
  <2> QED
    BY <1>0, <2>1, <2>2, <2>3 DEF ClientInv, InCall
<1>2. CASE Serve
  <2>1. UNCHANGED <<host, sent, outcome>>
    BY <1>2 DEF Serve, hostVars
  <2>2. host # "acked"
    <3>1. cmd.seq = Len(served) + 1
      BY <1>2 DEF Serve, SafeInv, ServeInv
    <3> QED
      BY <3>1 DEF SafeInv, ClientInv
  <2> QED
    BY <1>0, <2>1, <2>2 DEF SafeInv, ClientInv, InCall
<1>3. CASE Idles
  BY <1>0, <1>3 DEF Idles, SafeInv, ClientInv, InCall
<1>4. CASE Acknowledged
  BY <1>4 DEF Acknowledged, SafeInv, ClientInv, InCall
<1>5. CASE Answered
  BY <1>5 DEF Answered, ClientInv, InCall
<1>6. CASE Failed
  BY <1>6 DEF Failed, SafeInv, ClientInv, InCall
<1> QED
  BY <1>1, <1>2, <1>3, <1>4, <1>5, <1>6, Moves

(* A process that ended does nothing.                                        *)
LEMMA DeadStays ==
  ASSUME SafeInv, [Next]_vars, worker = "dead"
  PROVE  worker' = "dead" /\ session' = session
<1>1. pump = "off" /\ writing = "no" /\ host # "idle"
  BY DEF SafeInv, WriteInv, ClientInv
<1>2. CASE Client \/ UNCHANGED vars
  BY <1>2, ClientKeeps DEF vars, mainVars
<1>3. CASE Supervise
  BY <1>1, <1>3 DEF Supervise, Spawn, Contain, ContainFails, Bootstrap, Drop, ForceKill,
                    HostDies, KilledByJob, Ends, mainVars
<1>4. CASE Main
  BY <1>1, <1>4 DEF Main, Connect, BootFails, MainLocks, MainWrites, MainSent, MainWriteFails,
                    Fetch, LoopFails, Joined, Serve, Hang, Exit, WorkerDies, WorkerLives
<1>5. CASE Pump
  BY <1>1, <1>5 DEF Pump, PumpLocks, PumpWrites, PumpSent, PumpFails, PumpStops
<1> QED
  BY <1>2, <1>3, <1>4, <1>5 DEF Next

LEMMA CleanStep ==
  ASSUME SafeInv, CleanEnd, [Next]_vars
  PROVE  CleanEnd'
<1> SUFFICES ASSUME outcome'.verdict = "ack", outcome'.of > 0, sent'[outcome'.of] = "shutdown"
             PROVE  worker' = "dead" /\ session' = "stopped"
  BY DEF CleanEnd
<1> /\ Len(sent) \in Nat /\ sent \in Seq(Names) /\ outcome.of \in Nat
  BY DEF SafeInv, TypeOK
<1>1. ASSUME NEW n \in Names, Call(n)
      PROVE  worker' = "dead" /\ session' = "stopped"
  <2>1. sent' = Append(sent, n) /\ outcome' = outcome
    BY <1>1 DEF Call, Send
  <2>2. outcome.of \in 1 .. Len(sent)
    BY <2>1 DEF SafeInv, ClientInv
  <2>3. sent'[outcome.of] = sent[outcome.of]
    BY <2>1, <2>2
  <2>4. worker = "dead" /\ session = "stopped"
    BY <2>1, <2>3 DEF CleanEnd
  <2> QED
    BY <2>4, DeadStays
<1>2. CASE Serve \/ Idles \/ Acknowledged
  <2>1. UNCHANGED <<sent, outcome>>
    BY <1>2 DEF Serve, Idles, Acknowledged, hostVars
  <2> QED
    BY <2>1, DeadStays DEF CleanEnd
<1>3. CASE Answered
  <2>1. /\ outcome'.of = Len(sent) /\ served[Len(sent)] = "ack" /\ sent[Len(sent)] = "shutdown"
        /\ Len(served) = Len(sent) /\ Len(sent) > 0
    BY <1>3 DEF Answered
  <2>2. host # "calling"
    BY <2>1 DEF SafeInv, ClientInv
  <2>3. worker = "dead"
    BY <1>3, <2>1, <2>2 DEF Answered
  <2>4. session = "stopped"
    BY <2>1 DEF SafeInv, ServeInv
  <2> QED
    BY <2>3, <2>4, DeadStays
<1>4. CASE Failed
  <2>1. UNCHANGED <<sent, outcome>>
    BY <1>4 DEF Failed
  <2> QED
    BY <2>1, DeadStays DEF CleanEnd
<1> QED
  BY <1>1, <1>2, <1>3, <1>4, Moves

(* A frame of the worker is not refused.                                     *)
LEMMA RejectsNothing ==
  ASSUME SafeInv, Reject
  PROVE  ~Readable /\ ~Readable' /\ nextIn > MaxMessages
<1>1. toHost # <<>> /\ ~cut /\ host # "gone" /\ UNCHANGED <<cut, nextIn>>
  BY DEF Reject, Take, Waits
<1>2. ~Accepts(Head(toHost))
  BY DEF Reject
<1>3. ~Readable
  BY <1>1, <1>2, HeadOK DEF SafeInv
<1>4. nextIn \in Nat /\ MaxMessages \in Nat
  BY LinkAssumption DEF SafeInv, TypeOK
<1>5. nextIn > MaxMessages
  BY <1>1, <1>3, <1>4 DEF Readable
<1> QED
  BY <1>1, <1>3, <1>4, <1>5 DEF Readable

LEMMA PeersStep ==
  ASSUME SafeInv, PeersAgree, [Next]_vars, CommandInv', TypeOK'
  PROVE  PeersAgree'
<1>1. nextCommand' = cmd'.seq + 1 /\ cmd'.seq \in Nat
  BY DEF CommandInv, TypeOK, Command
<1>2. cmd'.seq < nextCommand'
  BY <1>1
<1>3. (outcome.verdict = "protocol" => cut) => (outcome'.verdict = "protocol" => cut')
  <2>1. CASE \E n \in Names : Call(n)
    BY <2>1 DEF Call, Send
  <2>2. CASE CallRefused \/ ReadSome \/ Greeted
    BY <2>2 DEF CallRefused, Return, ReadSome, Greeted
  <2>3. CASE Reject
    <3>1. nextIn > MaxMessages /\ cut' = cut
      BY <2>3, RejectsNothing DEF Reject
    <3>2. outcome' = outcome \/ outcome'.verdict = "limit"
      BY <2>3, <3>1 DEF Reject, Return
    <3> QED
      BY <3>1, <3>2
  <2>4. CASE Receive
    <3>1. cut' = cut /\ (outcome' = outcome \/ outcome'.verdict \in {"ack", "error", "unexpected"})
      BY <2>4 DEF Receive, Replied, Heartbeat, LateReply, Return
    <3> QED
      BY <3>1
  <2>5. CASE Late \/ Starved
    <3>1. (cut' = cut /\ outcome' = outcome) \/ outcome'.verdict = "timeout"
      BY <2>5 DEF Late, Starved, Expire, Leave, Return
    <3> QED
      BY <3>1
  <2>6. CASE ReadGarbage
    BY <2>6 DEF ReadGarbage
  <2>7. CASE ExitSeen
    <3>1. cut' = (cut \/ reading)
      BY <2>7 DEF ExitSeen
    <3>2. outcome' = outcome \/ outcome'.verdict \in {"ack", "exited"}
      <4>1. CASE host = "acked"
        BY <2>7, <4>1 DEF ExitSeen, Return
      <4>2. CASE host = "connecting"
        BY <2>7, <4>2 DEF ExitSeen
      <4>3. CASE host \notin {"acked", "connecting"}
        <5>1. Return("exited")
          BY <2>7, <4>3 DEF ExitSeen
        <5> QED
          BY <5>1 DEF Return
      <4> QED
        BY <4>1, <4>2, <4>3
    <3> QED
      BY <3>1, <3>2
  <2>8. CASE Supervise
    BY <2>8 DEF Supervise, Spawn, Contain, ContainFails, Bootstrap, Drop, ForceKill, HostDies,
                KilledByJob, Leave, hostVars
  <2>9. CASE Main
    BY <2>9 DEF Main, Connect, BootFails, MainLocks, MainWrites, MainSent, MainWriteFails, Fetch,
                LoopFails, Joined, Serve, Hang, Exit, WorkerDies, hostVars
  <2>10. CASE Pump \/ UNCHANGED vars
    BY <2>10 DEF Pump, PumpLocks, PumpWrites, PumpSent, PumpFails, PumpStops, hostVars, vars
  <2> QED
    BY <2>1, <2>2, <2>3, <2>4, <2>5, <2>6, <2>7, <2>8, <2>9, <2>10 DEF Next, Client
<1> QED
  BY <1>2, <1>3 DEF PeersAgree

-----------------------------------------------------------------------------
(* The frames between the worker and the client.                             *)

FramesPending == FramesInv /\ PendingInv

(* A step that neither writes nor takes a frame.                             *)
LEMMA FramesStay ==
  ASSUME SafeInv, Readable' => Readable, UNCHANGED <<toHost, nextIn>>,
         Replies' \in Nat, Replies <= Replies',
         \A k \in 1 .. Replies : served'[k] = served[k] /\ sent'[k] = sent[k],
         pending \subseteq pending',
         \A k \in 1 .. Len(sent') : k > Replies' => k \in pending',
         worker' # "dead" => worker # "dead" /\ Following' = Following
  PROVE  FramesPending'
<1> SUFFICES ASSUME Readable'
             PROVE  /\ worker' # "dead" => nextIn' + Len(toHost') = Following'
                    /\ \A i \in 1 .. Len(toHost') : FrameOK(i)'
                    /\ \A i \in 1 .. Len(toHost') :
                          IsReply(toHost'[i].body) =>
                              /\ toHost'[i].body.to \in pending'
                              /\ \A j \in 1 .. i - 1 :
                                    IsReply(toHost'[j].body) => toHost'[j].body.to # toHost'[i].body.to
  BY DEF FramesPending, FramesInv, PendingInv, IsReply
<1>1. Readable /\ FramesInv /\ PendingInv
  BY DEF SafeInv
<1>2. worker' # "dead" => nextIn' + Len(toHost') = Following'
  BY <1>1 DEF FramesInv
<1>3. ASSUME NEW i \in 1 .. Len(toHost')
      PROVE  FrameOK(i)'
  <2>1. i \in 1 .. Len(toHost) /\ FrameOK(i)
    BY <1>1 DEF FramesInv
  <2>2. Replies \in Nat
    BY Counts DEF SafeInv
  <2>3. toHost[i].body.to \in 1 .. Replies =>
            toHost[i].body.to \in 1 .. Replies'
    BY <2>2
  <2> QED
    BY <2>1, <2>3 DEF FrameOK, IsReply
<1>4. ASSUME NEW i \in 1 .. Len(toHost'), IsReply(toHost'[i].body)
      PROVE  /\ toHost'[i].body.to \in pending'
             /\ \A j \in 1 .. i - 1 :
                   IsReply(toHost'[j].body) => toHost'[j].body.to # toHost'[i].body.to
  BY <1>1, <1>4 DEF PendingInv
<1> QED
  BY <1>2, <1>3, <1>4

(* The client takes the first frame.                                         *)
LEMMA FramesTaken ==
  ASSUME SafeInv, Readable, toHost # <<>>, Advance(Head(toHost).body),
         toHost' = Tail(toHost), UNCHANGED <<cut, sent, served, worker, writing, nextOut, pump>>
  PROVE  FramesPending'
<1> DEFINE b == Head(toHost).body
<1>1. toHost \in Seq(Frame) /\ Len(toHost) \in Nat \ {0} /\ nextIn \in Nat /\ Replies \in Nat
  BY Counts DEF SafeInv, TypeOK
<1>2. /\ Len(toHost') = Len(toHost) - 1
      /\ \A i \in 1 .. Len(toHost') : i + 1 \in 1 .. Len(toHost) /\ toHost'[i] = toHost[i + 1]
  BY <1>1
<1>3. nextIn' = nextIn + 1 /\ pending' = pending \ {b.to} /\ b = toHost[1].body
  BY <1>1 DEF Advance
<1>4. /\ IsReply(b) => b.to \in 1 .. Replies
      /\ ~IsReply(b) => b.to = 0
  BY HeadOK DEF SafeInv
<1>5. Replies' = Replies /\ Following' = Following
  BY DEF Replies, Following, Written
<1>6. FramesInv /\ PendingInv
  BY DEF SafeInv
<1>7. worker' # "dead" => nextIn' + Len(toHost') = Following'
  BY <1>1, <1>2, <1>3, <1>5, <1>6 DEF FramesInv
<1>8. ASSUME NEW i \in 1 .. Len(toHost')
      PROVE  FrameOK(i)'
  <2>1. i + 1 \in 1 .. Len(toHost) /\ toHost'[i] = toHost[i + 1] /\ i \in Nat
    BY <1>1, <1>2
  <2>2. FrameOK(i + 1)
    BY <1>6, <2>1 DEF FramesInv
  <2>3. toHost[i + 1].seq \in Nat
    BY <2>1, FrameTyped DEF SafeInv
  <2>4. toHost[i + 1].seq + 1 = nextIn + (i + 1)
    BY <2>2 DEF FrameOK
  <2>5. toHost'[i].seq + 1 = nextIn' + i
    BY <1>1, <1>3, <2>1, <2>3, <2>4
  <2> QED
    BY <1>5, <2>1, <2>2, <2>5 DEF FrameOK, IsReply
<1>9. ASSUME NEW i \in 1 .. Len(toHost'), IsReply(toHost'[i].body)
      PROVE  /\ toHost'[i].body.to \in pending'
             /\ \A j \in 1 .. i - 1 :
                   IsReply(toHost'[j].body) => toHost'[j].body.to # toHost'[i].body.to
  <2>1. i + 1 \in 1 .. Len(toHost) /\ toHost'[i] = toHost[i + 1] /\ i \in Nat
    BY <1>1, <1>2
  <2>2. /\ toHost[i + 1].body.to \in pending
        /\ \A j \in 1 .. (i + 1) - 1 :
              IsReply(toHost[j].body) => toHost[j].body.to # toHost[i + 1].body.to
    BY <1>6, <1>9, <2>1 DEF PendingInv
  <2>3. toHost[i + 1].body.to # b.to
    <3>1. CASE IsReply(b)
      <4>1. 1 \in 1 .. (i + 1) - 1
        BY <1>1, <2>1
      <4> QED
        BY <1>3, <2>2, <3>1, <4>1
    <3>2. CASE ~IsReply(b)
      <4>1. FrameOK(i + 1) /\ toHost[i + 1].body.to \in 1 .. Replies
        BY <1>6, <1>9, <2>1 DEF FramesInv, FrameOK
      <4> QED
        BY <1>1, <1>4, <3>2, <4>1
    <3> QED
      BY <3>1, <3>2
  <2>4. ASSUME NEW j \in 1 .. i - 1, IsReply(toHost'[j].body)
        PROVE  toHost'[j].body.to # toHost'[i].body.to
    <3>1. j \in 1 .. Len(toHost') /\ j + 1 \in 1 .. (i + 1) - 1
      BY <1>1, <1>2, <2>1
    <3>2. toHost'[j] = toHost[j + 1]
      BY <1>2, <3>1
    <3> QED
      BY <2>1, <2>2, <2>4, <3>1, <3>2
  <2> QED
    BY <1>3, <2>1, <2>2, <2>3, <2>4
<1>10. ASSUME NEW k \in 1 .. Len(sent'), k > Replies'
       PROVE  k \in pending'
  <2>1. k \in pending
    BY <1>5, <1>6, <1>10 DEF PendingInv
  <2>2. Len(sent) \in Nat
    BY Counts DEF SafeInv
  <2>3. k # b.to
    BY <1>1, <1>4, <1>5, <1>10, <2>2
  <2> QED
    BY <1>3, <2>1, <2>3
<1> QED
  BY <1>7, <1>8, <1>9, <1>10 DEF FramesPending, FramesInv, PendingInv, IsReply

(* A writer puts the frame that follows: the hello, a heartbeat or the reply  *)
(* to the command that was served last.                                       *)
LEMMA FramesPut ==
  ASSUME SafeInv, NEW b \in Body, Put(b), ~Written, Written', worker # "dead",
         UNCHANGED <<host, cut, sent, served, pending, nextIn, worker, nextOut>>,
         b.kind = "hello" <=> nextOut = 1,
         IsReply(b) => b = [kind |-> served[Len(served)], to |-> Len(served), name |-> sent[Len(served)]]
                       /\ Len(served) > 0 /\ Replies = Len(served) - 1 /\ Replies' = Len(served),
         ~IsReply(b) => b.to = 0 /\ Replies' = Replies
  PROVE  FramesPending'
<1> DEFINE n == Len(toHost)
           f == [seq |-> nextOut, body |-> b]
<1>1. /\ toHost \in Seq(Frame) /\ n \in Nat /\ nextIn \in Nat /\ nextOut \in Nat /\ f \in Frame
      /\ Replies \in Nat /\ Len(served) \in Nat /\ Len(sent) \in Nat /\ Len(served) <= Len(sent)
  <2>1. cmd.seq \in Nat /\ Len(served) <= cmd.seq /\ cmd.seq <= Len(sent)
        /\ Len(served) \in Nat /\ Len(sent) \in Nat /\ Replies \in Nat
    BY Counts DEF SafeInv
  <2>2. f \in Frame
    BY DEF SafeInv, TypeOK, Frame
  <2> QED
    BY <2>1, <2>2 DEF SafeInv, TypeOK
<1>2. toHost' = Append(toHost, f)
  BY DEF Put
<1> HIDE DEF f
<1>3. /\ Len(toHost') = n + 1 /\ toHost'[n + 1] = f
      /\ \A i \in 1 .. n : toHost'[i] = toHost[i]
  BY <1>1, <1>2
<1>4. Replies' \in Nat /\ Replies <= Replies'
  BY <1>1
<1>5. FramesInv /\ PendingInv
  BY DEF SafeInv
<1> SUFFICES ASSUME Readable'
             PROVE  /\ worker' # "dead" => nextIn' + Len(toHost') = Following'
                    /\ \A i \in 1 .. Len(toHost') : FrameOK(i)'
                    /\ \A i \in 1 .. Len(toHost') :
                          IsReply(toHost'[i].body) =>
                              /\ toHost'[i].body.to \in pending'
                              /\ \A j \in 1 .. i - 1 :
                                    IsReply(toHost'[j].body) => toHost'[j].body.to # toHost'[i].body.to
                    /\ \A k \in 1 .. Len(sent') : k > Replies' => k \in pending'
  BY DEF FramesPending, FramesInv, PendingInv, IsReply
<1>6. Readable
  BY DEF Readable
<1>7. nextIn + n = nextOut
  BY <1>5, <1>6 DEF FramesInv, Following
<1>8. nextIn' + Len(toHost') = Following'
  BY <1>1, <1>3, <1>7 DEF Following
<1>9. f.seq = nextOut /\ f.body = b
  BY DEF f
<1>10. ASSUME NEW i \in 1 .. Len(toHost')
       PROVE  FrameOK(i)'
  <2>1. CASE i \in 1 .. n
    <3>1. FrameOK(i) /\ toHost'[i] = toHost[i]
      BY <1>3, <1>5, <1>6, <2>1 DEF FramesInv
    <3>2. toHost[i].body.to \in 1 .. Replies => toHost[i].body.to \in 1 .. Replies'
      BY <1>1, <1>4
    <3> QED
      BY <3>1, <3>2 DEF FrameOK, IsReply
  <2>2. CASE i = n + 1
    <3>1. toHost'[i] = f
      BY <1>3, <2>2
    <3>2. toHost'[i].seq + 1 = nextIn' + i
      BY <1>1, <1>7, <1>9, <2>2, <3>1
    <3>3. IsReply(b) => b.to \in 1 .. Replies' /\ b.name = sent'[b.to] /\ b.kind = served'[b.to]
      BY <1>1
    <3> QED
      BY <1>9, <3>1, <3>2, <3>3 DEF FrameOK, IsReply
  <2> QED
    BY <1>1, <1>3, <2>1, <2>2
<1>11. ASSUME NEW i \in 1 .. Len(toHost'), IsReply(toHost'[i].body)
       PROVE  /\ toHost'[i].body.to \in pending'
              /\ \A j \in 1 .. i - 1 :
                    IsReply(toHost'[j].body) => toHost'[j].body.to # toHost'[i].body.to
  <2>1. CASE i \in 1 .. n
    <3>1. \A j \in 1 .. i - 1 : toHost'[j] = toHost[j]
      BY <1>1, <1>3, <2>1
    <3> QED
      BY <1>3, <1>5, <1>6, <1>11, <2>1, <3>1 DEF PendingInv
  <2>2. CASE i = n + 1
    <3>1. IsReply(b) /\ toHost'[i].body.to = Len(served) /\ toHost'[i].body = b
      BY <1>3, <1>9, <1>11, <2>2
    <3>2. Len(served) \in 1 .. Len(sent) /\ Len(served) > Replies
      BY <1>1, <3>1
    <3>3. Len(served) \in pending
      BY <1>5, <1>6, <3>2 DEF PendingInv
    <3>4. ASSUME NEW j \in 1 .. i - 1, IsReply(toHost'[j].body)
          PROVE  toHost'[j].body.to # Len(served)
      <4>1. j \in 1 .. n /\ toHost'[j] = toHost[j]
        BY <1>1, <1>3, <2>2
      <4>2. toHost[j].body.to \in 1 .. Replies
        BY <1>5, <1>6, <3>4, <4>1 DEF FramesInv, FrameOK
      <4> QED
        BY <1>1, <3>2, <4>1, <4>2
    <3> QED
      BY <3>1, <3>3, <3>4
  <2> QED
    BY <1>1, <1>3, <2>1, <2>2
<1>12. ASSUME NEW k \in 1 .. Len(sent'), k > Replies'
       PROVE  k \in pending'
  <2>1. k > Replies
    BY <1>1, <1>4, <1>12
  <2> QED
    BY <1>5, <1>6, <2>1 DEF PendingInv
<1> QED
  BY <1>8, <1>10, <1>11, <1>12

(* The steps that leave the pipe to the client alone.                        *)
LEMMA FramesQuiet ==
  ASSUME SafeInv, Readable' => Readable, UNCHANGED <<toHost, nextIn, pending, sent, served>>,
         Replies' = Replies \/ Replies' = Len(served),
         worker' # "dead" => worker # "dead" /\ Following' = Following
  PROVE  FramesPending'
<1>1. Replies \in Nat /\ Len(served) \in Nat /\ Replies <= Len(served)
  BY Counts DEF SafeInv
<1>2. Replies' \in Nat /\ Replies <= Replies'
  BY <1>1
<1>3. Readable' => \A k \in 1 .. Len(sent') : k > Replies' => k \in pending'
  <2> SUFFICES ASSUME Readable', NEW k \in 1 .. Len(sent'), k > Replies'
               PROVE  k \in pending'
    OBVIOUS
  <2>1. k > Replies
    BY <1>1, <1>2
  <2> QED
    BY <2>1 DEF SafeInv, PendingInv
<1>4. CASE Readable'
  BY <1>2, <1>3, <1>4, FramesStay
<1>5. CASE ~Readable'
  BY <1>5 DEF FramesPending, FramesInv, PendingInv
<1> QED
  BY <1>4, <1>5

LEMMA FramesCall ==
  ASSUME SafeInv, NEW n \in Names, Call(n)
  PROVE  FramesPending'
<1>1. /\ sent' = Append(sent, n) /\ pending' = pending \cup {Len(sent) + 1}
      /\ UNCHANGED <<toHost, nextIn, cut, served, worker, writing, nextOut, pump>> /\ host = "ready"
  BY DEF Call, Send, mainVars
<1>2. /\ sent \in Seq(Names) /\ Len(sent) \in Nat /\ Replies \in Nat /\ Replies <= Len(sent)
  <2>1. Len(sent) \in Nat /\ Len(served) \in Nat /\ cmd.seq \in Nat /\ Replies \in Nat
        /\ Replies <= Len(served) /\ Len(served) <= cmd.seq /\ cmd.seq <= Len(sent)
    BY Counts DEF SafeInv
  <2> QED
    BY <2>1 DEF SafeInv, TypeOK
<1>3. Replies' = Replies /\ Following' = Following
  BY <1>1 DEF Replies, Following, Written
<1>4. CASE Readable
  <2>1. Len(sent') = Len(sent) + 1 /\ \A k \in 1 .. Replies : sent'[k] = sent[k]
    BY <1>1, <1>2
  <2>2. ASSUME NEW k \in 1 .. Len(sent'), k > Replies'
        PROVE  k \in pending'
    <3>1. CASE k = Len(sent) + 1
      BY <1>1, <3>1
    <3>2. CASE k # Len(sent) + 1
      <4>1. k \in 1 .. Len(sent) /\ k > Replies
        BY <1>2, <1>3, <2>1, <2>2, <3>2
      <4> QED
        BY <1>1, <1>4, <4>1 DEF SafeInv, PendingInv
    <3> QED
      BY <3>1, <3>2
  <2> QED
    BY <1>1, <1>2, <1>3, <1>4, <2>1, <2>2, FramesStay
<1>5. CASE ~Readable
  <2>1. ~Readable'
    BY <1>1, <1>5 DEF Readable
  <2> QED
    BY <2>1 DEF FramesPending, FramesInv, PendingInv
<1> QED
  BY <1>4, <1>5

LEMMA FramesClient ==
  ASSUME SafeInv, Client
  PROVE  FramesPending'
<1>0. UNCHANGED <<served, worker, writing, nextOut, pump>> /\ Replies' = Replies /\ Following' = Following
  BY ClientKeeps DEF Replies, Following, Written
<1>1. CASE \E n \in Names : Call(n)
  BY <1>1, FramesCall
<1>2. CASE CallRefused \/ ReadSome \/ ExitSeen
  <2>1. UNCHANGED <<toHost, nextIn, pending, sent>> /\ (cut => cut') /\ host # "gone"
    BY <1>2 DEF CallRefused, ReadSome, ExitSeen, Waits, Return, SafeInv, TypeOK
  <2>2. Readable' => Readable
    BY <2>1 DEF Readable
  <2> QED
    BY <1>0, <2>1, <2>2, FramesQuiet
<1>3. CASE Late \/ Starved
  <2>1. UNCHANGED <<toHost, nextIn, pending, sent>> /\ (cut => cut') /\ host # "gone"
    BY <1>3 DEF Late, Starved, Expire, Leave, SafeInv, TypeOK
  <2>2. Readable' => Readable
    BY <2>1 DEF Readable
  <2> QED
    BY <1>0, <2>1, <2>2, FramesQuiet
<1>4. CASE Reject
  BY <1>4, RejectsNothing DEF FramesPending, FramesInv, PendingInv
<1>5. CASE ReadGarbage
  <2>1. ~Readable'
    BY <1>5 DEF ReadGarbage, Readable
  <2> QED
    BY <2>1 DEF FramesPending, FramesInv, PendingInv
<1>6. CASE Greeted \/ Receive
  <2>1. /\ Take /\ Accepts(Head(toHost)) /\ Advance(Head(toHost).body)
        /\ UNCHANGED <<cut, sent>> /\ host # "gone"
    BY <1>6 DEF Greeted, Receive
  <2>2. Readable /\ toHost # <<>> /\ toHost' = Tail(toHost)
    BY <2>1 DEF Take, Accepts, Readable
  <2> QED
    BY <1>0, <2>1, <2>2, FramesTaken
<1> QED
  BY <1>1, <1>2, <1>3, <1>4, <1>5, <1>6 DEF Client

LEMMA FramesHost ==
  ASSUME SafeInv, Supervise
  PROVE  FramesPending'
<1>1. UNCHANGED <<toHost, nextIn, pending, sent, served, cut, nextOut>>
  BY DEF Supervise, Spawn, Contain, ContainFails, Bootstrap, Drop, ForceKill, HostDies,
         KilledByJob, Leave, hostVars, mainVars
<1>2. Readable' => Readable
  <2>1. host = "gone" => host' = "gone"
    BY DEF Supervise, Spawn, Contain, ContainFails, Bootstrap, Drop, ForceKill, HostDies,
           KilledByJob, hostVars
  <2> QED
    BY <1>1, <2>1 DEF Readable
<1>3. CASE Spawn
  <2>1. worker = "absent" /\ worker' = "booting" /\ UNCHANGED <<writing, pump>>
    BY <1>3 DEF Spawn, SafeInv, ClientInv, mainVars
  <2> QED
    BY <1>1, <1>2, <2>1, FramesQuiet DEF Replies, Following, Written
<1>4. CASE Contain \/ Bootstrap \/ Drop \/ HostDies
  <2>1. UNCHANGED <<worker, writing, pump>>
    BY <1>4 DEF Contain, Bootstrap, Drop, HostDies, mainVars
  <2> QED
    BY <1>1, <1>2, <2>1, FramesQuiet DEF Replies, Following, Written
<1>5. CASE ContainFails \/ ForceKill \/ KilledByJob
  <2>1. worker' = "dead"
    BY <1>5 DEF ContainFails, ForceKill, KilledByJob, Ends
  <2> QED
    BY <1>1, <1>2, <2>1, FramesQuiet DEF Replies
<1> QED
  BY <1>3, <1>4, <1>5 DEF Supervise

LEMMA FramesMain ==
  ASSUME SafeInv, Main
  PROVE  FramesPending'
<1>0. UNCHANGED <<host, cut, nextIn, pending, sent>>
  BY DEF Main, Connect, BootFails, MainLocks, MainWrites, MainSent, MainWriteFails, Fetch,
         LoopFails, Joined, Serve, Hang, Exit, WorkerDies, hostVars
<1>r. Readable' <=> Readable
  BY <1>0 DEF Readable
<1>1. CASE Connect \/ BootFails \/ LoopFails \/ Joined \/ Fetch
  <2>1. /\ UNCHANGED <<toHost, served, writing, pump, nextOut>>
        /\ worker \notin {"replying", "dead"} /\ worker' # "replying"
    BY <1>1 DEF Connect, BootFails, LoopFails, Joined, Fetch, mainVars
  <2> QED
    BY <1>0, <1>r, <2>1, FramesQuiet DEF Replies, Following, Written
<1>2. CASE Hang
  <2>1. UNCHANGED <<toHost, served, writing, pump, nextOut, worker>>
    BY <1>2 DEF Hang
  <2> QED
    BY <1>0, <1>r, <2>1, FramesQuiet DEF Replies, Following, Written
<1>3. CASE MainLocks
  <2>1. /\ UNCHANGED <<toHost, served, worker, pump, nextOut>>
        /\ writing = "no" /\ writing' = "locked"
    BY <1>3 DEF MainLocks, WriterFree
  <2> QED
    BY <1>0, <1>r, <2>1, FramesQuiet DEF Replies, Following, Written
<1>4. CASE MainWrites
  <2>1. /\ writing = "locked" /\ Put(reply) /\ writing' = "written"
        /\ UNCHANGED <<served, worker, pump, nextOut, cmd>>
    BY <1>4 DEF MainWrites
  <2>2. worker \in {"greeting", "replying"} /\ pump \notin {"locked", "written"}
    BY <2>1 DEF SafeInv, WriteInv
  <2>3. reply \in Body /\ ~Written /\ Written'
    BY <2>1, <2>2 DEF SafeInv, TypeOK, Written
  <2>4. CASE worker = "greeting"
    <3>1. reply = Event("hello") /\ nextOut = 1
      BY <2>4 DEF SafeInv, WriteInv
    <3>2. reply.kind = "hello" /\ reply.to = 0 /\ ~IsReply(reply)
      BY <3>1 DEF Event, IsReply
    <3>3. Replies' = Replies
      BY <2>1, <2>4 DEF Replies
    <3> QED
      BY <1>0, <2>1, <2>2, <2>3, <3>1, <3>2, <3>3, FramesPut
  <2>5. CASE worker = "replying"
    <3>1. /\ cmd.seq > 0 /\ cmd.seq = Len(served)
          /\ reply = [kind |-> served[cmd.seq], to |-> cmd.seq, name |-> cmd.name]
      BY <2>5 DEF SafeInv, ServeInv
    <3>2. cmd.name = sent[cmd.seq]
      BY <3>1 DEF SafeInv, CommandInv
    <3>3. nextOut > 1
      BY <2>5 DEF SafeInv, WriteInv
    <3>4. Len(served) \in Nat /\ served \in Seq({"ack", "error"}) /\ nextOut \in Nat
      BY DEF SafeInv, TypeOK
    <3>5. served[cmd.seq] \in {"ack", "error"}
      BY <3>1, <3>4
    <3>6. IsReply(reply) /\ reply.kind # "hello" /\ nextOut # 1
      BY <3>1, <3>3, <3>4, <3>5 DEF IsReply
    <3>7. Replies = Len(served) - 1 /\ Replies' = Len(served)
      BY <2>1, <2>5 DEF Replies
    <3>8. reply = [kind |-> served[Len(served)], to |-> Len(served), name |-> sent[Len(served)]]
          /\ Len(served) > 0
      BY <3>1, <3>2
    <3> QED
      BY <1>0, <2>1, <2>2, <2>3, <3>6, <3>7, <3>8, FramesPut
  <2> QED
    BY <2>2, <2>4, <2>5
<1>5. CASE MainSent
  <2>1. /\ UNCHANGED <<toHost, served>> /\ nextOut' = nextOut + 1 /\ writing = "written"
        /\ writing' = "no" /\ worker' \in {"leaving", "listening"} /\ (pump' = pump \/ pump' = "waiting")
    BY <1>5 DEF MainSent
  <2>2. worker \in {"greeting", "replying"} /\ pump \notin {"locked", "written"}
    BY <2>1 DEF SafeInv, WriteInv
  <2>3. Following' = Following
    BY <2>1, <2>2 DEF Following, Written
  <2>4. Replies' = Len(served)
    BY <2>1 DEF Replies
  <2> QED
    BY <1>0, <1>r, <2>1, <2>2, <2>3, <2>4, FramesQuiet
<1>6. CASE MainWriteFails
  <2>1. ~Readable'
    BY <1>0, <1>6 DEF MainWriteFails, Readable
  <2> QED
    BY <2>1 DEF FramesPending, FramesInv, PendingInv
<1>7. CASE Serve
  <2>1. PICK v \in {"ack", "error"} : served' = Append(served, v)
    BY <1>7 DEF Serve
  <2>2. /\ UNCHANGED <<toHost, writing, pump, nextOut>> /\ worker = "serving" /\ worker' = "replying"
    BY <1>7 DEF Serve
  <2>3. writing = "no"
    BY <2>2 DEF SafeInv, WriteInv, TypeOK
  <2>4. Len(served) \in Nat /\ served \in Seq({"ack", "error"})
    BY DEF SafeInv, TypeOK
  <2>5. Len(served') = Len(served) + 1 /\ \A k \in 1 .. Len(served) : served'[k] = served[k]
    BY <2>1, <2>4
  <2>6. Replies = Len(served) /\ Replies' = Len(served)
    BY <2>2, <2>3, <2>4, <2>5 DEF Replies
  <2>7. Following' = Following
    BY <2>2 DEF Following, Written
  <2>8. CASE Readable
    <3>1. \A k \in 1 .. Len(sent') : k > Replies' => k \in pending'
      BY <1>0, <2>6, <2>8 DEF SafeInv, PendingInv
    <3> QED
      BY <1>0, <1>r, <2>2, <2>4, <2>5, <2>6, <2>7, <3>1, FramesStay
  <2>9. CASE ~Readable
    BY <1>r, <2>9 DEF FramesPending, FramesInv, PendingInv
  <2> QED
    BY <2>8, <2>9
<1>8. CASE Exit \/ WorkerDies
  <2>1. worker' = "dead" /\ UNCHANGED <<toHost, served>>
    BY <1>8 DEF Exit, WorkerDies, Ends
  <2> QED
    BY <1>0, <1>r, <2>1, FramesQuiet DEF Replies
<1> QED
  BY <1>1, <1>2, <1>3, <1>4, <1>5, <1>6, <1>7, <1>8 DEF Main

LEMMA FramesPump ==
  ASSUME SafeInv, Pump
  PROVE  FramesPending'
<1>0. UNCHANGED <<host, cut, nextIn, pending, sent, served, worker, writing, cmd>>
  BY DEF Pump, PumpLocks, PumpWrites, PumpSent, PumpFails, PumpStops, hostVars, mainVars
<1>r. (Readable' <=> Readable) /\ Replies' = Replies
  BY <1>0 DEF Readable, Replies
<1>w. pump # "off" /\ worker # "dead" /\ nextOut > 1
  BY DEF SafeInv, WriteInv, Pump, PumpLocks, PumpWrites, PumpSent, PumpFails, PumpStops
<1>1. CASE PumpLocks \/ PumpFails \/ PumpStops
  <2>1. UNCHANGED <<toHost, nextOut>> /\ pump # "written" /\ pump' # "written"
    BY <1>1 DEF PumpLocks, PumpFails, PumpStops
  <2> QED
    BY <1>0, <1>r, <1>w, <2>1, FramesQuiet DEF Following, Written
<1>2. CASE PumpWrites
  <2>1. /\ pump = "locked" /\ Put(Event("heartbeat")) /\ pump' = "written" /\ nextOut' = nextOut
    BY <1>2 DEF PumpWrites
  <2>2. writing = "no"
    BY <2>1 DEF SafeInv, WriteInv, TypeOK
  <2>3. ~Written /\ Written'
    BY <2>1, <2>2, <1>0 DEF Written
  <2>4. /\ Event("heartbeat") \in Body /\ ~IsReply(Event("heartbeat"))
        /\ Event("heartbeat").kind # "hello" /\ Event("heartbeat").to = 0
    BY DEF Event, Body, IsReply
  <2>5. nextOut # 1
    BY <1>w DEF SafeInv, TypeOK
  <2> QED
    BY <1>0, <1>r, <1>w, <2>1, <2>3, <2>4, <2>5, FramesPut
<1>3. CASE PumpSent
  <2>1. pump = "written" /\ pump' = "waiting" /\ nextOut' = nextOut + 1 /\ toHost' = toHost
    BY <1>3 DEF PumpSent
  <2>2. writing = "no"
    BY <2>1 DEF SafeInv, WriteInv, TypeOK
  <2>3. Following' = Following
    BY <1>0, <2>1, <2>2 DEF Following, Written
  <2> QED
    BY <1>0, <1>r, <1>w, <2>1, <2>3, FramesQuiet
<1> QED
  BY <1>1, <1>2, <1>3 DEF Pump

LEMMA FramesStep ==
  ASSUME SafeInv, [Next]_vars
  PROVE  FramesInv' /\ PendingInv'
<1>1. CASE UNCHANGED vars
  <2>1. UNCHANGED <<host, cut, toHost, nextIn, pending, sent, served, worker, writing, nextOut, pump>>
    BY <1>1 DEF vars, hostVars, mainVars
  <2> QED
    BY <2>1, FramesQuiet DEF FramesPending, Readable, Replies, Following, Written
<1> QED
  BY <1>1, FramesClient, FramesHost, FramesMain, FramesPump DEF Next, FramesPending
-----------------------------------------------------------------------------
(* The theorems.                                                             *)

LEMMA InvStep ==
  ASSUME IInv, [Next]_vars
  PROVE  IInv'
<1>1. SafeInv /\ TypeOK /\ WriteInv /\ CommandInv /\ ServeInv /\ ClientInv /\ PeersAgree /\ CleanEnd
  BY DEF IInv, SafeInv
<1>2. TypeOK' /\ WriteInv' /\ CommandInv' /\ ServeInv'
  BY <1>1, TypeStep, WriteStep, CommandStep, ServeStep
<1>3. ClientInv' /\ FramesInv' /\ PendingInv' /\ CleanEnd' /\ PeersAgree'
  BY <1>1, <1>2, ClientStep, FramesStep, CleanStep, PeersStep
<1> QED
  BY <1>2, <1>3 DEF IInv

LEMMA Invariance == Spec => []IInv
<1>1. Init => IInv
  BY InvInit
<1>2. IInv /\ [Next]_vars => IInv'
  BY InvStep
<1> QED
  BY <1>1, <1>2, PTL DEF Spec

(* v2.rs, SessionValidator: whatever the budget and the size of the pipe, the *)
(* client refuses no frame of a genuine worker and the worker no command of a  *)
(* genuine client, unless a deadline has cut a frame.                          *)
THEOREM NoneRefused == Spec => []PeersAgree
<1>1. IInv => PeersAgree
  BY DEF IInv
<1> QED
  BY <1>1, Invariance, PTL

(* windows.rs, request_shutdown: a shutdown that is reported as orderly left   *)
(* a worker that has closed its resources and is gone.                         *)
THEOREM OrderlyEnd == Spec => []CleanEnd
<1>1. IInv => CleanEnd
  BY DEF IInv
<1> QED
  BY <1>1, Invariance, PTL

(* The refinement: a step of the session is a step of the abstract calls.    *)
LEMMA CallsInit == Init => Calls!Init
  BY DEF Init, Calls!Init, InCall, Told

LEMMA CallsStep ==
  ASSUME SafeInv, [Next]_vars
  PROVE  [Calls!Next]_(Calls!vars)
<1> /\ Len(sent) \in Nat /\ Len(served) \in Nat /\ cmd.seq \in Nat
    /\ Len(served) <= cmd.seq /\ cmd.seq <= Len(sent) /\ sent \in Seq(Names)
  BY Counts DEF SafeInv, TypeOK
<1>1. ASSUME NEW n \in Names, Call(n)
      PROVE  Calls!Next
  <2>1. /\ host = "ready" /\ sent' = Append(sent, n) /\ outcome' = outcome /\ served' = served
        /\ host' \in {"calling", "closing"}
    BY <1>1 DEF Call, Send, mainVars
  <2>2. Len(sent') = Len(sent) + 1
    BY <2>1
  <2>3. ~InCall /\ InCall' /\ Told' = Told
    BY <2>1 DEF InCall, Told
  <2>4. Calls!Ask
    BY <2>1, <2>2, <2>3 DEF Calls!Ask
  <2> QED
    BY <2>4 DEF Calls!Next
<1>2. CASE Serve
  <2>1. UNCHANGED <<host, sent, outcome>> /\ cmd.seq = Len(served) + 1
    BY <1>2 DEF Serve, hostVars, SafeInv, ServeInv
  <2>2. \E v \in Calls!Verdicts : served' = Append(served, v)
    BY <1>2 DEF Serve, Calls!Verdicts
  <2>3. InCall' = InCall /\ Told' = Told
    BY <2>1 DEF InCall, Told
  <2>4. Calls!Serve
    BY <2>1, <2>2, <2>3 DEF Calls!Serve
  <2> QED
    BY <2>4 DEF Calls!Next
<1>3. CASE Idles \/ Acknowledged
  <2>1. UNCHANGED <<sent, outcome, served>>
    BY <1>3 DEF Idles, Acknowledged
  <2>2. InCall' = InCall /\ (host = "gone" <=> host' = "gone")
    BY <1>3 DEF Idles, Acknowledged, InCall
  <2>3. Told' = Told
    BY <2>1, <2>2 DEF Told
  <2> QED
    BY <2>1, <2>2, <2>3 DEF Calls!vars
<1>4. CASE Answered
  <2>1. /\ InCall /\ UNCHANGED <<sent, served>> /\ Len(served) = Len(sent) /\ ~InCall'
        /\ outcome' = [of |-> Len(sent), verdict |-> served[Len(sent)]] /\ host' = "ready"
    BY <1>4 DEF Answered, InCall
  <2>2. served[Len(sent)] \in {"ack", "error"}
    <3>1. Len(sent) > 0
      BY <2>1 DEF SafeInv, ClientInv
    <3>2. served \in Seq({"ack", "error"}) /\ Len(sent) \in 1 .. Len(served)
      BY <2>1, <3>1 DEF SafeInv, TypeOK
    <3> QED
      BY <3>2
  <2>3. Told' = outcome'
    BY <2>1, <2>2 DEF Told
  <2>4. Calls!Answer
    BY <2>1, <2>3 DEF Calls!Answer
  <2> QED
    BY <2>4 DEF Calls!Next
<1>5. CASE Failed
  <2>1. UNCHANGED <<sent, served>> /\ ~InCall'
    BY <1>5 DEF Failed, InCall
  <2>2. Told' = [of |-> Len(sent), verdict |-> "failed"]
    BY <1>5 DEF Failed, Told
  <2>3. Calls!Fail
    BY <2>1, <2>2 DEF Calls!Fail
  <2> QED
    BY <2>3 DEF Calls!Next
<1> QED
  BY <1>1, <1>2, <1>3, <1>4, <1>5, Moves

(* worker_client_v2.rs, call: the session implements the abstract calls for   *)
(* any number of deadlines and late replies, and whichever process dies.       *)
THEOREM CallsImplemented == Spec => CallsSpec
<1>1. Init => Calls!Init
  BY CallsInit
<1>2. IInv /\ [Next]_vars => [Calls!Next]_(Calls!vars)
  BY CallsStep DEF IInv, SafeInv
<1> QED
  BY <1>1, <1>2, Invariance, PTL DEF Spec, CallsSpec, Calls!Spec
=============================================================================
