----------------------- MODULE DecodedRecording_proofs -----------------------
(* Theorems of DecodedRecording, for any commands, destinations, capacity of   *)
(* the queue, recordings, frames and faults.                                  *)
EXTENDS DecodedRecording, FiniteSetTheorems, SequenceTheorems, TLAPS

(* What is in the partial file, in the writer's hand and in its queue is what *)
(* has been presented, in order.                                             *)
Whole(m) == m.partial.frames \o m.held \o m.queue = m.shown

Looping == {"receiving", "opening", "opened", "writing", "leaving"}
Saving == {"finishing", "publishing", "published"}

(* A recorder that has been armed.  It is cancelled exactly if it has failed, *)
(* and a writer that is past its loop without that has emptied the queue.     *)
Sound(m) ==
    /\ m.cancelled <=> m.error # "none"
    /\ m.cancelled => m.status \in {"failed", "recording"} /\ m.worker \notin Saving
    /\ IF m.worker \in {"opening", "opened", "writing"} THEN Len(m.held) = 1 ELSE m.held = <<>>
    /\ m.worker \in {"opened", "writing"} => m.partial.made
    /\ m.worker = "opening" => ~m.partial.made
    /\ m.worker \in {"published", "ended"} => m.partial = NoPartial
    /\ ~m.partial.made => m.partial.frames = <<>>
    /\ ~m.cancelled =>
        /\ m.worker \in Looping => m.status \in {"armed", "recording"}
        /\ m.worker \in Saving => m.status = "finalizing"
        /\ m.worker = "ended" => m.status \in {"finished", "cancelled"}
        /\ m.worker \in Saving \cup {"leaving", "ended"} => ~m.sender /\ m.queue = <<>>
        /\ m.worker \notin {"published", "ended"} => Whole(m)
        /\ m.status = "cancelled" => m.shown = <<>>

RecordersInv ==
    /\ \A r \in 1..armed : rec[r].dest \in Destinations /\ Sound(rec[r])
    /\ \A r \in Recorders : r > armed => rec[r] = Unarmed
    /\ slot # 0 => (rec[slot].sender \/ rec[slot].cancelled)

(* A recorder whose output stands in its file.                               *)
Done(m) == ~m.cancelled /\ (m.worker = "published" \/ m.status = "finished")

(* A file of a recorder is its whole output.                                 *)
FilesInv ==
    /\ \A r \in 1..armed : Done(rec[r]) => file[rec[r].dest] = Output(r, rec[r].shown)
    /\ \A d \in Destinations : file[d].of # 0 =>
         file[d].of <= armed /\ rec[file[d].of].dest = d /\ Done(rec[file[d].of])

Waiting == {c \in Callers : call[c].pc = "waiting"}

(* Where the controller is: a recorder is in the slot, being retired, being   *)
(* finalized by one stop, or completed, and those who wait know for which.    *)
ControlInv ==
    /\ start # "none" => armed < MaxRecordings
    /\ actor = "arming" => start # "none" /\ slot = 0 /\ finalizing = 0 /\ Waiting = {}
    /\ finalizing # 0 => slot = 0 /\ completed.of = 0
    /\ completed.of # 0 => slot = 0
    /\ retiring # 0 => actor = "arming" /\ completed.of = 0
    /\ actor \in Errors => slot # 0 /\ rec[slot].cancelled
    /\ last \in {"finished", "cancelled"} => completed.of # 0
    /\ completed.of # 0 =>
         rec[completed.of].worker = "ended" /\ completed.verdict = Verdict(rec[completed.of])
    /\ \A c \in Callers : call[c].pc = "joining" => finalizing # 0 /\ call[c].of = finalizing
    /\ \A c, d \in Callers : call[c].pc = "joining" /\ call[d].pc = "joining" => c = d
    /\ \A c \in Waiting : call[c].of # 0 /\ call[c].of \in {finalizing, completed.of}
    /\ waiters = Cardinality(Waiting)

IInv == TypeOK /\ RecordersInv /\ FilesInv /\ ControlInv /\ OwnerKept
-----------------------------------------------------------------------------
(* What a step of the writer does to its recorder.                           *)

(* What others see of a recorder stays as it is, but for a failure.          *)
Kept(m, n) ==
    /\ n \in Recorder /\ Sound(n)
    /\ n.dest = m.dest /\ n.sender = m.sender /\ n.shown = m.shown
    /\ m.cancelled => n.cancelled
    /\ Done(m) <=> Done(n)

(* The parts of a recorder that are sequences of frames.                     *)
LEMMA Sequences ==
    ASSUME NEW m \in Recorder
    PROVE  /\ m.partial \in Partials /\ m.partial.made \in BOOLEAN
           /\ m.partial.frames \in Seq(Frame) /\ m.held \in Seq(Frame)
           /\ m.queue \in Seq(Frame) /\ m.shown \in Seq(Frame)
BY DEF Recorder, Partials

(* A queue is its head and its tail.                                         *)
LEMMA HeadAndTail ==
    ASSUME NEW S, NEW s \in Seq(S), s # <<>>
    PROVE  Head(s) \in S /\ Tail(s) \in Seq(S) /\ s = <<Head(s)>> \o Tail(s)
<1>1. Head(s) \in S /\ Tail(s) \in Seq(S)
  BY HeadTailProperties
<1>2. Len(s) \in Nat \ {0}
  BY EmptySeq
<1>3. SubSeq(s, 1, Len(s)) = <<s[1]>> \o SubSeq(s, 2, Len(s))
  <2>1. 1 \in 1..Len(s) /\ Len(s) \in 1..Len(s)
    BY <1>2
  <2>2. SubSeq(s, 1, Len(s)) = <<s[1]>> \o SubSeq(s, 1 + 1, Len(s))
    BY <2>1, SubSeqRecursiveFirst
  <2> QED
    BY <2>2
<1>4. Head(s) = s[1]
  BY <1>2
<1> QED
  BY <1>1, <1>3, <1>4, SubSeqFull, TailIsSubSeq

(* The frame in hand is the only one there.                                  *)
LEMMA OneHeld ==
    ASSUME NEW S, NEW s \in Seq(S), Len(s) = 1
    PROVE  Head(s) \in S /\ s = <<Head(s)>>
<1>1. s # <<>> /\ Len(s) = 1
  BY EmptySeq
<1>2. Head(s) \in S /\ Tail(s) \in Seq(S) /\ Len(Tail(s)) = 0
  BY <1>1, HeadTailProperties
<1>3. Tail(s) = <<>>
  BY <1>2, EmptySeq
<1>4. s = <<Head(s)>> \o <<>>
  BY <1>1, <1>3, HeadAndTail
<1>5. <<Head(s)>> \in Seq(S)
  BY <1>2
<1> QED
  BY <1>2, <1>4, <1>5, ConcatEmptySeq

(* A frame between two sequences belongs to either.                          *)
LEMMA Regroup ==
    ASSUME NEW S, NEW s \in Seq(S), NEW x \in S, NEW t \in Seq(S), NEW u, u = <<x>> \o t
    PROVE  s \o u = (s \o <<x>>) \o t
<1>1. <<x>> \in Seq(S)
  OBVIOUS
<1> QED
  BY <1>1, ConcatAssociative

(* Taking a frame from the queue.                                            *)
LEMMA TakeSound ==
    ASSUME NEW m \in Recorder, Sound(m), m.worker = "receiving", ~m.cancelled,
           NEW f \in Frame, NEW q \in Seq(Frame), m.queue = <<f>> \o q,
           NEW w \in {"writing", "opening"}, (w = "writing") <=> m.partial.made
    PROVE  Kept(m, [m EXCEPT !.queue = q, !.held = <<f>>, !.worker = w])
<1> DEFINE n == [m EXCEPT !.queue = q, !.held = <<f>>, !.worker = w]
<1>1. <<f>> \in Seq(Frame) /\ Len(<<f>>) = 1
  OBVIOUS
<1>2. n \in Recorder
  BY <1>1 DEF Recorder
<1>3. /\ n.partial = m.partial /\ n.held = <<f>> /\ n.queue = q
      /\ n.shown = m.shown /\ n.cancelled = m.cancelled /\ n.worker = w
      /\ n.error = m.error /\ n.status = m.status
      /\ n.sender = m.sender /\ n.dest = m.dest
  BY DEF Recorder
<1> HIDE DEF n
<1>4. Whole(n)
  <2>1. m.partial.frames \o <<>> \o m.queue = m.shown
    BY DEF Sound, Whole, Looping
  <2>2. m.partial.frames \o <<>> = m.partial.frames
    BY Sequences, ConcatEmptySeq
  <2>3. m.partial.frames \o m.queue = (m.partial.frames \o <<f>>) \o q
    <3>1. m.partial.frames \in Seq(Frame)
      BY Sequences
    <3>2. \A p \in Seq(Frame) : p \o m.queue = (p \o <<f>>) \o q
      BY Regroup
    <3> QED
      BY <3>1, <3>2, Zenon
  <2> QED
    BY <1>3, <2>1, <2>2, <2>3 DEF Whole
<1>5. Sound(n)
  BY <1>1, <1>3, <1>4 DEF Sound, Saving, Looping
<1>6. Done(m) <=> Done(n)
  BY <1>3 DEF Done
<1> QED
  BY <1>2, <1>3, <1>5, <1>6 DEF Kept, n

(* Dropping a frame of a recorder that has failed.                           *)
LEMMA DropSound ==
    ASSUME NEW m \in Recorder, Sound(m), m.worker = "receiving", m.cancelled,
           NEW q \in Seq(Frame)
    PROVE  Kept(m, [m EXCEPT !.queue = q, !.held = <<>>, !.worker = "leaving"])
<1> DEFINE n == [m EXCEPT !.queue = q, !.held = <<>>, !.worker = "leaving"]
<1>1. n \in Recorder
  BY EmptySeq DEF Recorder
<1>2. /\ n.partial = m.partial /\ n.held = <<>>
      /\ n.shown = m.shown /\ n.cancelled = m.cancelled /\ n.worker = "leaving"
      /\ n.error = m.error /\ n.status = m.status
      /\ n.sender = m.sender /\ n.dest = m.dest
  BY DEF Recorder
<1> HIDE DEF n
<1>3. Sound(n)
  BY <1>2 DEF Sound, Saving
<1>4. Done(m) <=> Done(n)
  BY <1>2 DEF Done
<1> QED
  BY <1>1, <1>2, <1>3, <1>4 DEF Kept, n

(* Writing the frame in hand.                                                *)
LEMMA WriteSound ==
    ASSUME NEW m \in Recorder, Sound(m), m.worker = "writing",
           NEW f \in Frame, m.held = <<f>>
    PROVE  Kept(m, [m EXCEPT !.partial.frames = Append(m.partial.frames, f),
                             !.held = <<>>, !.worker = "receiving"])
<1> DEFINE p == [made |-> m.partial.made, frames |-> Append(m.partial.frames, f)]
           n == [m EXCEPT !.partial = p, !.held = <<>>, !.worker = "receiving"]
<1>1. m.partial.made
  BY DEF Sound
<1>2. /\ Append(m.partial.frames, f) \in Seq(Frame) /\ Append(m.partial.frames, f) # <<>>
      /\ Append(m.partial.frames, f) = m.partial.frames \o <<f>>
  BY Sequences, AppendProperties, AppendIsConcat
<1>3. p \in Partials /\ p.made /\ p.frames = m.partial.frames \o <<f>>
  BY <1>1, <1>2, Sequences DEF Partials
<1>4. [m.partial EXCEPT !.frames = Append(m.partial.frames, f)] = p
  <2>1. \A x \in Seq(Frame), y \in Partials : [y EXCEPT !.frames = x] = [made |-> y.made, frames |-> x]
    BY DEF Partials
  <2> QED
    BY <1>2, <2>1, Sequences
<1>5. [m EXCEPT !.partial.frames = Append(m.partial.frames, f),
                !.held = <<>>, !.worker = "receiving"] = n
  BY <1>4 DEF Recorder
<1> HIDE DEF p
<1>6. n \in Recorder
  BY <1>3, EmptySeq DEF Recorder
<1>7. /\ n.partial = p /\ n.held = <<>> /\ n.queue = m.queue
      /\ n.shown = m.shown /\ n.cancelled = m.cancelled /\ n.worker = "receiving"
      /\ n.error = m.error /\ n.status = m.status
      /\ n.sender = m.sender /\ n.dest = m.dest
  BY DEF Recorder
<1> HIDE DEF n
<1>8. Whole(m) => Whole(n)
  <2>1. <<f>> \in Seq(Frame) /\ m.partial.frames \o <<f>> \in Seq(Frame)
    BY Sequences, ConcatProperties
  <2>2. (m.partial.frames \o <<f>>) \o <<>> = m.partial.frames \o <<f>>
    BY <2>1, ConcatEmptySeq
  <2> QED
    BY <1>3, <1>7, <2>2 DEF Whole
<1>9. Sound(n)
  BY <1>3, <1>7, <1>8 DEF Sound, Saving, Looping
<1>10. Done(m) <=> Done(n)
  BY <1>7 DEF Done
<1> QED
  BY <1>5, <1>6, <1>7, <1>9, <1>10 DEF Kept

(* The writer finds its queue empty and nobody left to fill it.              *)
LEMMA DisconnectedSound ==
    ASSUME NEW m \in Recorder, Sound(m), m.worker = "receiving",
           m.queue = <<>>, ~m.sender
    PROVE  Kept(m, [m EXCEPT !.worker = "leaving"])
<1> DEFINE n == [m EXCEPT !.worker = "leaving"]
<1>1. n \in Recorder
  BY DEF Recorder
<1>2. /\ n.partial = m.partial /\ n.held = m.held /\ n.queue = m.queue
      /\ n.shown = m.shown /\ n.cancelled = m.cancelled
      /\ n.worker = "leaving" /\ n.error = m.error /\ n.status = m.status
      /\ n.sender = m.sender /\ n.dest = m.dest
  BY DEF Recorder
<1> HIDE DEF n
<1>3. Sound(n)
  BY <1>2 DEF Sound, Saving, Looping, Whole
<1>4. Done(m) <=> Done(n)
  BY <1>2 DEF Done, Sound, Saving, Looping
<1> QED
  BY <1>1, <1>2, <1>3, <1>4 DEF Kept, n

(* The writer says that it records, whatever has failed meanwhile.           *)
LEMMA ShowRecordingSound ==
    ASSUME NEW m \in Recorder, Sound(m), m.worker = "opened"
    PROVE  Kept(m, [m EXCEPT !.worker = "writing", !.status = "recording"])
<1> DEFINE n == [m EXCEPT !.worker = "writing", !.status = "recording"]
<1>1. n \in Recorder
  BY DEF Recorder, States
<1>2. /\ n.partial = m.partial /\ n.held = m.held /\ n.queue = m.queue
      /\ n.shown = m.shown /\ n.cancelled = m.cancelled
      /\ n.worker = "writing" /\ n.error = m.error /\ n.status = "recording"
      /\ n.sender = m.sender /\ n.dest = m.dest
  BY DEF Recorder, States
<1> HIDE DEF n
<1>3. Sound(n)
  BY <1>2 DEF Sound, Saving, Looping, Whole
<1>4. Done(m) <=> Done(n)
  BY <1>2 DEF Done, Sound, Saving, Looping
<1> QED
  BY <1>1, <1>2, <1>3, <1>4 DEF Kept, n

(* A failed recording loses its partial file.                                *)
LEMMA LeaveCancelled ==
    ASSUME NEW m \in Recorder, Sound(m), m.worker = "leaving", m.cancelled
    PROVE  Kept(m, [m EXCEPT !.worker = "ended", !.partial = NoPartial])
<1> DEFINE n == [m EXCEPT !.worker = "ended", !.partial = NoPartial]
<1>1. n \in Recorder
  BY EmptySeq DEF Recorder, NoPartial, Partials
<1>2. /\ n.partial = NoPartial /\ n.held = m.held /\ n.queue = m.queue
      /\ n.shown = m.shown /\ n.cancelled = m.cancelled
      /\ n.worker = "ended" /\ n.error = m.error /\ n.status = m.status
      /\ n.sender = m.sender /\ n.dest = m.dest
  BY DEF Recorder, NoPartial, Partials
<1> HIDE DEF n
<1>3. Sound(n)
  BY <1>2 DEF Sound, Saving, NoPartial
<1>4. Done(m) <=> Done(n)
  BY <1>2 DEF Done, Sound, Saving, Looping
<1> QED
  BY <1>1, <1>2, <1>3, <1>4 DEF Kept, n

(* A whole one is finished.                                                  *)
LEMMA LeaveFinishing ==
    ASSUME NEW m \in Recorder, Sound(m), m.worker = "leaving", ~m.cancelled, m.partial.made
    PROVE  Kept(m, [m EXCEPT !.worker = "finishing", !.status = "finalizing"])
<1> DEFINE n == [m EXCEPT !.worker = "finishing", !.status = "finalizing"]
<1>1. n \in Recorder
  BY DEF Recorder, States
<1>2. /\ n.partial = m.partial /\ n.held = m.held /\ n.queue = m.queue
      /\ n.shown = m.shown /\ n.cancelled = m.cancelled
      /\ n.worker = "finishing" /\ n.error = m.error /\ n.status = "finalizing"
      /\ n.sender = m.sender /\ n.dest = m.dest
  BY DEF Recorder, States
<1> HIDE DEF n
<1>3. Sound(n)
  BY <1>2 DEF Sound, Saving, Looping, Whole
<1>4. Done(m) <=> Done(n)
  BY <1>2 DEF Done, Sound, Saving, Looping
<1> QED
  BY <1>1, <1>2, <1>3, <1>4 DEF Kept, n

(* One without a frame comes to nothing.                                     *)
LEMMA LeaveEmpty ==
    ASSUME NEW m \in Recorder, Sound(m), m.worker = "leaving", ~m.cancelled, ~m.partial.made
    PROVE  Kept(m, [m EXCEPT !.worker = "ended", !.status = "cancelled"])
<1> DEFINE n == [m EXCEPT !.worker = "ended", !.status = "cancelled"]
<1>1. n \in Recorder
  BY DEF Recorder, States
<1>2. /\ n.partial = m.partial /\ n.held = m.held /\ n.queue = m.queue
      /\ n.shown = m.shown /\ n.cancelled = m.cancelled
      /\ n.worker = "ended" /\ n.error = m.error /\ n.status = "cancelled"
      /\ n.sender = m.sender /\ n.dest = m.dest
  BY DEF Recorder, States
<1> HIDE DEF n
<1>3. Sound(n)
  <2>1. m.partial = NoPartial
    BY Sequences DEF Sound, NoPartial, Partials
  <2>2. m.shown = <<>>
    <3>1. (<<>> \o <<>>) \o <<>> = <<>>
      BY EmptySeq, ConcatEmptySeq
    <3> QED
      BY <2>1, <3>1 DEF Sound, Whole, NoPartial
  <2> QED
    BY <1>2, <2>1, <2>2 DEF Sound, Saving, Looping
<1>4. Done(m) <=> Done(n)
  BY <1>2 DEF Done, Sound, Saving, Looping
<1> QED
  BY <1>1, <1>2, <1>3, <1>4 DEF Kept, n

(* The encoder has closed the partial file.                                  *)
LEMMA FinishSound ==
    ASSUME NEW m \in Recorder, Sound(m), m.worker = "finishing"
    PROVE  Kept(m, [m EXCEPT !.worker = "publishing"])
<1> DEFINE n == [m EXCEPT !.worker = "publishing"]
<1>1. n \in Recorder
  BY DEF Recorder
<1>2. /\ n.partial = m.partial /\ n.held = m.held /\ n.queue = m.queue
      /\ n.shown = m.shown /\ n.cancelled = m.cancelled
      /\ n.worker = "publishing" /\ n.error = m.error /\ n.status = m.status
      /\ n.sender = m.sender /\ n.dest = m.dest
  BY DEF Recorder
<1> HIDE DEF n
<1>3. Sound(n)
  BY <1>2 DEF Sound, Saving, Looping, Whole
<1>4. Done(m) <=> Done(n)
  BY <1>2 DEF Done, Sound, Saving, Looping
<1> QED
  BY <1>1, <1>2, <1>3, <1>4 DEF Kept, n

(* A published recording is finished.                                        *)
LEMMA ShowFinishedSound ==
    ASSUME NEW m \in Recorder, Sound(m), m.worker = "published"
    PROVE  Kept(m, [m EXCEPT !.worker = "ended", !.status = "finished"])
<1> DEFINE n == [m EXCEPT !.worker = "ended", !.status = "finished"]
<1>1. n \in Recorder
  BY DEF Recorder, States
<1>2. /\ n.partial = m.partial /\ n.held = m.held /\ n.queue = m.queue
      /\ n.shown = m.shown /\ n.cancelled = m.cancelled
      /\ n.worker = "ended" /\ n.error = m.error /\ n.status = "finished"
      /\ n.sender = m.sender /\ n.dest = m.dest
  BY DEF Recorder, States
<1> HIDE DEF n
<1>3. Sound(n)
  BY <1>2 DEF Sound, Saving, Looping, Whole
<1>4. Done(m) <=> Done(n)
  BY <1>2 DEF Done, Sound, Saving, Looping
<1> QED
  BY <1>1, <1>2, <1>3, <1>4 DEF Kept, n

(* The partial file is there.                                                *)
LEMMA OpenSound ==
    ASSUME NEW m \in Recorder, Sound(m), m.worker = "opening"
    PROVE  Kept(m, [m EXCEPT !.worker = "opened", !.partial = [made |-> TRUE, frames |-> <<>>]])
<1> DEFINE n == [m EXCEPT !.worker = "opened", !.partial = [made |-> TRUE, frames |-> <<>>]]
<1>1. n \in Recorder
  BY EmptySeq DEF Recorder, Partials
<1>2. /\ n.partial = [made |-> TRUE, frames |-> <<>>] /\ n.held = m.held /\ n.queue = m.queue
      /\ n.shown = m.shown /\ n.cancelled = m.cancelled
      /\ n.worker = "opened" /\ n.error = m.error /\ n.status = m.status
      /\ n.sender = m.sender /\ n.dest = m.dest
  BY DEF Recorder, Partials
<1> HIDE DEF n
<1>3. Sound(n)
  <2>1. m.partial.frames = <<>> /\ n.partial.frames = <<>> /\ n.partial.made
    BY <1>2 DEF Sound
  <2>2. Whole(m) => Whole(n)
    BY <1>2, <2>1 DEF Whole
  <2> QED
    BY <1>2, <2>1, <2>2 DEF Sound, Saving, Looping
<1>4. Done(m) <=> Done(n)
  BY <1>2 DEF Done, Sound, Saving, Looping
<1> QED
  BY <1>1, <1>2, <1>3, <1>4 DEF Kept, n

(* It may be there although it could not be opened.                          *)
LEMMA OpenFailsSound ==
    ASSUME NEW m \in Recorder, Sound(m), m.worker = "opening",
           NEW p \in Partials, ~p.made => p.frames = <<>>
    PROVE  Kept(m, [Failed(m, "encoder") EXCEPT !.worker = "leaving", !.partial = p, !.held = <<>>])
<1> DEFINE n == [Failed(m, "encoder") EXCEPT !.worker = "leaving", !.partial = p, !.held = <<>>]
<1>1. n \in Recorder
  BY EmptySeq DEF Recorder, Failed, States, Errors
<1>2. /\ n.partial = p /\ n.held = <<>> /\ n.queue = m.queue
      /\ n.shown = m.shown /\ n.cancelled = TRUE
      /\ n.worker = "leaving" /\ n.error = "encoder" /\ n.status = "failed"
      /\ n.sender = m.sender /\ n.dest = m.dest
  BY DEF Recorder, Failed, States, Errors
<1> HIDE DEF n
<1>3. Sound(n)
  BY <1>2 DEF Sound, Saving
<1>4. Done(m) <=> Done(n)
  BY <1>2 DEF Done, Sound, Saving, Looping
<1> QED
  BY <1>1, <1>2, <1>3, <1>4 DEF Kept, n

(* A frame could not be written.                                             *)
LEMMA WriteFailsSound ==
    ASSUME NEW m \in Recorder, Sound(m), m.worker = "writing"
    PROVE  Kept(m, [Failed(m, "encoder") EXCEPT !.worker = "leaving", !.held = <<>>])
<1> DEFINE n == [Failed(m, "encoder") EXCEPT !.worker = "leaving", !.held = <<>>]
<1>1. n \in Recorder
  BY EmptySeq DEF Recorder, Failed, States, Errors
<1>2. /\ n.partial = m.partial /\ n.held = <<>> /\ n.queue = m.queue
      /\ n.shown = m.shown /\ n.cancelled = TRUE
      /\ n.worker = "leaving" /\ n.error = "encoder" /\ n.status = "failed"
      /\ n.sender = m.sender /\ n.dest = m.dest
  BY DEF Recorder, Failed, States, Errors
<1> HIDE DEF n
<1>3. Sound(n)
  BY <1>2 DEF Sound, Saving, Looping, Whole
<1>4. Done(m) <=> Done(n)
  BY <1>2 DEF Done, Sound, Saving, Looping
<1> QED
  BY <1>1, <1>2, <1>3, <1>4 DEF Kept, n

(* A recording could not be finished or published.                           *)
LEMMA SaveFailsSound ==
    ASSUME NEW m \in Recorder, Sound(m), m.worker \in {"finishing", "publishing"},
           NEW e \in Errors
    PROVE  Kept(m, [Failed(m, e) EXCEPT !.worker = "ended", !.partial = NoPartial])
<1> DEFINE n == [Failed(m, e) EXCEPT !.worker = "ended", !.partial = NoPartial]
<1>1. n \in Recorder
  BY EmptySeq DEF Recorder, Failed, States, Errors, NoPartial, Partials
<1>2. /\ n.partial = NoPartial /\ n.held = m.held /\ n.queue = m.queue
      /\ n.shown = m.shown /\ n.cancelled = TRUE
      /\ n.worker = "ended" /\ n.error = e /\ n.status = "failed"
      /\ n.sender = m.sender /\ n.dest = m.dest
  BY DEF Recorder, Failed, States, Errors, NoPartial, Partials
<1> HIDE DEF n
<1>3. Sound(n)
  BY <1>2 DEF Sound, Saving, Errors, NoPartial
<1>4. Done(m) <=> Done(n)
  BY <1>2 DEF Done, Sound, Saving, Looping
<1> QED
  BY <1>1, <1>2, <1>3, <1>4 DEF Kept, n

(* What is published is what was presented.                                  *)
LEMMA PublishSound ==
    ASSUME NEW m \in Recorder, Sound(m), m.worker = "publishing"
    PROVE  LET n == [m EXCEPT !.worker = "published", !.partial = NoPartial] IN
           /\ n \in Recorder /\ Sound(n) /\ n.dest = m.dest /\ n.sender = m.sender
           /\ ~n.cancelled /\ n.shown = m.shown /\ Done(n) /\ ~Done(m)
           /\ m.partial.frames = m.shown
<1> DEFINE n == [m EXCEPT !.worker = "published", !.partial = NoPartial]
<1>1. n \in Recorder
  BY EmptySeq DEF Recorder, NoPartial, Partials
<1>2. /\ n.partial = NoPartial /\ n.held = m.held /\ n.queue = m.queue
      /\ n.shown = m.shown /\ n.cancelled = m.cancelled /\ n.worker = "published"
      /\ n.error = m.error /\ n.status = m.status
      /\ n.sender = m.sender /\ n.dest = m.dest
  BY DEF Recorder
<1> HIDE DEF n
<1>3. ~m.cancelled
  BY DEF Sound, Saving
<1>4. Sound(n) /\ Done(n) /\ ~Done(m)
  BY <1>2, <1>3 DEF Sound, Done, Saving, Looping, NoPartial
<1>5. m.partial.frames = m.shown
  <2>1. (m.partial.frames \o <<>>) \o <<>> = m.shown
    BY <1>3 DEF Sound, Whole, Saving
  <2>2. \A p \in Seq(Frame) : (p \o <<>>) \o <<>> = p
    BY ConcatEmptySeq
  <2>3. m.partial.frames \in Seq(Frame)
    BY Sequences
  <2> QED
    BY <2>1, <2>2, <2>3, Zenon
<1> QED
  BY <1>1, <1>2, <1>3, <1>4, <1>5 DEF n

(* A recorder that is armed.                                                 *)
LEMMA ArmedSound ==
    ASSUME NEW d \in Destinations
    PROVE  LET m == Armed(d) IN
           /\ m \in Recorder /\ Sound(m) /\ m.dest = d /\ m.sender /\ ~Done(m)
<1>1. Armed(d) \in Recorder
  BY EmptySeq DEF Armed, Recorder, States, NoPartial, Partials
<1>2. (<<>> \o <<>>) \o <<>> = <<>>
  BY EmptySeq, ConcatEmptySeq
<1>3. Sound(Armed(d))
  BY <1>2 DEF Armed, Sound, Saving, Looping, Whole, NoPartial
<1> QED
  BY <1>1, <1>3 DEF Armed, Done

(* A recorder that is taken out of the slot.                                 *)
LEMMA ClosedSound ==
    ASSUME NEW m \in Recorder, Sound(m)
    PROVE  LET n == Closed(m) IN
           /\ n \in Recorder /\ Sound(n) /\ n.dest = m.dest /\ n.shown = m.shown
           /\ n.cancelled = m.cancelled /\ (Done(m) <=> Done(n))
           /\ n.worker = m.worker /\ Verdict(n) = Verdict(m)
<1> DEFINE n == Closed(m)
<1>1. n \in Recorder
  BY DEF Recorder, Closed
<1>2. /\ n.partial = m.partial /\ n.held = m.held /\ n.queue = m.queue
      /\ n.shown = m.shown /\ n.cancelled = m.cancelled /\ n.worker = m.worker
      /\ n.error = m.error /\ n.status = m.status /\ n.sender = FALSE /\ n.dest = m.dest
  BY DEF Recorder, Closed
<1> HIDE DEF n
<1>3. Sound(n)
  BY <1>2 DEF Sound, Whole
<1>4. (Done(m) <=> Done(n)) /\ Verdict(n) = Verdict(m)
  BY <1>2 DEF Done, Verdict
<1> QED
  BY <1>1, <1>2, <1>3, <1>4 DEF n

(* A recorder in the slot has failed or is still taking frames.              *)
LEMMA Holding ==
    ASSUME NEW m \in Recorder, Sound(m), m.sender \/ m.cancelled
    PROVE  /\ ~Done(m) /\ m.worker \notin Saving
           /\ m.cancelled => m.status \in {"failed", "recording"}
           /\ ~m.cancelled => /\ m.worker \in Looping \ {"leaving"}
                             /\ m.status \in {"armed", "recording"} /\ m.error = "none"
<1>1. CASE m.cancelled
  BY <1>1 DEF Done, Sound
<1>2. CASE ~m.cancelled
  <2>1. m.worker \notin Saving \cup {"leaving", "ended"}
    BY <1>2 DEF Sound
  <2>2. m.worker \in Looping \ {"leaving"}
    BY <2>1 DEF Recorder, Looping, Saving
  <2> QED
    BY <1>2, <2>1, <2>2 DEF Sound, Done, Looping, Saving
<1> QED
  BY <1>1, <1>2

(* What the actor makes of the recorder before it may have to close it.       *)
Presented(m, f) ==
    IF Refusal(m, f) = "none" THEN Submit(m, f) ELSE Fail(m, Refusal(m, f), TRUE)

(* A frame that is presented is queued, or the recorder has failed.          *)
LEMMA PresentSound ==
    ASSUME NEW m \in Recorder, Sound(m), m.sender \/ m.cancelled,
           NEW f \in Frame
    PROVE  LET n == [Presented(m, f) EXCEPT !.shown = Append(@, f)] IN
           /\ n \in Recorder /\ Sound(n) /\ n.dest = m.dest /\ (n.sender \/ n.cancelled)
           /\ Refusal(m, f) # "none" => n.cancelled
           /\ ~Done(m) /\ ~Done(n)
<1> DEFINE t == Append(m.shown, f)
           n == [Presented(m, f) EXCEPT !.shown = Append(@, f)]
<1>1. t \in Seq(Frame) /\ t = m.shown \o <<f>> /\ <<f>> \in Seq(Frame)
  BY Sequences, AppendProperties, AppendIsConcat
<1>2. ~Done(m) /\ m.worker \notin Saving
  BY Holding
<1>3. ASSUME NEW e \in Errors, Presented(m, f) = Failed(m, e)
      PROVE  n \in Recorder /\ Sound(n) /\ n.dest = m.dest /\ n.cancelled
  <2> DEFINE k == [Failed(m, e) EXCEPT !.shown = t]
  <2>1. n = k
    BY <1>3 DEF Failed, Recorder
  <2> HIDE DEF t
  <2>2. k \in Recorder
    <3>1. Failed(m, e) \in Recorder
      BY DEF Failed, Recorder, Errors, States
    <3> HIDE DEF Failed
    <3> QED
      BY <1>1, <3>1 DEF Recorder
  <2>3. /\ k.partial = m.partial /\ k.held = m.held /\ k.cancelled = TRUE
        /\ k.worker = m.worker /\ k.error = e /\ k.status = "failed" /\ k.dest = m.dest
    BY DEF Failed, Recorder
  <2> HIDE DEF k
  <2>4. Sound(k)
    BY <1>2, <2>3 DEF Sound, Errors
  <2> QED
    BY <2>1, <2>2, <2>3, <2>4
<1>4. ASSUME Presented(m, f) = m, m.cancelled
      PROVE  n \in Recorder /\ Sound(n) /\ n.dest = m.dest /\ n.cancelled
  <2> DEFINE k == [m EXCEPT !.shown = t]
  <2>1. n = k
    BY <1>4
  <2> HIDE DEF t
  <2>2. k \in Recorder
    BY <1>1 DEF Recorder
  <2>3. /\ k.partial = m.partial /\ k.held = m.held /\ k.cancelled = m.cancelled
        /\ k.worker = m.worker /\ k.error = m.error /\ k.status = m.status /\ k.dest = m.dest
    BY DEF Recorder
  <2> HIDE DEF k
  <2>4. Sound(k)
    BY <1>4, <2>3 DEF Sound
  <2> QED
    BY <1>4, <2>1, <2>2, <2>3, <2>4
<1>5. ASSUME ~m.cancelled, m.sender,
             Presented(m, f) = [m EXCEPT !.queue = Append(m.queue, f), !.size = f.size]
      PROVE  n \in Recorder /\ Sound(n) /\ n.dest = m.dest /\ n.sender
  <2> DEFINE q == Append(m.queue, f)
             z == f.size
             k == [m EXCEPT !.queue = q, !.size = z, !.shown = t]
  <2>1. n = k
    BY <1>5 DEF Recorder
  <2>2. q \in Seq(Frame) /\ q = m.queue \o <<f>> /\ z \in Sizes
    <3>1. m.queue \in Seq(Frame)
      BY Sequences
    <3>2. q \in Seq(Frame) /\ q = m.queue \o <<f>>
      BY <3>1, AppendProperties, AppendIsConcat
    <3> QED
      BY <3>2 DEF Frame
  <2> HIDE DEF t, q, z
  <2>3. k \in Recorder
    BY <1>1, <2>2 DEF Recorder
  <2>4. /\ k.partial = m.partial /\ k.held = m.held /\ k.queue = q
        /\ k.shown = t /\ k.cancelled = m.cancelled /\ k.worker = m.worker
        /\ k.error = m.error /\ k.status = m.status /\ k.sender = m.sender /\ k.dest = m.dest
    BY DEF Recorder
  <2> HIDE DEF k
  <2>5. Whole(k)
    <3>1. (m.partial.frames \o m.held) \o m.queue = m.shown
      BY <1>2, <1>5 DEF Sound, Saving, Looping, Whole
    <3>2. m.partial.frames \o m.held \in Seq(Frame)
      BY Sequences, ConcatProperties
    <3>3. \A p \in Seq(Frame) : p \o q = (p \o m.queue) \o <<f>>
      <4>1. m.queue \in Seq(Frame)
        BY Sequences
      <4>2. \A p, u \in Seq(Frame) : p \o (u \o <<f>>) = (p \o u) \o <<f>>
        BY <1>1, ConcatAssociative
      <4> QED
        BY <2>2, <4>1, <4>2, Zenon
    <3> QED
      BY <1>1, <2>2, <2>4, <3>1, <3>2, <3>3, Zenon DEF Whole
  <2>6. m.worker \in Looping \ {"leaving"} /\ m.status \in {"armed", "recording"}
    BY <1>5, Holding
  <2>7. Sound(k)
    BY <1>5, <2>4, <2>5, <2>6 DEF Sound, Looping, Saving
  <2> QED
    BY <1>5, <2>1, <2>3, <2>4, <2>7
<1>6. /\ n \in Recorder /\ Sound(n) /\ n.dest = m.dest
      /\ n.sender \/ n.cancelled
      /\ Refusal(m, f) # "none" => n.cancelled
  <2> HIDE DEF n
  <2>1. CASE Refusal(m, f) # "none"
    <3>1. Refusal(m, f) \in Errors /\ Presented(m, f) = Failed(m, Refusal(m, f))
      BY <2>1 DEF Refusal, Presented, Fail, Errors
    <3> QED
      BY <1>3, <3>1
  <2>2. CASE Refusal(m, f) = "none" /\ ~Accepting(m)
    <3>1. m.cancelled
      BY <2>2, Holding DEF Accepting
    <3> QED
      BY <1>4, <2>2, <3>1 DEF Submit, Presented
  <2>3. CASE Refusal(m, f) = "none" /\ Accepting(m)
    <3>1. ~m.cancelled /\ m.sender
      BY <2>3 DEF Accepting, Sound
    <3>2. Presented(m, f) = [m EXCEPT !.queue = Append(m.queue, f), !.size = f.size]
      BY <2>3 DEF Submit, Presented
    <3> QED
      BY <1>5, <2>3, <3>1, <3>2
  <2> QED
    BY <2>1, <2>2, <2>3
<1> QED
  BY <1>2, <1>6, Holding
-----------------------------------------------------------------------------
(* The steps of the system.                                                  *)

(* The types of the numbers and of what they number.                         *)
LEMMA Numbers ==
    ASSUME TypeOK
    PROVE  /\ armed \in Nat /\ MaxRecordings \in Nat /\ armed <= MaxRecordings
           /\ 1..armed \subseteq Recorders /\ 0 \notin Recorders
           /\ \A r \in Recorders : rec[r] \in Recorder
           /\ \A d \in Destinations : file[d] \in File
BY RecordingAssumption DEF TypeOK, Recorders

(* A step of the writer that leaves the files alone.                         *)
LEMMA WriterKeeps ==
    ASSUME IInv, NEW r \in Recorders, NEW n, Becomes(r, n), UNCHANGED file,
           rec[r].worker # "ended", r <= armed => Kept(rec[r], n)
    PROVE  IInv'
<1>1. TypeOK /\ RecordersInv /\ FilesInv /\ ControlInv /\ OwnerKept
  BY DEF IInv
<1>2. r \in 1..armed
  <2>1. r \in Nat /\ r >= 1
    BY DEF Recorders
  <2>2. ~(r > armed)
    BY <1>1 DEF RecordersInv, Unarmed, Armed
  <2> QED
    BY <1>1, <2>1, <2>2, Numbers
<1>3. /\ Kept(rec[r], n) /\ rec' = [rec EXCEPT ![r] = n] /\ rec'[r] = n
      /\ \A s \in Recorders : s # r => rec'[s] = rec[s]
      /\ rec' \in [Recorders -> Recorder]
  BY <1>1, <1>2, Numbers DEF Becomes, Kept, TypeOK
<1>4. /\ slot' = slot /\ last' = last /\ finalizing' = finalizing /\ completed' = completed
      /\ waiters' = waiters /\ call' = call /\ actor' = actor /\ retiring' = retiring
      /\ start' = start /\ pinned' = pinned /\ armed' = armed /\ file' = file /\ owned' = owned
  BY DEF Becomes, control
<1>5. TypeOK'
  BY <1>1, <1>3, <1>4 DEF TypeOK
<1>6. RecordersInv'
  <2>1. \A s \in 1..armed : rec'[s].dest \in Destinations /\ Sound(rec'[s])
    BY <1>1, <1>2, <1>3, Numbers DEF RecordersInv, Kept
  <2>2. \A s \in Recorders : s > armed => rec'[s] = Unarmed
    BY <1>1, <1>2, <1>3, Numbers DEF RecordersInv
  <2>3. slot # 0 => (rec'[slot].sender \/ rec'[slot].cancelled)
    BY <1>1, <1>2, <1>3, Numbers DEF RecordersInv, Kept, TypeOK
  <2> QED
    BY <1>4, <2>1, <2>2, <2>3 DEF RecordersInv, Sound, Whole
<1>7. FilesInv'
  <2>1. \A s \in 1..armed : Done(rec'[s]) => file[rec'[s].dest] = Output(s, rec'[s].shown)
    BY <1>1, <1>2, <1>3, Numbers DEF FilesInv, Kept
  <2>2. \A d \in Destinations : file[d].of # 0 =>
           file[d].of <= armed /\ rec'[file[d].of].dest = d /\ Done(rec'[file[d].of])
    BY <1>1, <1>2, <1>3, Numbers DEF FilesInv, Kept, File
  <2> QED
    BY <1>4, <2>1, <2>2 DEF FilesInv, Done
<1>8. ControlInv'
  <2>1. Waiting' = Waiting
    BY <1>4 DEF Waiting
  <2>2. completed.of # 0 =>
         rec'[completed.of].worker = "ended" /\ completed.verdict = Verdict(rec'[completed.of])
    <3>1. completed.of # 0 => completed.of \in Recorders /\ completed.of # r
      BY <1>1, Numbers DEF TypeOK, ControlInv
    <3> QED
      BY <1>1, <1>3, <3>1 DEF ControlInv
  <2>3. actor \in Errors => slot # 0 /\ rec'[slot].cancelled
    BY <1>1, <1>2, <1>3, Numbers DEF ControlInv, Kept, TypeOK
  <2> QED
    BY <1>1, <1>4, <2>1, <2>2, <2>3 DEF ControlInv, Verdict
<1>9. OwnerKept'
  BY <1>1, <1>4 DEF OwnerKept
<1> QED
  BY <1>5, <1>6, <1>7, <1>8, <1>9 DEF IInv

(* The steps of the writer but its publishing.                               *)
LEMMA WriterWorks ==
    ASSUME IInv, NEW r \in Recorders, Works(r), ~Publish(r)
    PROVE  IInv'
<1> DEFINE m == rec[r]
<1>0. m \in Recorder /\ (r <= armed => Sound(m))
  <2>1. r \in Nat /\ r >= 1
    BY DEF Recorders
  <2> QED
    BY <2>1, Numbers DEF IInv, RecordersInv
<1>1. CASE Disconnected(r)
  <2> DEFINE n == [m EXCEPT !.worker = "leaving"]
  <2>1. Becomes(r, n) /\ UNCHANGED file /\ m.worker # "ended"
    BY <1>1 DEF Disconnected, At
  <2>2. r <= armed => Kept(m, n)
    BY <1>0, <1>1, DisconnectedSound DEF Disconnected, At
  <2> HIDE DEF n
  <2> QED
    BY <2>1, <2>2, WriterKeeps
<1>2. CASE ShowRecording(r)
  <2> DEFINE n == [m EXCEPT !.worker = "writing", !.status = "recording"]
  <2>1. Becomes(r, n) /\ UNCHANGED file /\ m.worker # "ended"
    BY <1>2 DEF ShowRecording, At
  <2>2. r <= armed => Kept(m, n)
    BY <1>0, <1>2, ShowRecordingSound DEF ShowRecording, At
  <2> HIDE DEF n
  <2> QED
    BY <2>1, <2>2, WriterKeeps
<1>3. CASE WriteFails(r)
  <2> DEFINE n == [Failed(m, "encoder") EXCEPT !.worker = "leaving", !.held = <<>>]
  <2>1. Becomes(r, n) /\ UNCHANGED file /\ m.worker # "ended"
    BY <1>3 DEF WriteFails, At
  <2>2. r <= armed => Kept(m, n)
    BY <1>0, <1>3, WriteFailsSound DEF WriteFails, At
  <2> HIDE DEF n
  <2> QED
    BY <2>1, <2>2, WriterKeeps
<1>4. CASE Finish(r)
  <2> DEFINE n == [m EXCEPT !.worker = "publishing"]
  <2>1. Becomes(r, n) /\ UNCHANGED file /\ m.worker # "ended"
    BY <1>4 DEF Finish, At
  <2>2. r <= armed => Kept(m, n)
    BY <1>0, <1>4, FinishSound DEF Finish, At
  <2> HIDE DEF n
  <2> QED
    BY <2>1, <2>2, WriterKeeps
<1>5. CASE FinishFails(r)
  <2> DEFINE n == [Failed(m, "finalize") EXCEPT !.worker = "ended", !.partial = NoPartial]
  <2>1. Becomes(r, n) /\ UNCHANGED file /\ m.worker # "ended"
    BY <1>5 DEF FinishFails, At
  <2>2. r <= armed => Kept(m, n)
    BY <1>0, <1>5, SaveFailsSound DEF FinishFails, At, Errors
  <2> HIDE DEF n
  <2> QED
    BY <2>1, <2>2, WriterKeeps
<1>6. CASE ShowFinished(r)
  <2> DEFINE n == [m EXCEPT !.worker = "ended", !.status = "finished"]
  <2>1. Becomes(r, n) /\ UNCHANGED file /\ m.worker # "ended"
    BY <1>6 DEF ShowFinished, At
  <2>2. r <= armed => Kept(m, n)
    BY <1>0, <1>6, ShowFinishedSound DEF ShowFinished, At
  <2> HIDE DEF n
  <2> QED
    BY <2>1, <2>2, WriterKeeps
<1>7. CASE PublishFails(r)
  <2> DEFINE N(e) == [Failed(m, e) EXCEPT !.worker = "ended", !.partial = NoPartial]
  <2>1. PICK e \in {"exists", "finalize"} : Becomes(r, N(e))
    BY <1>7 DEF PublishFails
  <2>2. UNCHANGED file /\ m.worker = "publishing"
    BY <1>7 DEF PublishFails, At
  <2>3. e \in Errors
    BY DEF Errors
  <2>4. r <= armed => Kept(m, N(e))
    BY <1>0, <2>2, <2>3, SaveFailsSound
  <2> HIDE DEF N
  <2> QED
    BY <2>1, <2>2, <2>4, WriterKeeps
<1>8. CASE Open(r)
  <2> DEFINE n == [m EXCEPT !.worker = "opened", !.partial = [made |-> TRUE, frames |-> <<>>]]
  <2>1. Becomes(r, [m EXCEPT !.worker = "opened", !.partial.made = TRUE])
    BY <1>8 DEF Open
  <2>2. UNCHANGED file /\ m.worker = "opening"
    BY <1>8 DEF Open, At
  <2>3. r <= armed => [m.partial EXCEPT !.made = TRUE] = [made |-> TRUE, frames |-> <<>>]
    <3>1. r <= armed => m.partial \in Partials /\ m.partial.frames = <<>>
      BY <1>0, <2>2, Sequences DEF Sound
    <3>2. \A y \in Partials, b \in BOOLEAN :
             [y EXCEPT !.made = b] = [made |-> b, frames |-> y.frames]
      BY DEF Partials
    <3> QED
      BY <3>1, <3>2
  <2>4. r <= armed => [m EXCEPT !.worker = "opened", !.partial.made = TRUE] = n
    BY <1>0, <2>3 DEF Recorder
  <2>5. r <= armed => Kept(m, n)
    BY <1>0, <2>2, OpenSound
  <2> HIDE DEF n
  <2> QED
    BY <2>1, <2>2, <2>4, <2>5, WriterKeeps
<1>9. CASE OpenFails(r)
  <2>1. PICK made \in BOOLEAN :
          Becomes(r, [Failed(m, "encoder") EXCEPT
                          !.worker = "leaving", !.partial.made = made, !.held = <<>>])
    BY <1>9 DEF OpenFails
  <2> DEFINE p == [made |-> made, frames |-> <<>>]
             n == [Failed(m, "encoder") EXCEPT !.worker = "leaving", !.partial = p, !.held = <<>>]
  <2>2. UNCHANGED file /\ m.worker = "opening"
    BY <1>9 DEF OpenFails, At
  <2>3. r <= armed => [m.partial EXCEPT !.made = made] = p
    <3>1. r <= armed => m.partial \in Partials /\ m.partial.frames = <<>>
      BY <1>0, <2>2, Sequences DEF Sound
    <3>2. \A y \in Partials, b \in BOOLEAN :
             [y EXCEPT !.made = b] = [made |-> b, frames |-> y.frames]
      BY DEF Partials
    <3> QED
      BY <3>1, <3>2
  <2>4. r <= armed => [Failed(m, "encoder") EXCEPT
                          !.worker = "leaving", !.partial.made = made, !.held = <<>>] = n
    BY <1>0, <2>3 DEF Recorder, Failed
  <2>5. p \in Partials /\ p.frames = <<>>
    BY EmptySeq DEF Partials
  <2>6. r <= armed => Kept(m, n)
    BY <1>0, <2>2, <2>5, OpenFailsSound
  <2> HIDE DEF n
  <2> QED
    BY <2>1, <2>2, <2>4, <2>6, WriterKeeps
<1>10. CASE Leave(r)
  <2>1. UNCHANGED file /\ m.worker = "leaving"
    BY <1>10 DEF Leave, At
  <2>2. CASE m.cancelled
    <3> DEFINE n == [m EXCEPT !.worker = "ended", !.partial = NoPartial]
    <3>1. Becomes(r, n)
      BY <1>10, <2>2 DEF Leave
    <3>2. r <= armed => Kept(m, n)
      BY <1>0, <2>1, <2>2, LeaveCancelled
    <3> HIDE DEF n
    <3> QED
      BY <2>1, <3>1, <3>2, WriterKeeps
  <2>3. CASE ~m.cancelled /\ m.partial.made
    <3> DEFINE n == [m EXCEPT !.worker = "finishing", !.status = "finalizing"]
    <3>1. Becomes(r, n)
      BY <1>10, <2>3 DEF Leave
    <3>2. r <= armed => Kept(m, n)
      BY <1>0, <2>1, <2>3, LeaveFinishing
    <3> HIDE DEF n
    <3> QED
      BY <2>1, <3>1, <3>2, WriterKeeps
  <2>4. CASE ~m.cancelled /\ ~m.partial.made
    <3> DEFINE n == [m EXCEPT !.worker = "ended", !.status = "cancelled"]
    <3>1. Becomes(r, n)
      BY <1>10, <2>4 DEF Leave
    <3>2. r <= armed => Kept(m, n)
      BY <1>0, <2>1, <2>4, LeaveEmpty
    <3> HIDE DEF n
    <3> QED
      BY <2>1, <3>1, <3>2, WriterKeeps
  <2> QED
    BY <2>2, <2>3, <2>4
<1>11. CASE Receive(r)
  <2>1. UNCHANGED file /\ m.worker = "receiving" /\ m.queue # <<>>
    BY <1>11 DEF Receive, At
  <2>2. m.queue \in Seq(Frame)
    BY <1>0, Sequences
  <2>3. Head(m.queue) \in Frame /\ Tail(m.queue) \in Seq(Frame)
        /\ m.queue = <<Head(m.queue)>> \o Tail(m.queue)
    BY <2>1, <2>2, HeadAndTail
  <2>4. CASE m.cancelled
    <3> DEFINE n == [m EXCEPT !.queue = Tail(m.queue), !.held = <<>>, !.worker = "leaving"]
    <3>1. Becomes(r, n)
      BY <1>11, <2>4 DEF Receive
    <3>2. r <= armed => Kept(m, n)
      BY <1>0, <2>1, <2>3, <2>4, DropSound
    <3> HIDE DEF n
    <3> QED
      BY <2>1, <3>1, <3>2, WriterKeeps
  <2>5. CASE ~m.cancelled
    <3> DEFINE w == IF m.partial.made THEN "writing" ELSE "opening"
               n == [m EXCEPT !.queue = Tail(m.queue), !.held = <<Head(m.queue)>>, !.worker = w]
    <3>1. Becomes(r, n)
      BY <1>11, <2>5 DEF Receive
    <3>2. w \in {"writing", "opening"} /\ ((w = "writing") <=> m.partial.made)
      OBVIOUS
    <3> HIDE DEF w
    <3>3. r <= armed => Kept(m, n)
      BY <1>0, <2>1, <2>3, <2>5, <3>2, TakeSound
    <3> HIDE DEF n
    <3> QED
      BY <2>1, <3>1, <3>3, WriterKeeps
  <2> QED
    BY <2>4, <2>5
<1>12. CASE Write(r)
  <2> DEFINE f == Head(m.held)
             n == [m EXCEPT !.partial.frames = Append(m.partial.frames, f),
                            !.held = <<>>, !.worker = "receiving"]
  <2>1. Becomes(r, n) /\ UNCHANGED file /\ m.worker = "writing"
    BY <1>12 DEF Write, At
  <2>2. r <= armed => f \in Frame /\ m.held = <<f>>
    <3>1. r <= armed => Len(m.held) = 1
      BY <1>0, <2>1 DEF Sound
    <3>2. m.held \in Seq(Frame)
      BY <1>0, Sequences
    <3> QED
      BY <3>1, <3>2, OneHeld
  <2> HIDE DEF f
  <2>3. r <= armed => Kept(m, n)
    BY <1>0, <2>1, <2>2, WriteSound
  <2> HIDE DEF n
  <2> QED
    BY <2>1, <2>3, WriterKeeps
<1> QED
  BY <1>1, <1>2, <1>3, <1>4, <1>5, <1>6, <1>7, <1>8, <1>9, <1>10, <1>11, <1>12 DEF Works

(* Publishing: nothing stood at the destination, so no other recorder is done *)
(* there.                                                                    *)
LEMMA PublishKeeps ==
    ASSUME IInv, NEW r \in Recorders, Publish(r)
    PROVE  IInv'
<1> DEFINE m == rec[r]
           n == [m EXCEPT !.worker = "published", !.partial = NoPartial]
<1>1. TypeOK /\ RecordersInv /\ FilesInv /\ ControlInv /\ OwnerKept
  BY DEF IInv
<1>2. /\ m.worker = "publishing" /\ file[m.dest] = NoFile
      /\ Becomes(r, n) /\ file' = [file EXCEPT ![m.dest] = Output(r, m.partial.frames)]
  BY DEF Publish, At
<1>3. r \in 1..armed
  <2>1. r \in Nat /\ r >= 1
    BY DEF Recorders
  <2>2. ~(r > armed)
    BY <1>1, <1>2 DEF RecordersInv, Unarmed, Armed
  <2> QED
    BY <1>1, <2>1, <2>2, Numbers
<1>4. m \in Recorder /\ Sound(m) /\ m.dest \in Destinations
  BY <1>1, <1>3, Numbers DEF RecordersInv
<1>5. /\ n \in Recorder /\ Sound(n) /\ n.dest = m.dest /\ n.sender = m.sender
      /\ ~n.cancelled /\ n.shown = m.shown /\ Done(n) /\ ~Done(m)
      /\ m.partial.frames = m.shown
  BY <1>2, <1>4, PublishSound
<1> HIDE DEF n
<1>6. /\ rec'[r] = n /\ \A s \in Recorders : s # r => rec'[s] = rec[s]
      /\ rec' \in [Recorders -> Recorder]
  BY <1>1, <1>2, <1>5 DEF Becomes, TypeOK
<1>7. Output(r, m.shown) \in File /\ Output(r, m.shown).of = r /\ Output(r, m.shown) # NoFile
  BY <1>3, <1>4, Sequences DEF Output, File, NoFile
<1>8. /\ file' \in [Destinations -> File] /\ file'[m.dest] = Output(r, m.shown)
      /\ \A d \in Destinations : d # m.dest => file'[d] = file[d]
  BY <1>1, <1>2, <1>4, <1>5, <1>7 DEF TypeOK
<1>9. /\ slot' = slot /\ last' = last /\ finalizing' = finalizing /\ completed' = completed
      /\ waiters' = waiters /\ call' = call /\ actor' = actor /\ retiring' = retiring
      /\ start' = start /\ pinned' = pinned /\ armed' = armed /\ owned' = owned
  BY <1>2 DEF Becomes, control
<1>10. TypeOK'
  BY <1>1, <1>6, <1>8, <1>9 DEF TypeOK
<1>11. RecordersInv'
  <2>1. \A s \in 1..armed : rec'[s].dest \in Destinations /\ Sound(rec'[s])
    BY <1>1, <1>3, <1>4, <1>5, <1>6, Numbers DEF RecordersInv
  <2>2. \A s \in Recorders : s > armed => rec'[s] = Unarmed
    BY <1>1, <1>3, <1>6, Numbers DEF RecordersInv
  <2>3. slot # 0 => (rec'[slot].sender \/ rec'[slot].cancelled)
    <3>1. slot # r
      BY <1>1, <1>2, <1>3, <1>4, Holding DEF RecordersInv, Saving
    <3> QED
      BY <1>1, <1>6, <3>1, Numbers DEF RecordersInv, TypeOK
  <2> QED
    BY <1>9, <2>1, <2>2, <2>3 DEF RecordersInv, Sound, Whole
<1>12. FilesInv'
  <2>1. \A s \in 1..armed : Done(rec'[s]) => file'[rec'[s].dest] = Output(s, rec'[s].shown)
    <3> SUFFICES ASSUME NEW s \in 1..armed, Done(rec'[s])
        PROVE  file'[rec'[s].dest] = Output(s, rec'[s].shown)
      OBVIOUS
    <3>1. CASE s = r
      BY <1>5, <1>6, <1>8, <3>1
    <3>2. CASE s # r
      <4>1. rec'[s] = rec[s] /\ rec[s].dest \in Destinations /\ s \in Nat /\ s # 0
        BY <1>1, <1>6, <3>2, Numbers DEF RecordersInv
      <4>2. file[rec[s].dest] = Output(s, rec[s].shown)
        BY <1>1, <4>1 DEF FilesInv
      <4>3. rec[s].dest # m.dest
        BY <1>2, <4>1, <4>2 DEF Output, NoFile
      <4> QED
        BY <1>8, <4>1, <4>2, <4>3
    <3> QED
      BY <3>1, <3>2
  <2>2. \A d \in Destinations : file'[d].of # 0 =>
           file'[d].of <= armed /\ rec'[file'[d].of].dest = d /\ Done(rec'[file'[d].of])
    <3> SUFFICES ASSUME NEW d \in Destinations, file'[d].of # 0
        PROVE  file'[d].of <= armed /\ rec'[file'[d].of].dest = d /\ Done(rec'[file'[d].of])
      OBVIOUS
    <3>1. CASE d = m.dest
      BY <1>3, <1>5, <1>6, <1>7, <1>8, <3>1
    <3>2. CASE d # m.dest
      <4>1. /\ file'[d] = file[d] /\ file[d].of \in Nat /\ file[d].of <= armed
            /\ rec[file[d].of].dest = d /\ Done(rec[file[d].of])
        BY <1>1, <1>8, <3>2, Numbers DEF FilesInv, File
      <4>2. file[d].of \in Recorders /\ file[d].of # r
        BY <1>1, <1>5, <4>1, Numbers DEF Recorders
      <4> QED
        BY <1>6, <4>1, <4>2
    <3> QED
      BY <3>1, <3>2
  <2> QED
    BY <1>9, <2>1, <2>2 DEF FilesInv, Done
<1>13. ControlInv'
  <2>1. Waiting' = Waiting
    BY <1>9 DEF Waiting
  <2>2. completed.of # 0 =>
         rec'[completed.of].worker = "ended" /\ completed.verdict = Verdict(rec'[completed.of])
    <3>1. completed.of # 0 => completed.of \in Recorders /\ completed.of # r
      BY <1>1, <1>2, Numbers DEF TypeOK, ControlInv
    <3> QED
      BY <1>1, <1>6, <3>1 DEF ControlInv
  <2>3. actor \in Errors => slot # 0 /\ rec'[slot].cancelled
    <3>1. slot # 0 => slot # r
      BY <1>1, <1>2, <1>3, <1>4, Holding DEF RecordersInv, Saving
    <3> QED
      BY <1>1, <1>6, <3>1, Numbers DEF ControlInv, TypeOK
  <2> QED
    BY <1>1, <1>9, <2>1, <2>2, <2>3 DEF ControlInv, Verdict
<1>14. OwnerKept'
  <2>1. \A d \in owned : d \in Destinations /\ d # m.dest
    BY <1>1, <1>2 DEF OwnerKept, OwnersFile, NoFile, TypeOK
  <2> QED
    BY <1>1, <1>8, <1>9, <2>1 DEF OwnerKept
<1> QED
  BY <1>10, <1>11, <1>12, <1>13, <1>14 DEF IInv
-----------------------------------------------------------------------------
(* The steps of the controller, its callers and the owner.                   *)

(* The recorders and the files as they are.                                  *)
LEMMA StandsAs ==
    ASSUME RecordersInv, FilesInv, UNCHANGED <<rec, file, armed, slot>>
    PROVE  RecordersInv' /\ FilesInv'
<1>1. rec' = rec /\ file' = file /\ armed' = armed /\ slot' = slot
  OBVIOUS
<1>2. RecordersInv'
  <2>1. \A r \in 1..armed : rec'[r].dest \in Destinations /\ Sound(rec'[r])
    BY <1>1 DEF RecordersInv
  <2>2. \A r \in Recorders : r > armed => rec'[r] = Unarmed
    BY <1>1 DEF RecordersInv
  <2>3. slot # 0 => (rec'[slot].sender \/ rec'[slot].cancelled)
    BY <1>1 DEF RecordersInv
  <2> QED
    BY <1>1, <2>1, <2>2, <2>3 DEF RecordersInv, Sound, Whole
<1>3. FilesInv'
  BY <1>1 DEF FilesInv, Done
<1> QED
  BY <1>2, <1>3

(* Those who wait are finitely many.                                         *)
LEMMA WaitingFinite == IsFiniteSet(Waiting) /\ Cardinality(Waiting) \in Nat
<1>1. IsFiniteSet(Callers)
  BY RecordingAssumption, FS_AddElement DEF Callers
<1> QED
  BY <1>1, FS_Subset, FS_CardinalityType DEF Waiting

(* Requests, refusals and looks.                                             *)
LEMMA RequestsKeep ==
    ASSUME IInv, (\E d \in Destinations : AskStart(d)) \/ ArmRefused \/ StartFails
    PROVE  IInv'
<1>1. TypeOK /\ RecordersInv /\ FilesInv /\ ControlInv /\ OwnerKept
  BY DEF IInv
<1>2. /\ slot' = slot /\ last' = last /\ finalizing' = finalizing /\ completed' = completed
      /\ waiters' = waiters /\ call' = call /\ armed' = armed /\ rec' = rec
      /\ file' = file /\ owned' = owned
  BY DEF AskStart, ArmRefused, StartFails, control
<1>3. Waiting' = Waiting
  BY <1>2 DEF Waiting
<1>4. RecordersInv' /\ FilesInv' /\ OwnerKept'
  BY <1>1, <1>2, StandsAs DEF OwnerKept
<1>5. CASE \E d \in Destinations : AskStart(d)
  <2>1. /\ start' \in Destinations /\ pinned' = TRUE /\ actor' = actor /\ retiring' = retiring
        /\ armed < MaxRecordings /\ start = "none"
    BY <1>5 DEF AskStart
  <2>2. TypeOK'
    BY <1>1, <1>2, <2>1 DEF TypeOK
  <2>3. ControlInv'
    BY <1>1, <1>2, <1>3, <2>1 DEF ControlInv, Verdict
  <2> QED
    BY <1>4, <2>2, <2>3 DEF IInv
<1>6. CASE ArmRefused
  <2>1. /\ start' = "none" /\ pinned' = FALSE /\ actor' = actor /\ retiring' = retiring
        /\ actor = "running"
    BY <1>6 DEF ArmRefused, Refuse
  <2>2. TypeOK'
    BY <1>1, <1>2, <2>1 DEF TypeOK
  <2>3. ControlInv'
    BY <1>1, <1>2, <1>3, <2>1 DEF ControlInv, Verdict
  <2> QED
    BY <1>4, <2>2, <2>3 DEF IInv
<1>7. CASE StartFails
  <2>1. start' = "none" /\ pinned' = FALSE /\ actor' = "running" /\ retiring' = 0
    BY <1>7 DEF StartFails, Refuse
  <2>2. TypeOK'
    <3>1. 0 \in 0..armed
      BY <1>1, Numbers
    <3> QED
      BY <1>1, <1>2, <2>1, <3>1 DEF TypeOK
  <2>3. ControlInv'
    BY <1>1, <1>2, <1>3, <2>1 DEF ControlInv, Verdict, Errors
  <2> QED
    BY <1>4, <2>2, <2>3 DEF IInv
<1> QED
  BY <1>5, <1>6, <1>7

(* The recorder in the slot.                                                 *)
LEMMA InSlot ==
    ASSUME IInv, slot # 0
    PROVE  /\ slot \in 1..armed /\ slot \in Recorders
           /\ rec[slot] \in Recorder /\ Sound(rec[slot])
           /\ rec[slot].sender \/ rec[slot].cancelled
           /\ rec[slot].dest \in Destinations
           /\ finalizing = 0 /\ completed.of = 0 /\ retiring = 0 /\ actor # "arming"
<1>1. TypeOK /\ RecordersInv /\ ControlInv
  BY DEF IInv
<1>2. slot \in 1..armed /\ slot \in Recorders
  BY <1>1, Numbers DEF TypeOK
<1> QED
  BY <1>1, <1>2, Numbers DEF RecordersInv, ControlInv

(* A look at the status of a recorder in the slot is no outcome.             *)
LEMMA PollKeeps ==
    ASSUME IInv, Poll
    PROVE  IInv'
<1>1. TypeOK /\ RecordersInv /\ FilesInv /\ ControlInv /\ OwnerKept
  BY DEF IInv
<1>2. /\ slot' = slot /\ finalizing' = finalizing /\ completed' = completed
      /\ waiters' = waiters /\ call' = call /\ armed' = armed /\ rec' = rec
      /\ file' = file /\ owned' = owned /\ actor' = actor /\ retiring' = retiring /\ start' = start
  BY DEF Poll
<1>3. pinned' \in BOOLEAN
  BY DEF Poll
<1>4. last' \in States /\ (last' \in {"finished", "cancelled"} => completed.of # 0)
  <2>1. CASE slot = 0
    BY <1>1, <2>1 DEF Poll, TypeOK, ControlInv
  <2>2. CASE slot # 0
    <3>1. last' = rec[slot].status
      BY <2>2 DEF Poll
    <3>2. rec[slot] \in Recorder /\ rec[slot].status \in {"failed", "armed", "recording"}
      BY <2>2, InSlot, Holding
    <3> QED
      BY <3>1, <3>2 DEF States
  <2> QED
    BY <2>1, <2>2
<1>5. Waiting' = Waiting
  BY <1>2 DEF Waiting
<1>6. RecordersInv' /\ FilesInv' /\ OwnerKept'
  BY <1>1, <1>2, StandsAs DEF OwnerKept
<1>7. TypeOK'
  BY <1>1, <1>2, <1>3, <1>4 DEF TypeOK
<1>8. ControlInv'
  BY <1>1, <1>2, <1>4, <1>5 DEF ControlInv, Verdict
<1> QED
  BY <1>6, <1>7, <1>8 DEF IInv

(* A frame that is presented.                                                *)
LEMMA PresentKeeps ==
    ASSUME IInv, NEW size \in Sizes, Present(size)
    PROVE  IInv'
<1> DEFINE m == rec[slot]
           f == [nr |-> Len(m.shown) + 1, size |-> size]
           n == [Presented(m, f) EXCEPT !.shown = Append(@, f)]
<1>1. TypeOK /\ RecordersInv /\ FilesInv /\ ControlInv /\ OwnerKept
  BY DEF IInv
<1>2. /\ slot # 0 /\ rec' = [rec EXCEPT ![slot] = n]
      /\ IF Refusal(m, f) = "none"
         THEN last' \in {"failed", Presented(m, f).status} /\ actor' = "running"
         ELSE last' = last /\ actor' = Refusal(m, f)
      /\ actor = "running"
      /\ slot' = slot /\ finalizing' = finalizing /\ completed' = completed
      /\ waiters' = waiters /\ call' = call /\ armed' = armed /\ pinned' = pinned
      /\ file' = file /\ owned' = owned /\ retiring' = retiring /\ start' = start
  BY DEF Present, Presented
<1>3. /\ slot \in 1..armed /\ slot \in Recorders /\ m \in Recorder /\ Sound(m)
      /\ m.sender \/ m.cancelled
      /\ m.dest \in Destinations /\ completed.of = 0
  BY <1>2, InSlot
<1>4. f \in Frame
  BY <1>3, Sequences DEF Frame
<1>5. /\ n \in Recorder /\ Sound(n) /\ n.dest = m.dest /\ (n.sender \/ n.cancelled)
      /\ Refusal(m, f) # "none" => n.cancelled
      /\ ~Done(m) /\ ~Done(n)
  BY <1>3, <1>4, PresentSound
<1>6. /\ n.status = Presented(m, f).status
      /\ actor' \in {"running", "frame", "overflow"}
      /\ actor' # "running" => actor' = Refusal(m, f) /\ Refusal(m, f) # "none"
  <2>1. n.status = Presented(m, f).status
    BY <1>3 DEF Submit, Presented, Fail, Failed, Recorder
  <2>2. Refusal(m, f) \in {"none", "frame", "overflow"}
    BY DEF Refusal
  <2> HIDE DEF m, f, n
  <2> QED
    BY <1>2, <2>1, <2>2
<1> HIDE DEF n
<1>7. last' \in States /\ (last' \in {"finished", "cancelled"} => last' = last)
  <2>1. n.status \in {"failed", "recording", "armed"}
    BY <1>5, Holding
  <2> QED
    BY <1>1, <1>2, <1>6, <2>1 DEF States, TypeOK
<1>8. /\ rec'[slot] = n /\ \A s \in Recorders : s # slot => rec'[s] = rec[s]
      /\ rec' \in [Recorders -> Recorder]
  BY <1>1, <1>2, <1>3, <1>5 DEF TypeOK
<1>9. TypeOK'
  BY <1>1, <1>2, <1>6, <1>7, <1>8 DEF TypeOK, Errors
<1>10. RecordersInv'
  <2>1. \A s \in 1..armed : rec'[s].dest \in Destinations /\ Sound(rec'[s])
    BY <1>1, <1>3, <1>5, <1>8, Numbers DEF RecordersInv
  <2>2. \A s \in Recorders : s > armed => rec'[s] = Unarmed
    BY <1>1, <1>3, <1>8, Numbers DEF RecordersInv
  <2> QED
    BY <1>2, <1>5, <1>8, <2>1, <2>2 DEF RecordersInv, Sound, Whole
<1>11. FilesInv'
  <2>1. \A s \in 1..armed : Done(rec'[s]) => file[rec'[s].dest] = Output(s, rec'[s].shown)
    BY <1>1, <1>3, <1>5, <1>8, Numbers DEF FilesInv
  <2>2. \A d \in Destinations : file[d].of # 0 =>
           file[d].of <= armed /\ rec'[file[d].of].dest = d /\ Done(rec'[file[d].of])
    BY <1>1, <1>3, <1>5, <1>8, Numbers DEF FilesInv, File, Recorders
  <2> QED
    BY <1>2, <2>1, <2>2 DEF FilesInv, Done
<1>12. ControlInv'
  <2>1. Waiting' = Waiting
    BY <1>2 DEF Waiting
  <2>2. actor' \in Errors => slot' # 0 /\ rec'[slot'].cancelled
    BY <1>2, <1>5, <1>6, <1>8 DEF Errors
  <2> QED
    BY <1>1, <1>2, <1>3, <1>6, <1>7, <2>1, <2>2 DEF ControlInv
<1>13. OwnerKept'
  BY <1>1, <1>2 DEF OwnerKept
<1> QED
  BY <1>9, <1>10, <1>11, <1>12, <1>13 DEF IInv

(* The rest of a fail: the recorder was told before, so nothing is lost.      *)
LEMMA FailEndsKeeps ==
    ASSUME IInv, FailEnds
    PROVE  IInv'
<1> DEFINE n == Closed(rec[slot])
<1>1. TypeOK /\ RecordersInv /\ FilesInv /\ ControlInv /\ OwnerKept
  BY DEF IInv
<1>2. /\ actor \in Errors /\ rec' = [rec EXCEPT ![slot] = n]
      /\ last' = "failed" /\ actor' = "running"
      /\ slot' = slot /\ finalizing' = finalizing /\ completed' = completed
      /\ waiters' = waiters /\ call' = call /\ armed' = armed /\ pinned' = pinned
      /\ file' = file /\ owned' = owned /\ retiring' = retiring /\ start' = start
  BY DEF FailEnds, Fail
<1>3. slot # 0 /\ rec[slot].cancelled
  BY <1>1, <1>2 DEF ControlInv
<1>4. /\ slot \in 1..armed /\ slot \in Recorders
      /\ rec[slot] \in Recorder /\ Sound(rec[slot])
      /\ rec[slot].dest \in Destinations /\ completed.of = 0
  BY <1>3, InSlot
<1>5. /\ n \in Recorder /\ Sound(n) /\ n.dest = rec[slot].dest /\ n.shown = rec[slot].shown
      /\ n.cancelled /\ (Done(rec[slot]) <=> Done(n))
  BY <1>3, <1>4, ClosedSound
<1> HIDE DEF n
<1>6. /\ rec'[slot] = n /\ \A s \in Recorders : s # slot => rec'[s] = rec[s]
      /\ rec' \in [Recorders -> Recorder]
  BY <1>1, <1>2, <1>4, <1>5 DEF TypeOK
<1>7. TypeOK'
  BY <1>1, <1>2, <1>6 DEF TypeOK, States
<1>8. RecordersInv'
  <2>1. \A s \in 1..armed : rec'[s].dest \in Destinations /\ Sound(rec'[s])
    BY <1>1, <1>4, <1>5, <1>6, Numbers DEF RecordersInv
  <2>2. \A s \in Recorders : s > armed => rec'[s] = Unarmed
    BY <1>1, <1>4, <1>6, Numbers DEF RecordersInv
  <2> QED
    BY <1>2, <1>5, <1>6, <2>1, <2>2 DEF RecordersInv, Sound, Whole
<1>9. FilesInv'
  <2>1. \A s \in 1..armed : Done(rec'[s]) => file[rec'[s].dest] = Output(s, rec'[s].shown)
    BY <1>1, <1>4, <1>5, <1>6, Numbers DEF FilesInv
  <2>2. \A d \in Destinations : file[d].of # 0 =>
           file[d].of <= armed /\ rec'[file[d].of].dest = d /\ Done(rec'[file[d].of])
    BY <1>1, <1>4, <1>5, <1>6, Numbers DEF FilesInv, File, Recorders
  <2> QED
    BY <1>2, <2>1, <2>2 DEF FilesInv, Done
<1>10. ControlInv'
  <2>1. Waiting' = Waiting
    BY <1>2 DEF Waiting
  <2>2. actor' \notin Errors /\ actor # "arming"
    BY <1>2 DEF Errors
  <2> QED
    BY <1>1, <1>2, <1>4, <2>1, <2>2 DEF ControlInv
<1>11. OwnerKept'
  BY <1>1, <1>2 DEF OwnerKept
<1> QED
  BY <1>7, <1>8, <1>9, <1>10, <1>11 DEF IInv

(* The owner's file takes the place of none.                                 *)
LEMMA OwnerKeeps ==
    ASSUME IInv, NEW d \in Destinations, OwnerWrites(d)
    PROVE  IInv'
<1>1. TypeOK /\ RecordersInv /\ FilesInv /\ ControlInv /\ OwnerKept
  BY DEF IInv
<1>2. /\ file[d] = NoFile /\ file' = [file EXCEPT ![d] = OwnersFile] /\ owned' = owned \cup {d}
      /\ slot' = slot /\ last' = last /\ finalizing' = finalizing /\ completed' = completed
      /\ waiters' = waiters /\ call' = call /\ armed' = armed /\ pinned' = pinned /\ rec' = rec
      /\ actor' = actor /\ retiring' = retiring /\ start' = start
  BY DEF OwnerWrites, control
<1>3. OwnersFile \in File /\ OwnersFile.of = 0
  BY EmptySeq DEF OwnersFile, File
<1>4. /\ file' \in [Destinations -> File] /\ file'[d] = OwnersFile
      /\ \A e \in Destinations : e # d => file'[e] = file[e]
  BY <1>1, <1>2, <1>3 DEF TypeOK
<1>5. TypeOK'
  BY <1>1, <1>2, <1>4 DEF TypeOK
<1>6. RecordersInv'
  BY <1>1, <1>2 DEF RecordersInv, Sound, Whole
<1>7. FilesInv'
  <2>1. \A s \in 1..armed : Done(rec[s]) => file'[rec[s].dest] = Output(s, rec[s].shown)
    <3> SUFFICES ASSUME NEW s \in 1..armed, Done(rec[s])
        PROVE  file'[rec[s].dest] = Output(s, rec[s].shown)
      OBVIOUS
    <3>1. rec[s].dest \in Destinations /\ file[rec[s].dest] = Output(s, rec[s].shown)
      BY <1>1 DEF FilesInv, RecordersInv
    <3>2. rec[s].dest # d
      BY <1>2, <3>1 DEF NoFile, Output
    <3> QED
      BY <1>4, <3>1, <3>2
  <2>2. \A e \in Destinations : file'[e].of # 0 =>
           file'[e].of <= armed /\ rec[file'[e].of].dest = e /\ Done(rec[file'[e].of])
    BY <1>1, <1>3, <1>4 DEF FilesInv
  <2> QED
    BY <1>2, <2>1, <2>2 DEF FilesInv, Done
<1>8. ControlInv'
  <2>1. Waiting' = Waiting
    BY <1>2 DEF Waiting
  <2> QED
    BY <1>1, <1>2, <2>1 DEF ControlInv, Verdict
<1>9. OwnerKept'
  BY <1>1, <1>2, <1>4 DEF OwnerKept, TypeOK
<1> QED
  BY <1>5, <1>6, <1>7, <1>8, <1>9 DEF IInv

(* Arming: nobody waits for a finalization, and what is retired has failed.   *)
LEMMA RetireKeeps ==
    ASSUME IInv, Retire
    PROVE  IInv'
<1>1. TypeOK /\ RecordersInv /\ FilesInv /\ ControlInv /\ OwnerKept
  BY DEF IInv
<1>2. /\ start # "none" /\ MayArm /\ actor = "running" /\ actor' = "arming"
      /\ slot' = 0 /\ retiring' = slot
      /\ last' = last /\ finalizing' = finalizing /\ completed' = completed
      /\ waiters' = waiters /\ call' = call /\ armed' = armed /\ pinned' = pinned
      /\ file' = file /\ owned' = owned /\ start' = start
  BY DEF Retire
<1>0. rec' = [r \in Recorders |->
                IF r = slot THEN Closed([rec[r] EXCEPT !.cancelled = TRUE]) ELSE rec[r]]
  BY DEF Retire
<1>3. \A r \in Recorders : rec'[r] = IF r = slot THEN Closed(rec[r]) ELSE rec[r]
  <2> SUFFICES ASSUME NEW r \in Recorders, r = slot
      PROVE  [rec[r] EXCEPT !.cancelled = TRUE] = rec[r]
    BY <1>0
  <2>1. slot # 0
    BY <1>1, Numbers
  <2>2. rec[r] \in Recorder /\ Sound(rec[r]) /\ (rec[r].sender \/ rec[r].cancelled)
    BY <2>1, InSlot
  <2>3. ~Active(rec[r].status)
    BY <1>2, <2>1 DEF MayArm
  <2>4. rec[r].cancelled = TRUE
    BY <2>2, <2>3, Holding DEF Active, Recorder
  <2> QED
    BY <2>2, <2>4 DEF Recorder
<1>4. /\ rec' \in [Recorders -> Recorder]
      /\ \A s \in 1..armed : /\ Sound(rec'[s]) /\ rec'[s].dest = rec[s].dest
                             /\ rec'[s].shown = rec[s].shown /\ (Done(rec'[s]) <=> Done(rec[s]))
                             /\ rec'[s].worker = rec[s].worker /\ Verdict(rec'[s]) = Verdict(rec[s])
  <2>1. \A s \in Recorders : rec'[s] \in Recorder
    <3>1. \A m \in Recorder : Closed(m) \in Recorder
      BY DEF Closed, Recorder
    <3> QED
      BY <1>1, <1>3, <3>1, Numbers
  <2>2. \A s \in 1..armed : /\ Sound(rec'[s]) /\ rec'[s].dest = rec[s].dest
                             /\ rec'[s].shown = rec[s].shown /\ (Done(rec'[s]) <=> Done(rec[s]))
                             /\ rec'[s].worker = rec[s].worker /\ Verdict(rec'[s]) = Verdict(rec[s])
    <3> SUFFICES ASSUME NEW s \in 1..armed
        PROVE  /\ Sound(rec'[s]) /\ rec'[s].dest = rec[s].dest
               /\ rec'[s].shown = rec[s].shown /\ (Done(rec'[s]) <=> Done(rec[s]))
               /\ rec'[s].worker = rec[s].worker /\ Verdict(rec'[s]) = Verdict(rec[s])
      OBVIOUS
    <3>1. s \in Recorders /\ rec[s] \in Recorder /\ Sound(rec[s])
      BY <1>1, Numbers DEF RecordersInv
    <3>2. rec'[s] = Closed(rec[s]) \/ rec'[s] = rec[s]
      BY <1>3, <3>1
    <3> QED
      BY <3>1, <3>2, ClosedSound
  <2> QED
    BY <1>0, <2>1, <2>2
<1>5. Waiting' = {} /\ Waiting = {}
  <2>1. Cardinality(Waiting) = 0
    BY <1>1, <1>2 DEF MayArm, ControlInv
  <2>2. Waiting = {}
    BY <2>1, WaitingFinite, FS_EmptySet
  <2> QED
    BY <1>2, <2>2 DEF Waiting
<1>6. TypeOK'
  BY <1>1, <1>2, <1>4, Numbers DEF TypeOK
<1>7. RecordersInv'
  <2>1. \A s \in 1..armed : rec'[s].dest \in Destinations /\ Sound(rec'[s])
    BY <1>1, <1>4 DEF RecordersInv
  <2>2. \A s \in Recorders : s > armed => rec'[s] = Unarmed
    BY <1>1, <1>3, Numbers DEF RecordersInv, TypeOK
  <2> QED
    BY <1>2, <2>1, <2>2 DEF RecordersInv, Sound, Whole
<1>8. FilesInv'
  <2>1. \A s \in 1..armed : Done(rec'[s]) => file[rec'[s].dest] = Output(s, rec'[s].shown)
    BY <1>1, <1>4 DEF FilesInv
  <2>2. \A d \in Destinations : file[d].of # 0 =>
           file[d].of <= armed /\ rec'[file[d].of].dest = d /\ Done(rec'[file[d].of])
    BY <1>1, <1>4, Numbers DEF FilesInv, File
  <2> QED
    BY <1>2, <2>1, <2>2 DEF FilesInv, Done
<1>9. ControlInv'
  <2>1. completed.of # 0 =>
         rec'[completed.of].worker = "ended" /\ completed.verdict = Verdict(rec'[completed.of])
    BY <1>1, <1>4, Numbers DEF TypeOK, ControlInv
  <2>2. finalizing = 0 /\ (slot # 0 => completed.of = 0)
    BY <1>2, InSlot DEF MayArm
  <2> QED
    BY <1>1, <1>2, <1>5, <2>1, <2>2, FS_EmptySet DEF ControlInv, Verdict, Errors
<1>10. OwnerKept'
  BY <1>1, <1>2 DEF OwnerKept
<1> QED
  BY <1>6, <1>7, <1>8, <1>9, <1>10 DEF IInv

(* A new recorder in the empty slot.                                         *)
LEMMA ArmKeeps ==
    ASSUME IInv, Arm
    PROVE  IInv'
<1> DEFINE a == armed + 1
           n == Armed(start)
<1>1. TypeOK /\ RecordersInv /\ FilesInv /\ ControlInv /\ OwnerKept
  BY DEF IInv
<1>2. /\ actor = "arming" /\ armed' = a /\ slot' = a /\ last' = "armed"
      /\ rec' = [rec EXCEPT ![a] = n] /\ completed' = NoFinalization
      /\ actor' = "running" /\ retiring' = 0 /\ start' = "none"
      /\ finalizing' = finalizing /\ waiters' = waiters /\ call' = call /\ pinned' = pinned
      /\ file' = file /\ owned' = owned
  BY DEF Arm, Retired
<1>3. /\ start \in Destinations /\ armed < MaxRecordings /\ finalizing = 0 /\ Waiting = {}
  BY <1>1, <1>2 DEF ControlInv, TypeOK
<1>4. /\ a \in Recorders /\ a \in Nat /\ armed \in Nat /\ a \notin 1..armed
      /\ \A s \in 1..a : s = a \/ s \in 1..armed
  BY <1>1, <1>3, Numbers DEF Recorders
<1>5. n \in Recorder /\ Sound(n) /\ n.dest = start /\ n.sender /\ ~Done(n)
  BY <1>3, ArmedSound
<1> HIDE DEF n
<1>6. /\ rec'[a] = n /\ \A s \in Recorders : s # a => rec'[s] = rec[s]
      /\ rec' \in [Recorders -> Recorder]
  BY <1>1, <1>2, <1>4, <1>5 DEF TypeOK
<1>7. TypeOK'
  <2>1. a \in 0..MaxRecordings /\ a \in 0..a /\ 0 \in 0..a /\ finalizing' = 0
    BY <1>1, <1>2, <1>3, <1>4, Numbers
  <2>2. call \in [Callers -> [pc : {"idle", "joining", "waiting"}, of : 0..a]]
    <3>1. 0..armed \subseteq 0..a
      BY <1>4
    <3>2. [pc : {"idle", "joining", "waiting"}, of : 0..armed] \subseteq
             [pc : {"idle", "joining", "waiting"}, of : 0..a]
      BY <3>1
    <3> QED
      BY <1>1, <3>2 DEF TypeOK
  <2>3. NoFinalization \in [of : 0..a, verdict : Verdicts]
    BY <2>1 DEF NoFinalization, Verdicts
  <2> HIDE DEF a
  <2> QED
    BY <1>1, <1>2, <1>6, <2>1, <2>2, <2>3 DEF TypeOK, States
<1>8. RecordersInv'
  <2>1. \A s \in 1..a : rec'[s].dest \in Destinations /\ Sound(rec'[s])
    BY <1>1, <1>3, <1>4, <1>5, <1>6, Numbers DEF RecordersInv
  <2>2. \A s \in Recorders : s > a => rec'[s] = Unarmed
    BY <1>1, <1>4, <1>6, Numbers DEF RecordersInv, Recorders
  <2>3. rec'[a].sender
    BY <1>5, <1>6
  <2> HIDE DEF a
  <2> QED
    BY <1>2, <2>1, <2>2, <2>3 DEF RecordersInv, Sound, Whole
<1>9. FilesInv'
  <2>1. \A s \in 1..a : Done(rec'[s]) => file[rec'[s].dest] = Output(s, rec'[s].shown)
    BY <1>1, <1>4, <1>5, <1>6, Numbers DEF FilesInv
  <2>2. \A d \in Destinations : file[d].of # 0 =>
           file[d].of <= a /\ rec'[file[d].of].dest = d /\ Done(rec'[file[d].of])
    <3> SUFFICES ASSUME NEW d \in Destinations, file[d].of # 0
        PROVE  file[d].of <= a /\ rec'[file[d].of].dest = d /\ Done(rec'[file[d].of])
      OBVIOUS
    <3>1. /\ file[d].of \in Nat /\ file[d].of <= armed
          /\ rec[file[d].of].dest = d /\ Done(rec[file[d].of])
      BY <1>1, Numbers DEF FilesInv, File
    <3>2. file[d].of \in Recorders /\ file[d].of # a /\ file[d].of <= a
      BY <1>4, <3>1, Numbers, <1>1 DEF Recorders
    <3> QED
      BY <1>6, <3>1, <3>2
  <2> HIDE DEF a
  <2> QED
    BY <1>2, <2>1, <2>2 DEF FilesInv, Done
<1>10. ControlInv'
  <2>1. Waiting' = {}
    BY <1>2, <1>3 DEF Waiting
  <2>2. completed'.of = 0
    BY <1>2 DEF NoFinalization
  <2>3. waiters' = Cardinality({})
    BY <1>1, <1>2, <1>3 DEF ControlInv
  <2> QED
    BY <1>1, <1>2, <1>3, <2>1, <2>2, <2>3 DEF ControlInv, Errors
<1>11. OwnerKept'
  BY <1>1, <1>2 DEF OwnerKept
<1> QED
  BY <1>7, <1>8, <1>9, <1>10, <1>11 DEF IInv

(* The actor's own stop is its last act.                                     *)
LEMMA Leaves ==
    ASSUME TypeOK, ControlInv, NEW c \in Callers, MayStop(c), Leaving(c)
    PROVE  /\ actor' \in {"running", "arming", "over"} /\ start' \in Destinations \cup {"none"}
           /\ start' # "none" => start' = start
           /\ actor' = "arming" <=> actor = "arming"
           /\ actor = "arming" => start' = start
           /\ call[c].pc = "idle"
BY DEF MayStop, Unlocked, Leaving, TypeOK, ControlInv

(* A caller that moves joins those who wait, or leaves them.                 *)
LEMMA Entered ==
    ASSUME TypeOK, NEW c \in Callers, NEW pc \in {"idle", "joining", "waiting"},
           NEW r \in 0..armed, Enter(c, pc, r)
    PROVE  /\ call' \in [Callers -> [pc : {"idle", "joining", "waiting"}, of : 0..armed]]
           /\ call'[c].pc = pc /\ call'[c].of = r
           /\ \A d \in Callers : d # c => call'[d] = call[d]
           /\ Waiting' = IF pc = "waiting" THEN Waiting \cup {c} ELSE Waiting \ {c}
<1>1. /\ call' = [call EXCEPT ![c] = [pc |-> pc, of |-> r]]
      /\ call \in [Callers -> [pc : {"idle", "joining", "waiting"}, of : 0..armed]]
  BY DEF Enter, TypeOK
<1>2. /\ call' \in [Callers -> [pc : {"idle", "joining", "waiting"}, of : 0..armed]]
      /\ call'[c] = [pc |-> pc, of |-> r]
      /\ \A d \in Callers : d # c => call'[d] = call[d]
  BY <1>1
<1>3. Waiting' = {d \in Callers : call'[d].pc = "waiting"}
  BY DEF Waiting
<1> QED
  BY <1>2, <1>3 DEF Waiting

(* A stop that finds nothing to stop.                                        *)
LEMMA StopIdleKeeps ==
    ASSUME IInv, NEW c \in Callers, StopIdle(c)
    PROVE  IInv'
<1>1. TypeOK /\ RecordersInv /\ FilesInv /\ ControlInv /\ OwnerKept
  BY DEF IInv
<1>2. /\ MayStop(c) /\ Leaving(c)
      /\ slot' = slot /\ last' = last /\ finalizing' = finalizing /\ completed' = completed
      /\ waiters' = waiters /\ call' = call /\ retiring' = retiring
      /\ pinned' = pinned /\ armed' = armed /\ rec' = rec /\ file' = file /\ owned' = owned
  BY DEF StopIdle, control
<1>3. /\ actor' \in {"running", "arming", "over"} /\ start' \in Destinations \cup {"none"}
      /\ start' # "none" => start' = start
      /\ actor' = "arming" <=> actor = "arming"
      /\ actor = "arming" => start' = start
  BY <1>1, <1>2, Leaves
<1>4. RecordersInv' /\ FilesInv' /\ OwnerKept'
  BY <1>1, <1>2, StandsAs DEF OwnerKept
<1>5. TypeOK'
  BY <1>1, <1>2, <1>3 DEF TypeOK
<1>6. ControlInv'
  <2>1. Waiting' = Waiting
    BY <1>2 DEF Waiting
  <2> QED
    BY <1>1, <1>2, <1>3, <2>1 DEF ControlInv, Verdict, Errors
<1> QED
  BY <1>4, <1>5, <1>6 DEF IInv

(* One more waits, for the recorder that is being finalized.                 *)
LEMMA StopJoinsKeeps ==
    ASSUME IInv, NEW c \in Callers, StopJoins(c)
    PROVE  IInv'
<1>1. TypeOK /\ RecordersInv /\ FilesInv /\ ControlInv /\ OwnerKept
  BY DEF IInv
<1>2. /\ MayStop(c) /\ Leaving(c) /\ finalizing # 0 /\ waiters' = waiters + 1
      /\ Enter(c, "waiting", finalizing)
      /\ slot' = slot /\ last' = last /\ finalizing' = finalizing /\ completed' = completed
      /\ retiring' = retiring /\ pinned' = pinned /\ armed' = armed /\ rec' = rec
      /\ file' = file /\ owned' = owned
  BY DEF StopJoins
<1>3. /\ actor' \in {"running", "arming", "over"} /\ start' \in Destinations \cup {"none"}
      /\ start' # "none" => start' = start
      /\ actor' = "arming" <=> actor = "arming"
      /\ actor = "arming" => start' = start
      /\ call[c].pc = "idle"
  BY <1>1, <1>2, Leaves
<1>4. /\ call' \in [Callers -> [pc : {"idle", "joining", "waiting"}, of : 0..armed]]
      /\ call'[c].pc = "waiting" /\ call'[c].of = finalizing
      /\ \A d \in Callers : d # c => call'[d] = call[d]
      /\ Waiting' = Waiting \cup {c}
  BY <1>1, <1>2, Entered DEF TypeOK
<1>5. RecordersInv' /\ FilesInv' /\ OwnerKept'
  BY <1>1, <1>2, StandsAs DEF OwnerKept
<1>6. TypeOK'
  BY <1>1, <1>2, <1>3, <1>4 DEF TypeOK
<1>7. ControlInv'
  <2>1. c \notin Waiting
    BY <1>3 DEF Waiting
  <2>2. waiters' = Cardinality(Waiting')
    BY <1>1, <1>2, <1>4, <2>1, WaitingFinite, FS_AddElement DEF ControlInv
  <2>3. actor' # "arming"
    BY <1>1, <1>2, <1>3 DEF ControlInv
  <2>4. \A d \in Waiting' : call'[d].of # 0 /\ call'[d].of \in {finalizing, completed.of}
    BY <1>1, <1>2, <1>4, <2>1 DEF ControlInv, Waiting
  <2>5. /\ \A d \in Callers : call'[d].pc = "joining" => finalizing # 0 /\ call'[d].of = finalizing
        /\ \A d, e \in Callers : call'[d].pc = "joining" /\ call'[e].pc = "joining" => d = e
    <3>1. \A d \in Callers : call'[d].pc = "joining" =>
             d # c /\ call[d].pc = "joining" /\ call'[d] = call[d]
      BY <1>4
    <3> QED
      BY <1>1, <3>1 DEF ControlInv
  <2> QED
    BY <1>1, <1>2, <1>3, <2>2, <2>3, <2>4, <2>5 DEF ControlInv, Verdict, Errors
<1> QED
  BY <1>5, <1>6, <1>7 DEF IInv

(* The outcome it waited for is there.                                       *)
LEMMA WakeKeeps ==
    ASSUME IInv, NEW c \in Callers, Wake(c)
    PROVE  IInv'
<1>1. TypeOK /\ RecordersInv /\ FilesInv /\ ControlInv /\ OwnerKept
  BY DEF IInv
<1>2. /\ call[c].pc = "waiting" /\ waiters' = IF waiters = 0 THEN 0 ELSE waiters - 1
      /\ Enter(c, "idle", 0)
      /\ slot' = slot /\ last' = last /\ finalizing' = finalizing /\ completed' = completed
      /\ actor' = actor /\ start' = start
      /\ retiring' = retiring /\ pinned' = pinned /\ armed' = armed /\ rec' = rec
      /\ file' = file /\ owned' = owned
  BY DEF Wake, Return
<1>3. 0 \in 0..armed
  BY <1>1, Numbers
<1>4. /\ call' \in [Callers -> [pc : {"idle", "joining", "waiting"}, of : 0..armed]]
      /\ call'[c].pc = "idle" /\ call'[c].of = 0
      /\ \A d \in Callers : d # c => call'[d] = call[d]
      /\ Waiting' = Waiting \ {c}
  BY <1>1, <1>2, <1>3, Entered
<1>5. RecordersInv' /\ FilesInv' /\ OwnerKept'
  BY <1>1, <1>2, StandsAs DEF OwnerKept
<1>6. c \in Waiting /\ Waiting # {}
  BY <1>2 DEF Waiting
<1>7. waiters' \in Nat /\ waiters' = Cardinality(Waiting')
  <2>1. Cardinality(Waiting) \in Nat /\ Cardinality(Waiting) # 0
    BY <1>6, WaitingFinite, FS_EmptySet
  <2>2. Cardinality(Waiting') = Cardinality(Waiting) - 1
    BY <1>4, <1>6, WaitingFinite, FS_RemoveElement
  <2> QED
    BY <1>1, <1>2, <2>1, <2>2 DEF ControlInv
<1>8. TypeOK'
  BY <1>1, <1>2, <1>4, <1>7 DEF TypeOK
<1>9. ControlInv'
  <2>1. actor # "arming"
    BY <1>1, <1>6 DEF ControlInv
  <2>2. \A d \in Waiting' : call'[d].of # 0 /\ call'[d].of \in {finalizing, completed.of}
    BY <1>1, <1>4 DEF ControlInv, Waiting
  <2>3. /\ \A d \in Callers : call'[d].pc = "joining" => finalizing # 0 /\ call'[d].of = finalizing
        /\ \A d, e \in Callers : call'[d].pc = "joining" /\ call'[e].pc = "joining" => d = e
    <3>1. \A d \in Callers : call'[d].pc = "joining" =>
             d # c /\ call[d].pc = "joining" /\ call'[d] = call[d]
      BY <1>4
    <3> QED
      BY <1>1, <3>1 DEF ControlInv
  <2> QED
    BY <1>1, <1>2, <1>7, <2>1, <2>2, <2>3 DEF ControlInv, Verdict
<1> QED
  BY <1>5, <1>8, <1>9 DEF IInv

(* The recorder leaves the slot for its finalization; nobody waits for an     *)
(* earlier one, since none has been completed.                               *)
LEMMA StopTakesKeeps ==
    ASSUME IInv, NEW c \in Callers, StopTakes(c)
    PROVE  IInv'
<1>1. TypeOK /\ RecordersInv /\ FilesInv /\ ControlInv /\ OwnerKept
  BY DEF IInv
<1>2. /\ MayStop(c) /\ Leaving(c) /\ finalizing = 0 /\ slot # 0
      /\ finalizing' = slot /\ slot' = 0
      /\ completed' = NoFinalization /\ last' = "finalizing"
      /\ rec' = [rec EXCEPT ![slot] = Closed(rec[slot])]
      /\ Enter(c, "joining", slot)
      /\ waiters' = waiters /\ retiring' = retiring /\ pinned' = pinned /\ armed' = armed
      /\ file' = file /\ owned' = owned
  BY DEF StopTakes
<1>3. /\ slot \in 1..armed /\ slot \in Recorders
      /\ rec[slot] \in Recorder /\ Sound(rec[slot])
      /\ rec[slot].dest \in Destinations
      /\ completed.of = 0 /\ retiring = 0 /\ actor # "arming"
  BY <1>2, InSlot
<1>4. /\ actor' \in {"running", "arming", "over"} /\ start' \in Destinations \cup {"none"}
      /\ start' # "none" => start' = start
      /\ actor' # "arming" /\ call[c].pc = "idle"
  BY <1>1, <1>2, <1>3, Leaves
<1>5. slot \in 0..armed /\ 0 \in 0..armed
  BY <1>1, Numbers DEF TypeOK
<1>6. /\ call' \in [Callers -> [pc : {"idle", "joining", "waiting"}, of : 0..armed]]
      /\ call'[c].pc = "joining" /\ call'[c].of = slot
      /\ \A d \in Callers : d # c => call'[d] = call[d]
      /\ Waiting' = Waiting \ {c}
  BY <1>1, <1>2, <1>5, Entered
<1>7. Waiting = {} /\ Waiting' = {}
  BY <1>1, <1>2, <1>3, <1>6 DEF ControlInv
<1> DEFINE n == Closed(rec[slot])
<1>8. /\ n \in Recorder /\ Sound(n) /\ n.dest = rec[slot].dest /\ n.shown = rec[slot].shown
      /\ Done(rec[slot]) <=> Done(n)
  BY <1>3, ClosedSound
<1> HIDE DEF n
<1>9. /\ rec'[slot] = n /\ \A s \in Recorders : s # slot => rec'[s] = rec[s]
      /\ rec' \in [Recorders -> Recorder]
  BY <1>1, <1>2, <1>3, <1>8 DEF TypeOK, n
<1>10. TypeOK'
  <2>1. NoFinalization \in [of : 0..armed, verdict : Verdicts]
    BY <1>5 DEF NoFinalization, Verdicts
  <2> QED
    BY <1>1, <1>2, <1>4, <1>5, <1>6, <1>9, <2>1, Numbers DEF TypeOK, States
<1>11. RecordersInv'
  <2>1. \A s \in 1..armed : rec'[s].dest \in Destinations /\ Sound(rec'[s])
    BY <1>1, <1>3, <1>8, <1>9, Numbers DEF RecordersInv
  <2>2. \A s \in Recorders : s > armed => rec'[s] = Unarmed
    BY <1>1, <1>3, <1>9, Numbers DEF RecordersInv
  <2> QED
    BY <1>2, <2>1, <2>2 DEF RecordersInv, Sound, Whole
<1>12. FilesInv'
  <2>1. \A s \in 1..armed : Done(rec'[s]) => file[rec'[s].dest] = Output(s, rec'[s].shown)
    BY <1>1, <1>3, <1>8, <1>9, Numbers DEF FilesInv
  <2>2. \A d \in Destinations : file[d].of # 0 =>
           file[d].of <= armed /\ rec'[file[d].of].dest = d /\ Done(rec'[file[d].of])
    BY <1>1, <1>3, <1>8, <1>9, Numbers DEF FilesInv, File, Recorders
  <2> QED
    BY <1>2, <2>1, <2>2 DEF FilesInv, Done
<1>13. ControlInv'
  <2>1. waiters' = Cardinality(Waiting')
    BY <1>1, <1>2, <1>7 DEF ControlInv
  <2>2. completed'.of = 0
    BY <1>2 DEF NoFinalization
  <2>3. /\ \A d \in Callers : call'[d].pc = "joining" => d = c
        /\ \A d, e \in Callers : call'[d].pc = "joining" /\ call'[e].pc = "joining" => d = e
    BY <1>1, <1>2, <1>6 DEF ControlInv
  <2> QED
    BY <1>1, <1>2, <1>3, <1>4, <1>6, <1>7, <2>1, <2>2, <2>3 DEF ControlInv, Errors
<1>14. OwnerKept'
  BY <1>1, <1>2 DEF OwnerKept
<1> QED
  BY <1>10, <1>11, <1>12, <1>13, <1>14 DEF IInv

(* The outcome is that of the recorder everybody has waited for.             *)
LEMMA FinalizedKeeps ==
    ASSUME IInv, NEW c \in Callers, Finalized(c)
    PROVE  IInv'
<1> DEFINE r == call[c].of
           v == Verdict(rec[r])
<1>1. TypeOK /\ RecordersInv /\ FilesInv /\ ControlInv /\ OwnerKept
  BY DEF IInv
<1>2. /\ call[c].pc = "joining" /\ rec[r].worker = "ended"
      /\ last' = IF v \in {"finished", "cancelled"} THEN v ELSE "failed"
      /\ completed' = [of |-> r, verdict |-> v] /\ finalizing' = 0
      /\ Enter(c, "idle", 0)
      /\ slot' = slot /\ waiters' = waiters /\ actor' = actor /\ start' = start
      /\ retiring' = retiring /\ pinned' = pinned /\ armed' = armed /\ rec' = rec
      /\ file' = file /\ owned' = owned
  BY DEF Finalized, Return
<1>3. /\ r = finalizing /\ r # 0 /\ slot = 0 /\ completed.of = 0 /\ actor # "arming" /\ retiring = 0
      /\ r \in 0..armed /\ 0 \in 0..armed /\ r \in Recorders /\ rec[r] \in Recorder
  BY <1>1, <1>2, Numbers DEF ControlInv, TypeOK
<1>4. v \in Verdicts
  BY <1>3 DEF Verdict, Verdicts, Recorder, States, Errors
<1>5. /\ call' \in [Callers -> [pc : {"idle", "joining", "waiting"}, of : 0..armed]]
      /\ call'[c].pc = "idle"
      /\ \A d \in Callers : d # c => call'[d] = call[d]
      /\ Waiting' = Waiting \ {c}
  BY <1>1, <1>2, <1>3, Entered
<1>6. Waiting' = Waiting
  BY <1>2, <1>5 DEF Waiting
<1>7. RecordersInv' /\ FilesInv' /\ OwnerKept'
  BY <1>1, <1>2, StandsAs DEF OwnerKept
<1>8. TypeOK'
  BY <1>1, <1>2, <1>3, <1>4, <1>5 DEF TypeOK, States
<1>9. ControlInv'
  <2>1. completed'.of = r /\ completed'.verdict = Verdict(rec'[r]) /\ rec'[r].worker = "ended"
    BY <1>2 DEF Verdict
  <2>2. \A d \in Callers : call'[d].pc # "joining"
    BY <1>1, <1>2, <1>5 DEF ControlInv
  <2>3. \A d \in Waiting' : call'[d].of # 0 /\ call'[d].of = r
    <3>1. \A d \in Waiting : d \in Callers /\ d # c /\ call[d].of # 0 /\ call[d].of = r
      BY <1>1, <1>2, <1>3 DEF ControlInv, Waiting
    <3> QED
      BY <1>5, <1>6, <3>1
  <2>4. waiters' = Cardinality(Waiting')
    BY <1>1, <1>2, <1>6 DEF ControlInv
  <2> HIDE DEF r
  <2> QED
    BY <1>1, <1>2, <1>3, <2>1, <2>2, <2>3, <2>4 DEF ControlInv, Verdict
<1> QED
  BY <1>7, <1>8, <1>9 DEF IInv
-----------------------------------------------------------------------------
(* The theorems.                                                             *)

(* Nothing is armed at first.                                                *)
LEMMA InitInv == Init => IInv
<1> SUFFICES ASSUME Init PROVE IInv
  OBVIOUS
<1> USE DEF Init
<1>1. 0 \in 0..MaxRecordings /\ 0 \in 0..0
  BY RecordingAssumption
<1>2. Unarmed \in Recorder
  BY EmptySeq DEF Unarmed, Armed, Recorder, States, NoPartial, Partials
<1>3. NoFile \in File
  BY EmptySeq DEF NoFile, File
<1>4. TypeOK
  BY <1>1, <1>2, <1>3 DEF TypeOK, States, NoFinalization, Verdicts
<1>5. RecordersInv
  BY DEF RecordersInv
<1>6. FilesInv
  BY DEF FilesInv, NoFile
<1>7. Waiting = {}
  BY DEF Waiting
<1>8. ControlInv
  BY <1>7, FS_EmptySet DEF ControlInv, NoFinalization, Errors
<1> QED
  BY <1>4, <1>5, <1>6, <1>8 DEF IInv, OwnerKept

(* Every step keeps the invariant.                                           *)
LEMMA StepInv == IInv /\ [Next]_vars => IInv'
<1> SUFFICES ASSUME IInv, [Next]_vars PROVE IInv'
  OBVIOUS
<1>1. CASE \E d \in Destinations : AskStart(d) \/ OwnerWrites(d)
  BY <1>1, RequestsKeep, OwnerKeeps
<1>2. CASE Poll
  BY <1>2, PollKeeps
<1>3. CASE Arming
  BY <1>3, RequestsKeep, RetireKeeps, ArmKeeps DEF Arming
<1>4. CASE \E size \in Sizes : Present(size)
  BY <1>4, PresentKeeps
<1>8. CASE FailEnds
  BY <1>8, FailEndsKeeps
<1>5. CASE \E c \in Callers : Stop(c) \/ Finalized(c) \/ Wake(c)
  BY <1>5, StopIdleKeeps, StopJoinsKeeps, StopTakesKeeps, FinalizedKeeps, WakeKeeps DEF Stop
<1>6. CASE \E r \in Recorders : Works(r)
  BY <1>6, WriterWorks, PublishKeeps
<1>7. CASE UNCHANGED vars
  <2>1. /\ slot' = slot /\ last' = last /\ finalizing' = finalizing /\ completed' = completed
        /\ waiters' = waiters /\ call' = call /\ armed' = armed /\ rec' = rec
        /\ file' = file /\ owned' = owned /\ actor' = actor /\ retiring' = retiring
        /\ start' = start /\ pinned' = pinned
    BY <1>7 DEF vars, control
  <2>2. RecordersInv' /\ FilesInv'
    BY <2>1, StandsAs DEF IInv
  <2>3. TypeOK' /\ OwnerKept'
    BY <2>1 DEF IInv, TypeOK, OwnerKept
  <2>4. Waiting' = Waiting
    BY <2>1 DEF Waiting
  <2>5. ControlInv'
    BY <2>1, <2>4 DEF IInv, ControlInv, Verdict
  <2> QED
    BY <2>2, <2>3, <2>5 DEF IInv
<1> QED
  BY <1>1, <1>2, <1>3, <1>4, <1>5, <1>6, <1>7, <1>8 DEF Next

(* The recorders, the files and the controller agree in every state.         *)
THEOREM InvariantHolds == Spec => []IInv
  BY InitInv, StepInv, PTL DEF Spec

(* Every variable has the values its declaration names: no recorder is armed  *)
(* beyond the bound, and every number a caller holds is that of a recorder.   *)
THEOREM TypeCorrect == Spec => []TypeOK
<1>1. IInv => TypeOK
  BY DEF IInv
<1> QED
  BY <1>1, InvariantHolds, PTL

(* What the owner saved under the name of a recording stays (the rename of    *)
(* publish_partial never replaces a file).                                   *)
THEOREM OwnerSafe == Spec => []OwnerKept
<1>1. IInv => OwnerKept
  BY DEF IInv
<1> QED
  BY <1>1, InvariantHolds, PTL

(* The invariant says what RecordingHonest asks.                             *)
LEMMA HonestIfInv == IInv => RecordingHonest
<1> SUFFICES ASSUME IInv PROVE RecordingHonest
  OBVIOUS
<1>1. TypeOK /\ RecordersInv /\ FilesInv /\ ControlInv /\ OwnerKept
  BY DEF IInv
<1>2. NothingPartial
  <2> SUFFICES ASSUME NEW r \in Recorders, rec[r].worker = "ended"
      PROVE  ~rec[r].partial.made
    BY DEF NothingPartial
  <2>1. CASE r \in 1..armed
    BY <1>1, <2>1 DEF RecordersInv, Sound, NoPartial
  <2>2. CASE r > armed
    BY <1>1, <2>2 DEF RecordersInv, Unarmed, Armed, NoPartial
  <2> QED
    BY <1>1, <2>1, <2>2, Numbers DEF Recorders
<1>3. AnswerTrue
  <2> DEFINE r == completed.of
             v == completed.verdict
             m == rec[r]
  <2>1. ASSUME r = 0 PROVE last \notin {"finished", "cancelled"}
    BY <1>1, <2>1 DEF ControlInv
  <2>2. ASSUME r # 0
        PROVE  /\ v = Verdict(m)
               /\ IF v = "finished" THEN file[m.dest] = Output(r, m.shown)
                  ELSE file[m.dest].of # r
               /\ v = "cancelled" => m.shown = <<>>
    <3>1. /\ r \in 1..armed /\ m \in Recorder /\ Sound(m) /\ m.dest \in Destinations
          /\ m.worker = "ended" /\ v = Verdict(m)
      BY <1>1, <2>2, Numbers DEF ControlInv, RecordersInv, TypeOK
    <3>2. CASE m.cancelled
      <4>1. v = m.error /\ v \in Errors
        BY <3>1, <3>2 DEF Verdict, Sound, Recorder
      <4>2. file[m.dest].of # r
        BY <1>1, <2>2, <3>1, <3>2 DEF FilesInv, Done
      <4> QED
        BY <3>1, <4>1, <4>2 DEF Errors
    <3>3. CASE ~m.cancelled
      <4>1. m.error = "none" /\ m.status \in {"finished", "cancelled"} /\ v = m.status
        BY <3>1, <3>3 DEF Verdict, Sound
      <4>2. v = "finished" => file[m.dest] = Output(r, m.shown)
        BY <1>1, <3>1, <3>3, <4>1 DEF FilesInv, Done
      <4>3. v # "finished" => file[m.dest].of # r
        BY <1>1, <2>2, <3>1, <4>1 DEF FilesInv, Done
      <4>4. v = "cancelled" => m.shown = <<>>
        BY <3>1, <3>3, <4>1 DEF Sound
      <4> QED
        BY <3>1, <4>2, <4>3, <4>4
    <3> QED
      BY <3>2, <3>3
  <2>3. \A c \in Callers : call[c].pc = "waiting" => call[c].of \in {finalizing, completed.of}
    BY <1>1 DEF ControlInv, Waiting
  <2> QED
    BY <2>1, <2>2, <2>3 DEF AnswerTrue
<1> QED
  BY <1>1, <1>2, <1>3 DEF RecordingHonest

(* What a stop answers and what stands in the file agree, whichever of the    *)
(* open, the writes, the finishing and the publishing failed and whoever else  *)
(* stopped the recording meanwhile (Controller::stop, finish_stop, run_worker).*)
THEOREM Honest == Spec => []RecordingHonest
  BY HonestIfInv, InvariantHolds, PTL
=============================================================================
