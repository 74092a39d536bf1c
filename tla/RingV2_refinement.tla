-------------------------- MODULE RingV2_refinement --------------------------
(* The ring implements the bounded queue: every load and store of RingV2 is an  *)
(* operation of BatchQueue or invisible to it, for every value of the constants. *)
EXTENDS RingV2_proofs, SequenceTheorems

\* What a worker is in the middle of publishing is a batch.
WritesBatch == wpc["worker"] \in WritePcs => call.batch \in Batches

\* A batch is chosen when the write begins and kept until it is published.
LEMMA WritesBatchStep == TypeOK /\ WritesBatch /\ [Next]_vars => WritesBatch'
<1> SUFFICES ASSUME TypeOK, WritesBatch, [Next]_vars PROVE WritesBatch'
  OBVIOUS
<1> wpc \in [Writers -> WriterPcs] /\ call \in CallType
  BY DEF TypeOK
<1> USE DEF WritesBatch, WritePcs, Writers, At, Goto, writer
<1>1. CASE Validate \/ Claim \/ DropProducer \/ WorkerCrash
  BY <1>1 DEF Validate, Claim, DropProducer, WorkerCrash
<1>2. CASE \E b \in Batches : BeginWrite(b)
  BY <1>2 DEF BeginWrite, CallType
<1>3. CASE WorkerStep
  BY <1>3 DEF WorkerStep, WriterLoadBefore, WriterRetry, WriterSettled, ClearSlot,
     FillMeta, FillPixels, CommitSlot, StoreSlot, Publish, CallType
<1>4. CASE \E g \in 2 .. MaxGeneration : BeginReset(g) \/ OwnerClaim(g)
  BY <1>4 DEF BeginReset, OwnerClaim
<1>5. CASE OwnerBeginReset \/ OwnerUnclaim
  BY <1>5 DEF OwnerBeginReset, OwnerUnclaim
<1>6. CASE \E x \in Writers : ResetStep(x)
  BY <1>6 DEF ResetStep, ZeroGeneration, WipeSlot, ZeroProduced, ZeroConsumed,
     StoreGeneration, StoreReady
<1>7. CASE BeginRead \/ ReaderStep
  BY <1>7, ReaderFrame
<1>8. CASE OwnerAdopt \/ ReaderAdopt
  BY <1>8 DEF OwnerAdopt, ReaderAdopt
<1>9. CASE UNCHANGED vars
  BY <1>9 DEF vars
<1> QED
  BY <1>1, <1>2, <1>3, <1>4, <1>5, <1>6, <1>7, <1>8, <1>9 DEF Next

-----------------------------------------------------------------------------
\* The queue of BatchQueue: what the reader has not taken of its generation.
Untaken == IF Adopted THEN SubSeq(published, Len(Taken) + 1, Len(published)) ELSE <<>>

\* The abstract queue depends on the histories and the adopted generation alone.
LEMMA QueueVars ==
  ASSUME UNCHANGED <<rgen, Adopted, Untaken, Taken>>
  PROVE  UNCHANGED Queue!vars
  BY DEF Queue!vars, Untaken

\* What is taken is a prefix of what was published, in the reader's generation.
LEMMA TakenPrefix ==
  ASSUME TypeOK, Coherent, Adopted
  PROVE  /\ Len(Taken) \in consumed .. produced
         /\ Len(Taken) = IF rpc = "release" THEN consumed + 1 ELSE consumed
<1> /\ consumed \in Nat /\ produced \in Nat /\ Len(delivered) = consumed /\ consumed <= produced
    /\ delivered \in Seq(Delivery) /\ Len(published) = produced
    /\ (rpc = "release" => consumed < produced)
  BY DEF TypeOK, Coherent, CountInv, DeliveredInOrder, ReadInv, ReaderPcs
<1> QED
  BY DEF Taken

\* A step is invisible if it neither changes a generation or a history nor is the last check.
LEMMA Invisible ==
  ASSUME UNCHANGED <<rgen, generation, published, delivered, read>>,
         rpc = "release" <=> rpc' = "release"
  PROVE  UNCHANGED Queue!vars
<1> UNCHANGED <<Adopted, Taken>>
  BY DEF Adopted, Taken
<1> QED
  BY QueueVars DEF Untaken

\* Growing a sequence grows every suffix of it.
LEMMA SubSeqAppend ==
  ASSUME NEW S, NEW s \in Seq(S), NEW e \in S, NEW m \in 0 .. Len(s)
  PROVE  /\ SubSeq(Append(s, e), m + 1, Len(s) + 1) = Append(SubSeq(s, m + 1, Len(s)), e)
         /\ Len(SubSeq(s, m + 1, Len(s))) = Len(s) - m
<1> DEFINE n == Len(s)
<1> n \in Nat /\ m \in Nat /\ m <= n
  OBVIOUS
<1> HIDE DEF n
<1> DEFINE part == SubSeq(s, m + 1, n)
           grown == Append(s, e)
           long == SubSeq(grown, m + 1, n + 1)
<1>1. /\ grown \in Seq(S) /\ Len(grown) = n + 1 /\ grown[n + 1] = e
      /\ \A i \in 1 .. n : grown[i] = s[i]
  BY DEF n
<1>2. /\ \A i \in m + 1 .. n : s[i] \in S
      /\ \A i \in m + 1 .. n + 1 : grown[i] \in S
  BY <1>1 DEF n
<1> m + 1 \in Int /\ n \in Int /\ n + 1 \in Int
  OBVIOUS
<1>3. /\ part \in Seq(S) /\ Len(part) = (IF m + 1 <= n THEN n - (m + 1) + 1 ELSE 0)
      /\ \A i \in 1 .. n - (m + 1) + 1 : part[i] = s[m + 1 + i - 1]
  BY <1>2, SubSeqProperties
<1> HIDE DEF grown
<1>4. /\ long \in Seq(S)
      /\ Len(long) = (IF m + 1 <= n + 1 THEN n + 1 - (m + 1) + 1 ELSE 0)
      /\ \A i \in 1 .. n + 1 - (m + 1) + 1 : long[i] = grown[m + 1 + i - 1]
  BY <1>2, SubSeqProperties
<1> HIDE DEF part, long
<1>5. part \in Seq(S) /\ Len(part) = n - m
  BY <1>3
<1>6. /\ Append(part, e) \in Seq(S) /\ Len(Append(part, e)) = n - m + 1
      /\ Append(part, e)[n - m + 1] = e
      /\ \A i \in 1 .. n - m : Append(part, e)[i] = part[i]
  BY <1>5
<1>7. ASSUME NEW i \in 1 .. Len(long) PROVE long[i] = Append(part, e)[i]
  <2>1. i \in 1 .. n - m + 1 /\ long[i] = grown[m + i]
    BY <1>4
  <2>2. CASE i = n - m + 1
    BY <1>1, <1>6, <2>1, <2>2
  <2>3. CASE i <= n - m
    BY <1>1, <1>3, <1>6, <2>1, <2>3
  <2>4. i = n - m + 1 \/ i <= n - m
    BY <2>1
  <2> QED
    BY <2>2, <2>3, <2>4, Zenon
<1>8. Len(long) = Len(Append(part, e)) /\ Len(part) = n - m
  BY <1>3, <1>4, <1>6
<1>9. long = Append(part, e)
  BY <1>4, <1>6, <1>7, <1>8, SeqEqual, Zenon
<1> QED
  BY <1>8, <1>9, Zenon DEF part, long, grown, n

\* Publish is Put: the store of the producer sequence makes the batch readable.
LEMMA PublishPuts ==
  ASSUME TypeOK, Coherent, WritesBatch, Publish
  PROVE  Queue!Next
<1>1. /\ wpc["worker"] = "publish" /\ state = Ready /\ target = 0
      /\ call.seq = produced + 1 /\ call.seq - consumed <= SlotCount
  BY DEF Publish, Coherent, WriteInv, WritePcs, At
<1>2. Adopted /\ Adopted'
  BY <1>1 DEF Adopted, Coherent, LifeInv, Publish, reader
<1>3. call.batch \in Batches
  BY <1>1 DEF WritesBatch, WritePcs
<1>4. UNCHANGED <<rgen, Taken>>
  BY DEF Publish, Taken, reader
<1> DEFINE n == Len(Taken)
<1>5. /\ n \in consumed .. produced /\ n \in Nat /\ produced \in Nat /\ consumed \in Nat
      /\ Len(published) = produced /\ published \in Seq(Halves) /\ call.batch \in Halves
  BY <1>2, TakenPrefix, CallFields DEF TypeOK, Coherent, CountInv
<1> HIDE DEF n
<1>6. published' = Append(published, call.batch) /\ n' = n
  BY <1>4 DEF Publish, n
<1>7. Untaken = SubSeq(published, n + 1, produced)
  BY <1>2, <1>5 DEF Untaken, n
<1>8. Untaken' = SubSeq(published', n + 1, produced + 1)
  <2>1. Len(published') = produced + 1
    BY <1>5, <1>6
  <2> QED
    BY <1>2, <1>6, <2>1 DEF Untaken, n
<1>9. Untaken' = Append(Untaken, call.batch) /\ Len(Untaken) = produced - n
  <2>1. /\ published \in Seq(Halves) /\ call.batch \in Halves
        /\ n \in Nat /\ produced \in Nat /\ n \in 0 .. Len(published) /\ produced = Len(published)
    BY <1>5
  <2>2. /\ SubSeq(Append(published, call.batch), n + 1, produced + 1)
             = Append(SubSeq(published, n + 1, produced), call.batch)
        /\ Len(SubSeq(published, n + 1, produced)) = produced - n
    BY <2>1, SubSeqAppend
  <2> QED
    BY <1>6, <1>7, <1>8, <2>2, Zenon
<1>10. Len(Untaken) < SlotCount
  BY <1>1, <1>5, <1>9, SlotCountAssumption
<1>11. Queue!Put(call.batch)
  BY <1>2, <1>4, <1>9, <1>10 DEF Queue!Put, Untaken
<1> QED
  BY <1>3, <1>11 DEF Queue!Next

\* The last check of the generation is Take: from here the batch is the reader's.
LEMMA CheckTakes ==
  ASSUME TypeOK, Coherent, CheckGeneration("gen3", "release"), rpc' = "release"
  PROVE  Queue!Next
<1>1. /\ Adopted /\ Adopted' /\ rpc = "gen3"
      /\ UNCHANGED <<rgen, published, delivered, read>>
  BY DEF CheckGeneration, Step, Keep, Return, Rest, Adopted, header, history
<1>2. /\ read.meta = published[consumed + 1] /\ read.pixels = published[consumed + 1]
      /\ consumed < produced /\ consumed \in Nat /\ produced \in Nat
      /\ published \in Seq(Halves) /\ Len(published) = produced /\ Len(delivered) = consumed
      /\ delivered \in Seq(Delivery)
  BY <1>1 DEF TypeOK, Coherent, CountInv, DeliveredInOrder, ReadInv, ReaderPcs
<1> DEFINE b == published[consumed + 1]
<1>3. Taken = delivered /\ Taken' = Append(delivered, [meta |-> b, pixels |-> b])
  BY <1>1, <1>2 DEF Taken
<1>4. Len(Taken) = consumed /\ Len(Taken') = consumed + 1
  <2>1. [meta |-> b, pixels |-> b] \in Delivery
    BY <1>2 DEF Delivery
  <2> HIDE DEF b
  <2> QED
    BY <1>2, <1>3, <2>1
<1>5. /\ Untaken = SubSeq(published, consumed + 1, produced)
      /\ Untaken' = SubSeq(published, consumed + 1 + 1, produced)
  BY <1>1, <1>2, <1>4 DEF Untaken
<1>6. Head(Untaken) = b /\ Untaken' = Tail(Untaken) /\ Untaken # <<>>
  <2>1. consumed + 1 \in 1 .. Len(published) /\ produced \in consumed + 1 .. Len(published)
    BY <1>2
  <2>2. Head(Untaken) = b /\ Untaken' = Tail(Untaken)
    BY <1>2, <1>5, <2>1, HeadTailOfSubSeq, Zenon
  <2>3. \A i \in consumed + 1 .. produced : published[i] \in Halves
    BY <1>2
  <2>4. consumed + 1 \in Int /\ produced \in Int
    BY <1>2
  <2>5. Len(Untaken) = IF consumed + 1 <= produced THEN produced - (consumed + 1) + 1 ELSE 0
    BY <1>5, <2>3, <2>4, SubSeqProperties, Zenon
  <2> QED
    BY <1>2, <2>2, <2>5
<1>7. Queue!Take
  BY <1>1, <1>3, <1>6 DEF Queue!Take, Untaken
<1> QED
  BY <1>7 DEF Queue!Next

\* The store that frees the slot is invisible: the batch was taken before.
LEMMA ReleaseInvisible ==
  ASSUME TypeOK, Coherent, Release
  PROVE  UNCHANGED Queue!vars
<1>1. /\ rpc = "release" /\ rpc' = "idle" /\ UNCHANGED <<rgen, generation, published>>
      /\ delivered' = Append(delivered, [meta |-> read.meta, pixels |-> read.pixels])
  BY DEF Release, Return, writer
<1>2. UNCHANGED <<Adopted, Taken>>
  BY <1>1 DEF Adopted, Taken
<1> QED
  BY <1>1, <1>2, QueueVars DEF Untaken

\* Every other step of a read is invisible.
LEMMA ReadingInvisible ==
  ASSUME BeginRead \/ ReaderStep, ~Release, rpc' # "release"
  PROVE  rpc # "release" /\ UNCHANGED <<rgen, generation, published, delivered>>
  BY DEF BeginRead, ReaderStep, CheckReady, CheckGeneration, ReaderLoadBefore,
     ReaderLoadProduced, ReaderLoadAfter, ReaderDepth, LoadCommitted,
     MismatchGeneration, CopyMeta, CopyPixels, Rest, Step, Return, Keep, header, history, writer

\* A read holds a batch only after its last generation check.
LEMMA ReachesRelease ==
  ASSUME BeginRead \/ ReaderStep, rpc' = "release"
  PROVE  CheckGeneration("gen3", "release")
  BY DEF BeginRead, ReaderStep, CheckReady, CheckGeneration, ReaderLoadBefore,
     ReaderLoadProduced, ReaderLoadAfter, ReaderDepth, LoadCommitted,
     MismatchGeneration, CopyMeta, CopyPixels, Release, Step, Return

\* A reset withdraws the queue at its first store and is invisible after it.
LEMMA ResetQueue ==
  ASSUME TypeOK, Coherent, NEW x \in Writers, ResetStep(x)
  PROVE  [Queue!Next]_(Queue!vars)
<1>1. ~Adopted' /\ UNCHANGED <<rpc, rgen, read, delivered>>
  BY ResetWithdraws DEF Coherent
<1>2. Taken' = Taken /\ Untaken' = <<>>
  BY <1>1 DEF Taken, Untaken
<1>3. CASE Adopted
  <2>1. Queue!Withdraw
    BY <1>1, <1>2, <1>3 DEF Queue!Withdraw, Untaken
  <2> QED
    BY <2>1 DEF Queue!Next
<1>4. CASE ~Adopted
  BY <1>1, <1>2, <1>4, QueueVars DEF Untaken, Adopted
<1> QED
  BY <1>3, <1>4

\* The reader's adoption opens the next epoch with an empty queue.
LEMMA AdoptionOpens ==
  ASSUME TypeOK, Coherent, ReaderAdopt
  PROVE  [Queue!Next]_(Queue!vars)
<1>1. CASE UNCHANGED <<rgen, delivered>>
  BY <1>1, Invisible DEF ReaderAdopt, header
<1>2. CASE Adoptable(rgen) /\ rgen' = target /\ delivered' = <<>>
  <2>1. /\ rpc = "idle" /\ rpc' = "idle" /\ UNCHANGED <<generation, published>>
        /\ target > rgen /\ generation = target /\ produced = 0
        /\ rgen \in Nat /\ target \in Nat
        /\ published \in Seq(Halves) /\ Len(published) = 0
    BY <1>2 DEF ReaderAdopt, Adoptable, header, TypeOK, Coherent, CountInv
  <2>2. ~Adopted /\ Adopted'
    BY <1>2, <2>1 DEF Adopted
  <2>3. Taken' = <<>>
    BY <1>2, <2>1 DEF Taken
  <2>4. Untaken' = <<>>
    <3>1. published = <<>>
      BY <2>1
    <3>2. Untaken' = SubSeq(<<>>, 1, 0)
      BY <2>1, <2>2, <2>3, <3>1 DEF Untaken
    <3> QED
      BY <3>2, SubSeqEmpty
  <2>5. Queue!Adopt
    BY <1>2, <2>1, <2>2, <2>3, <2>4 DEF Queue!Adopt, Untaken
  <2> QED
    BY <2>5 DEF Queue!Next
<1> QED
  BY <1>1, <1>2 DEF ReaderAdopt

\* Every step of the ring is a step of the queue or invisible to its users.
LEMMA QueueStep ==
  ASSUME TypeOK, Coherent, WritesBatch, [Next]_vars
  PROVE  [Queue!Next]_(Queue!vars)
<1> USE DEF header, reader, history, writer
<1>1. CASE Validate \/ Claim \/ DropProducer \/ WorkerCrash
  BY <1>1, Invisible DEF Validate, Claim, DropProducer, WorkerCrash
<1>2. CASE \E b \in Batches : BeginWrite(b)
  BY <1>2, Invisible DEF BeginWrite
<1>3. CASE Publish
  BY <1>3, PublishPuts
<1>4. CASE WorkerStep /\ ~Publish
  BY <1>4, Invisible DEF WorkerStep, WriterLoadBefore, WriterRetry, WriterSettled, ClearSlot,
     FillMeta, FillPixels, CommitSlot, StoreSlot
<1>5. CASE \E g \in 2 .. MaxGeneration : BeginReset(g) \/ OwnerClaim(g)
  BY <1>5, Invisible DEF BeginReset, OwnerClaim
<1>6. CASE OwnerBeginReset \/ OwnerUnclaim
  BY <1>6, Invisible DEF OwnerBeginReset, OwnerUnclaim
<1>7. CASE \E x \in Writers : ResetStep(x)
  BY <1>7, ResetQueue
<1>8. CASE BeginRead \/ ReaderStep
  <2>1. CASE Release
    BY <2>1, ReleaseInvisible
  <2>2. CASE ~Release /\ rpc' = "release"
    BY <1>8, <2>2, ReachesRelease, CheckTakes
  <2>3. CASE ~Release /\ rpc' # "release"
    <3>1. rpc # "release" /\ UNCHANGED <<rgen, generation, published, delivered>>
      BY <1>8, <2>3, ReadingInvisible
    <3>2. UNCHANGED <<Adopted, Taken>>
      BY <2>3, <3>1 DEF Adopted, Taken
    <3> QED
      BY <3>1, <3>2, QueueVars DEF Untaken
  <2> QED
    BY <2>1, <2>2, <2>3
<1>9. CASE OwnerAdopt
  BY <1>9, Invisible DEF OwnerAdopt
<1>10. CASE ReaderAdopt
  BY <1>10, AdoptionOpens
<1>11. CASE UNCHANGED vars
  BY <1>11, Invisible DEF vars
<1> QED
  BY <1>1, <1>2, <1>3, <1>4, <1>5, <1>6, <1>7, <1>8, <1>9, <1>10, <1>11 DEF Next

\* A new mapping is an empty queue.
LEMMA QueueInit == Init => Queue!Init /\ WritesBatch
<1> SUFFICES ASSUME Init PROVE Queue!Init /\ WritesBatch
  OBVIOUS
<1>1. Adopted /\ Taken = <<>> /\ rgen = 1 /\ published = <<>>
  BY DEF Init, Adopted, Taken
<1>2. Untaken = <<>>
  BY <1>1, SubSeqEmpty DEF Untaken
<1> QED
  BY <1>1, <1>2 DEF Queue!Init, Untaken, WritesBatch, WritePcs, Init, Writers

\* The ring is a bounded queue of whole batches to its users, for any number of slots and
\* tries, whatever resets cross its reads (ring_v2.rs, README of the ring).
THEOREM QueueImplemented == Spec => QueueSpec
<1>1. Init => Queue!Init /\ WritesBatch
  BY QueueInit
<1>2. TypeOK /\ WritesBatch /\ [Next]_vars => WritesBatch'
  BY WritesBatchStep
<1>3. TypeOK /\ Coherent /\ WritesBatch /\ [Next]_vars => [Queue!Next]_(Queue!vars)
  BY QueueStep
<1> QED
  BY <1>1, <1>2, <1>3, Coherence, PTL DEF Spec, QueueSpec, Queue!Spec
=============================================================================
