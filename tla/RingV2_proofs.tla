---------------------------- MODULE RingV2_proofs ----------------------------
(* Theorems of RingV2, for every number of slots, tries, sequences and         *)
(* generations, and for quiesced as well as crossing resets.                   *)
EXTENDS RingV2, TLAPS

\* The modulus of a sequence is an index of the mapping (slot_base).
LEMMA IndexInRange == ASSUME NEW s \in Int PROVE Index(s) \in Indexes
  BY SlotCountAssumption DEF Index, Indexes

\* The mapping, the endpoints and the histories keep their types in every step.
LEMMA SeqOf ==
  ASSUME NEW S PROVE <<>> \in Seq(S) /\ \A s \in Seq(S), e \in S : Append(s, e) \in Seq(S)
  OBVIOUS

LEMMA CallFields ==
  ASSUME call \in CallType
  PROVE  /\ call.before \in Nat /\ call.seq \in Nat /\ call.tries \in Nat /\ call.batch \in Halves
         /\ [call EXCEPT !.seq = @ + 1] \in CallType /\ [call EXCEPT !.tries = @ + 1] \in CallType
  BY DEF CallType

LEMMA ReadFields ==
  ASSUME read \in ReadType
  PROVE  /\ read.before \in Nat /\ read.prod \in Nat /\ read.tries \in Nat
         /\ read.meta \in Halves /\ read.pixels \in Halves
         /\ [read EXCEPT !.tries = @ + 1] \in ReadType
  BY DEF ReadType

LEMMA TypeStep == TypeOK /\ [Next]_vars => TypeOK'
<1> SUFFICES ASSUME TypeOK, [Next]_vars PROVE TypeOK'
  OBVIOUS
<1> USE DEF TypeOK, Goto, header, writer, reader, history, Return, Keep, Step, Rest, WriterPcs, ReaderPcs, WritePcs, ResetPcs, Results,
        Ready, Resetting, Writers
<1>1. CASE Validate
  BY <1>1 DEF Validate
<1>2. CASE Claim
  BY <1>2 DEF Claim
<1>3. CASE DropProducer
  BY <1>3 DEF DropProducer
<1>4. CASE WorkerCrash
  BY <1>4 DEF WorkerCrash
<1>5. CASE \E b \in Batches : BeginWrite(b)
  <2> PICK b \in Batches : BeginWrite(b)
    BY <1>5
  <2>1. call' \in CallType
    BY DEF BeginWrite, CallType, Halves
  <2> QED
    BY <2>1 DEF BeginWrite
<1>6. CASE WriterLoadBefore
  BY <1>6 DEF WriterLoadBefore, CallType
<1>7. CASE WriterRetry \/ WriterSettled
  <2>1. call' \in CallType
    BY <1>7, CallFields DEF WriterRetry, WriterSettled
  <2>2. wpc' \in [Writers -> WriterPcs]
    BY <1>7 DEF WriterRetry, WriterSettled
  <2>3. UNCHANGED <<header, slot, wgen, new, index, reader, target, history>>
    BY <1>7 DEF WriterRetry, WriterSettled
  <2> QED
    BY <2>1, <2>2, <2>3
<1>8. CASE ClearSlot \/ FillMeta \/ FillPixels \/ CommitSlot
  <2>1. slot' \in [Indexes -> SlotType]
    <3>1. call.seq \in Nat /\ call.batch \in Halves /\ wgen["worker"] \in Nat
      BY CallFields
    <3>2. Index(call.seq) \in Indexes
      BY <3>1, IndexInRange
    <3>3. EmptySlot \in SlotType
      BY DEF EmptySlot, SlotType, Zero, Halves
    <3>4. slot[Index(call.seq)] \in SlotType
      BY <3>2
    <3>5. /\ [slot[Index(call.seq)] EXCEPT !.gen = wgen["worker"], !.meta = call.batch] \in SlotType
          /\ [slot[Index(call.seq)] EXCEPT !.pixels = call.batch] \in SlotType
          /\ [slot[Index(call.seq)] EXCEPT !.seq = call.seq] \in SlotType
      BY <3>1, <3>4 DEF SlotType
    <3>6. PICK s \in SlotType : slot' = [slot EXCEPT ![Index(call.seq)] = s]
      BY <1>8, <3>3, <3>5 DEF ClearSlot, FillMeta, FillPixels, CommitSlot, StoreSlot
    <3> QED
      BY <3>6
  <2>2. wpc' \in [Writers -> WriterPcs]
    BY <1>8 DEF ClearSlot, FillMeta, FillPixels, CommitSlot, StoreSlot
  <2>3. UNCHANGED <<header, wgen, new, index, call, reader, target, history>>
    BY <1>8 DEF ClearSlot, FillMeta, FillPixels, CommitSlot, StoreSlot
  <2> QED
    BY <2>1, <2>2, <2>3
<1>9. CASE Publish
  <2>1. published' \in Seq(Halves) /\ produced' \in Nat
    BY <1>9, CallFields DEF Publish
  <2> QED
    BY <1>9, <2>1 DEF Publish
<1>10. CASE \E g \in 2 .. MaxGeneration : BeginReset(g) \/ OwnerClaim(g)
  <2>1. PICK g \in 2 .. MaxGeneration : BeginReset(g) \/ OwnerClaim(g)
    BY <1>10
  <2>2. g \in Nat
    BY BoundsAssumption
  <2>3. CASE BeginReset(g)
    BY <2>2, <2>3 DEF BeginReset
  <2>4. CASE OwnerClaim(g)
    BY <2>2, <2>4 DEF OwnerClaim
  <2> QED
    BY <2>1, <2>3, <2>4
<1>11. CASE OwnerBeginReset
  BY <1>11 DEF OwnerBeginReset
<1>12. CASE OwnerUnclaim
  BY <1>12 DEF OwnerUnclaim
<1>13. ASSUME NEW x \in Writers, ResetStep(x) PROVE TypeOK'
  <2>1. CASE ZeroGeneration(x)
    BY <2>1, SlotCountAssumption DEF ZeroGeneration, Indexes
  <2>2. CASE WipeSlot(x)
    <3>1. EmptySlot \in SlotType
      BY DEF EmptySlot, SlotType, Zero, Halves
    <3>2. index[x] \in Nat /\ (index[x] + 1 < SlotCount => index[x] + 1 \in Indexes)
      BY SlotCountAssumption DEF Indexes
    <3> QED
      BY <2>2, <3>1, <3>2 DEF WipeSlot
  <2>3. CASE ZeroProduced(x)
    BY <2>3 DEF ZeroProduced
  <2>4. CASE ZeroConsumed(x)
    BY <2>4 DEF ZeroConsumed
  <2>5. CASE StoreGeneration(x)
    BY <2>5 DEF StoreGeneration
  <2>6. CASE StoreReady(x)
    BY <2>6 DEF StoreReady
  <2> QED
    BY <1>13, <2>1, <2>2, <2>3, <2>4, <2>5, <2>6 DEF ResetStep
<1>14. CASE BeginRead
  BY <1>14 DEF BeginRead, ReadType
<1>15. CASE ReaderStep
  <2>1. CASE \E from, to \in ReaderPcs : CheckReady(from, to) \/ CheckGeneration(from, to)
    <3>1. PICK from \in ReaderPcs, to \in ReaderPcs :
            CheckReady(from, to) \/ CheckGeneration(from, to)
      BY <2>1
    <3>2. rpc' \in {to, "idle"} /\ result' \in {result, "stale"} /\ UNCHANGED read
      BY <3>1 DEF CheckReady, CheckGeneration
    <3>3. UNCHANGED <<header, slot, writer, rgen, target, history>>
      BY <3>1 DEF CheckReady, CheckGeneration
    <3> QED
      BY <3>2, <3>3
  <2>2. CASE ReaderLoadBefore \/ ReaderLoadProduced
    BY <2>2 DEF ReaderLoadBefore, ReaderLoadProduced, ReadType
  <2>3. CASE ReaderLoadAfter
    BY <2>3, ReadFields DEF ReaderLoadAfter
  <2>4. CASE ReaderDepth \/ LoadCommitted \/ MismatchGeneration
    BY <2>4 DEF ReaderDepth, LoadCommitted, MismatchGeneration
  <2>5. CASE CopyMeta \/ CopyPixels
    <3>1. slot[Index(Wanted)] \in SlotType
      BY SMTT(30), ReadFields, IndexInRange DEF Wanted
    <3>2. read' \in ReadType
      <4>1. slot[Index(Wanted)].meta \in Halves /\ slot[Index(Wanted)].pixels \in Halves
        BY <3>1 DEF SlotType
      <4>2. /\ \A h \in Halves : [read EXCEPT !.meta = h] \in ReadType
            /\ \A h \in Halves : [read EXCEPT !.pixels = h] \in ReadType
        BY DEF ReadType
      <4> QED
        BY <2>5, <4>1, <4>2 DEF CopyMeta, CopyPixels
    <3> QED
      BY <2>5, <3>2 DEF CopyMeta, CopyPixels
  <2>6. CASE Release
    <3>1. [meta |-> read.meta, pixels |-> read.pixels] \in Delivery
      BY ReadFields DEF Delivery
    <3>2. delivered' = Append(delivered, [meta |-> read.meta, pixels |-> read.pixels])
      BY <2>6 DEF Release
    <3>3. delivered' \in Seq(Delivery)
      <4>1. delivered \in Seq(Delivery)
        BY DEF TypeOK
      <4> HIDE DEF TypeOK, Delivery
      <4> QED
        BY <3>1, <3>2, <4>1, SeqOf
    <3>4. consumed' \in Nat
      <4>1. read \in ReadType /\ consumed' = read.before + 1
        BY <2>6 DEF Release, Wanted
      <4> HIDE DEF TypeOK
      <4> QED
        BY <4>1, ReadFields
    <3>5. /\ rpc' \in ReaderPcs /\ result' \in Results
          /\ UNCHANGED <<state, generation, produced, claim, slot, writer, rgen, read,
                        target, published>>
      BY <2>6 DEF Release
    <3> QED
      BY <3>3, <3>4, <3>5
  <2> QED
    BY <1>15, <2>1, <2>2, <2>3, <2>4, <2>5, <2>6 DEF ReaderStep
<1>16. CASE OwnerAdopt
  BY <1>16 DEF OwnerAdopt
<1>17. CASE ReaderAdopt
  <2>1. delivered' = <<>> \/ delivered' = delivered
    BY <1>17 DEF ReaderAdopt
  <2>2. delivered' \in Seq(Delivery)
    BY <2>1, SeqOf
  <2> QED
    BY <1>17, <2>2 DEF ReaderAdopt
<1>18. CASE UNCHANGED vars
  BY <1>18 DEF vars
<1> QED
  BY <1>1, <1>2, <1>3, <1>4, <1>5, <1>6, <1>7, <1>8, <1>9, <1>10, <1>11, <1>12, <1>13, <1>14, <1>15, <1>16, <1>17, <1>18
  DEF Next, WorkerStep

-----------------------------------------------------------------------------
\* A step of a read touches nothing of the mapping, except that the last one
\* releases the slot (read_mapping_batch).
LEMMA ReaderFrame ==
  ASSUME BeginRead \/ ReaderStep
  PROVE  /\ UNCHANGED <<state, generation, produced, claim, slot>>
         /\ UNCHANGED <<wpc, wgen, new, index, call, rgen, target, published>>
         /\ (UNCHANGED <<consumed, delivered>>) \/ Release
  BY DEF BeginRead, ReaderStep, CheckReady, CheckGeneration, ReaderLoadBefore,
     ReaderLoadProduced, ReaderLoadAfter, ReaderDepth, LoadCommitted,
     MismatchGeneration, CopyMeta, CopyPixels, Release, Rest, header, writer, history

\* The claim keeps the producer endpoints apart: an endpoint mutates the mapping
\* only between its own compare-exchange and its own release of the claim.
LEMMA ClaimStep == TypeOK /\ SoleWriter /\ [Next]_vars => SoleWriter'
<1> SUFFICES ASSUME TypeOK, SoleWriter, [Next]_vars PROVE SoleWriter'
  OBVIOUS
<1> wpc \in [Writers -> WriterPcs]
  BY DEF TypeOK
<1> USE DEF SoleWriter, Mutating, Writers, At, Goto, header, ResetPcs
<1>1. CASE Validate \/ Claim \/ DropProducer \/ WorkerCrash
  BY <1>1 DEF Validate, Claim, DropProducer, WorkerCrash
<1>2. CASE \E b \in Batches : BeginWrite(b)
  BY <1>2 DEF BeginWrite
<1>3. CASE WorkerStep
  BY <1>3 DEF WorkerStep, WriterLoadBefore, WriterRetry, WriterSettled, ClearSlot,
     FillMeta, FillPixels, CommitSlot, StoreSlot, Publish
<1>4. CASE \E g \in 2 .. MaxGeneration : BeginReset(g) \/ OwnerClaim(g)
  BY <1>4 DEF BeginReset, OwnerClaim
<1>5. CASE OwnerBeginReset \/ OwnerUnclaim
  BY <1>5 DEF OwnerBeginReset, OwnerUnclaim
<1>6. CASE \E x \in Writers : ResetStep(x)
  BY <1>6 DEF ResetStep, ZeroGeneration, WipeSlot, ZeroProduced, ZeroConsumed,
     StoreGeneration, StoreReady
<1>7. CASE BeginRead \/ ReaderStep
  BY <1>7, ReaderFrame
<1>8. CASE OwnerAdopt \/ ReaderAdopt
  BY <1>8 DEF OwnerAdopt, ReaderAdopt, writer
<1>9. CASE UNCHANGED vars
  BY <1>9 DEF vars
<1> QED
  BY <1>1, <1>2, <1>3, <1>4, <1>5, <1>6, <1>7, <1>8, <1>9 DEF Next

\* A reset runs through its steps alone and leads to a generation that is new.
LEMMA LifeStep == TypeOK /\ SoleWriter /\ LifeInv /\ [Next]_vars => LifeInv'
<1> SUFFICES ASSUME TypeOK, SoleWriter, LifeInv, [Next]_vars PROVE LifeInv'
  OBVIOUS
<1> /\ wpc \in [Writers -> WriterPcs] /\ new \in [Writers -> Nat] /\ wgen \in [Writers -> Nat]
    /\ generation \in Nat /\ rgen \in Nat /\ target \in Nat
  BY DEF TypeOK
<1> USE DEF LifeInv, At, Goto, header, ResetPcs, LiveFor, Commandable, Writers, Ready, Resetting
<1>1. CASE Validate \/ Claim \/ DropProducer \/ WorkerCrash
  BY <1>1 DEF Validate, Claim, DropProducer, WorkerCrash, reader
<1>2. CASE \E b \in Batches : BeginWrite(b)
  BY <1>2 DEF BeginWrite, reader
<1>3. CASE WorkerStep
  BY <1>3 DEF WorkerStep, WriterLoadBefore, WriterRetry, WriterSettled, ClearSlot,
     FillMeta, FillPixels, CommitSlot, StoreSlot, Publish, reader
<1>4. ASSUME NEW g \in 2 .. MaxGeneration, BeginReset(g) \/ OwnerClaim(g) PROVE LifeInv'
  <2> g \in Nat
    BY BoundsAssumption
  <2>1. CASE BeginReset(g)
    BY <2>1 DEF BeginReset, reader, SoleWriter, Mutating
  <2>2. CASE OwnerClaim(g)
    BY <2>2 DEF OwnerClaim, reader
  <2> QED
    BY <1>4, <2>1, <2>2
<1>5. CASE OwnerBeginReset \/ OwnerUnclaim
  BY <1>5 DEF OwnerBeginReset, OwnerUnclaim, reader
<1>6. ASSUME NEW x \in Writers, ResetStep(x) PROVE LifeInv'
  <2> \A y \in Writers : y # x => wpc[y] \notin ResetPcs /\ ~(y = "owner" /\ At(y, "cas"))
    BY <1>6 DEF ResetStep, ZeroGeneration, WipeSlot, ZeroProduced, ZeroConsumed,
       StoreGeneration, StoreReady, SoleWriter, Mutating
  <2>1. CASE ZeroGeneration(x)
    BY <2>1 DEF ZeroGeneration, reader
  <2>2. CASE WipeSlot(x)
    BY <2>2 DEF WipeSlot, reader
  <2>3. CASE ZeroProduced(x)
    BY <2>3 DEF ZeroProduced, reader
  <2>4. CASE ZeroConsumed(x)
    BY <2>4 DEF ZeroConsumed, reader
  <2>5. CASE StoreGeneration(x)
    BY <2>5 DEF StoreGeneration, reader
  <2>6. CASE StoreReady(x)
    BY <2>6 DEF StoreReady, reader
  <2> QED
    BY <1>6, <2>1, <2>2, <2>3, <2>4, <2>5, <2>6 DEF ResetStep
<1>7. CASE BeginRead \/ ReaderStep
  BY <1>7, ReaderFrame
<1>8. CASE OwnerAdopt \/ ReaderAdopt
  BY <1>8 DEF OwnerAdopt, ReaderAdopt, Adoptable, writer, reader
<1>9. CASE UNCHANGED vars
  BY <1>9 DEF vars
<1> QED
  BY <1>1, <1>2, <1>3, <1>4, <1>5, <1>6, <1>7, <1>8, <1>9 DEF Next
-----------------------------------------------------------------------------
LEMMA Division ==
  ASSUME NEW N \in Nat \ {0}, NEW a \in Int
  PROVE  a = N * (a \div N) + (a % N)
  OBVIOUS

LEMMA NoMultipleBetween ==
  ASSUME NEW N \in Nat \ {0}, NEW k \in Int, NEW d \in Int, d = N * k, 0 < d, d < N
  PROVE  FALSE
<1>1. CASE k <= 0
  BY <1>1
<1>2. CASE k >= 1
  <2>1. N * k >= N * 1
    BY <1>2
  <2> QED
    BY <2>1
<1> QED
  BY <1>1, <1>2

\* Sequences less than a ring apart have different slots.
LEMMA IndexApart ==
  ASSUME NEW s \in Nat, NEW t \in Nat, s < t, t - s < SlotCount
  PROVE  Index(s) # Index(t)
<1> DEFINE a == t - 1
           b == s - 1
           qa == a \div SlotCount
           qb == b \div SlotCount
<1> SUFFICES ASSUME a % SlotCount = b % SlotCount PROVE FALSE
  BY DEF Index
<1>1. a \in Int /\ b \in Int /\ qa \in Int /\ qb \in Int
  BY SlotCountAssumption
<1>2. a = SlotCount * qa + (a % SlotCount) /\ b = SlotCount * qb + (b % SlotCount)
  BY <1>1, SlotCountAssumption, Division
<1>3. a - b = SlotCount * qa - SlotCount * qb
  BY <1>1, <1>2, SlotCountAssumption
<1>4. SlotCount * qa - SlotCount * qb = SlotCount * (qa - qb)
  BY <1>1, SlotCountAssumption
<1>5. a - b \in Int /\ qa - qb \in Int /\ 0 < a - b /\ a - b < SlotCount
  BY <1>1, SlotCountAssumption
<1> HIDE DEF a, b, qa, qb
<1> QED
  BY <1>3, <1>4, <1>5, NoMultipleBetween, SlotCountAssumption

\* While a reset is under way the mapping is in no generation the reader has adopted.
LEMMA ResetWithdraws ==
  ASSUME TypeOK, LifeInv, NEW x \in Writers, ResetStep(x)
  PROVE  ~Adopted' /\ UNCHANGED <<rpc, rgen, read, delivered>>
<1> generation \in Nat /\ rgen \in Nat /\ rgen > 0 /\ new[x] \in Nat
    /\ (wpc[x] \in ResetPcs => new[x] > rgen)
  BY DEF TypeOK, LifeInv
<1> USE DEF LifeInv, Adopted, ResetPcs, At, header, reader, history
<1>1. CASE ZeroGeneration(x)
  BY <1>1 DEF ZeroGeneration
<1>2. CASE WipeSlot(x)
  BY <1>2 DEF WipeSlot
<1>3. CASE ZeroProduced(x)
  BY <1>3 DEF ZeroProduced
<1>4. CASE ZeroConsumed(x)
  BY <1>4 DEF ZeroConsumed
<1>5. CASE StoreGeneration(x)
  BY <1>5 DEF StoreGeneration
<1>6. CASE StoreReady(x)
  BY <1>6 DEF StoreReady
<1> QED
  BY <1>1, <1>2, <1>3, <1>4, <1>5, <1>6 DEF ResetStep

\* What a release does while the mapping is still in the reader's generation.
LEMMA ReleaseAdvances ==
  ASSUME TypeOK, ReadInv, Release, Adopted
  PROVE  consumed' = consumed + 1 /\ consumed < produced
  BY DEF TypeOK, ReadInv, Release, Wanted, ReaderPcs

\* The batch in the making advances store by store, whatever the reader does.
LEMMA WriteStep ==
  TypeOK /\ SoleWriter /\ LifeInv /\ CountInv /\ ReadInv /\ WriteInv /\ [Next]_vars => WriteInv'
<1> SUFFICES ASSUME TypeOK, SoleWriter, LifeInv, CountInv, ReadInv, WriteInv, [Next]_vars
             PROVE  WriteInv'
  OBVIOUS
<1> /\ wpc \in [Writers -> WriterPcs] /\ wgen \in [Writers -> Nat]
    /\ slot \in [Indexes -> SlotType] /\ produced \in Nat /\ consumed \in Nat
    /\ call \in CallType /\ call.seq \in Nat /\ Index(call.seq) \in Indexes
  BY CallFields, IndexInRange DEF TypeOK
<1> USE DEF WriteInv, At, Goto, header, WritePcs, Writers
<1>1. CASE Validate \/ Claim \/ DropProducer \/ WorkerCrash
  BY <1>1 DEF Validate, Claim, DropProducer, WorkerCrash
<1>2. CASE \E b \in Batches : BeginWrite(b)
  BY <1>2 DEF BeginWrite, LiveFor, Commandable
<1>3. CASE WorkerStep
  <2>1. CASE WriterLoadBefore
    BY <2>1 DEF WriterLoadBefore, CallType
  <2>2. CASE WriterRetry
    BY <2>2 DEF WriterRetry, CallType
  <2>3. CASE WriterSettled
    BY <2>3, SlotCountAssumption DEF WriterSettled, CallType
  <2>4. CASE ClearSlot
    <3>1. slot'[Index(call.seq)] = EmptySlot
      BY <2>4 DEF ClearSlot, StoreSlot
    <3>2. wpc' = [wpc EXCEPT !["worker"] = "meta"] /\ wpc["worker"] = "clear"
      BY <2>4 DEF ClearSlot, StoreSlot
    <3>3. UNCHANGED <<state, generation, produced, consumed, call, wgen, target>>
      BY <2>4 DEF ClearSlot, StoreSlot
    <3> QED
      BY <3>1, <3>2, <3>3
  <2>5. CASE FillMeta
    <3>1. wpc["worker"] = "meta" /\ slot[Index(call.seq)] = EmptySlot
      BY <2>5 DEF FillMeta, StoreSlot
    <3>2. slot'[Index(call.seq)] = [seq |-> 0, gen |-> wgen["worker"],
                                    meta |-> call.batch, pixels |-> Zero]
      <4>1. slot'[Index(call.seq)] =
              [EmptySlot EXCEPT !.gen = wgen["worker"], !.meta = call.batch]
        BY <2>5, <3>1 DEF FillMeta, StoreSlot
      <4> QED
        BY <4>1 DEF EmptySlot
    <3>3. wpc' = [wpc EXCEPT !["worker"] = "pixels"]
      BY <2>5 DEF FillMeta, StoreSlot
    <3>4. UNCHANGED <<state, generation, produced, consumed, call, wgen, target>>
      BY <2>5 DEF FillMeta, StoreSlot
    <3> QED
      BY <3>1, <3>2, <3>3, <3>4
  <2>6. CASE FillPixels
    BY <2>6 DEF FillPixels, StoreSlot
  <2>7. CASE CommitSlot
    BY <2>7 DEF CommitSlot, StoreSlot, Committed
  <2>8. CASE Publish
    BY <2>8 DEF Publish
  <2> QED
    BY <1>3, <2>1, <2>2, <2>3, <2>4, <2>5, <2>6, <2>7, <2>8 DEF WorkerStep
<1>4. CASE \E g \in 2 .. MaxGeneration : BeginReset(g) \/ OwnerClaim(g)
  BY <1>4 DEF BeginReset, OwnerClaim, SoleWriter, Mutating, Committed
<1>5. CASE OwnerBeginReset \/ OwnerUnclaim
  BY <1>5 DEF OwnerBeginReset, OwnerUnclaim, SoleWriter, Mutating, Committed
<1>6. ASSUME NEW x \in Writers, ResetStep(x) PROVE WriteInv'
  <2>1. wpc["worker"] \notin WritePcs
    BY <1>6 DEF ResetStep, ZeroGeneration, WipeSlot, ZeroProduced, ZeroConsumed,
       StoreGeneration, StoreReady, SoleWriter, Mutating
  <2>2. wpc'["worker"] \notin WritePcs
    BY <1>6, <2>1 DEF ResetStep, ZeroGeneration, WipeSlot, ZeroProduced, ZeroConsumed,
       StoreGeneration, StoreReady
  <2> QED
    BY <2>2
<1>7. CASE BeginRead \/ ReaderStep
  <2>1. wpc["worker"] \in WritePcs => Adopted
    BY DEF LifeInv, Adopted
  <2>2. wpc["worker"] \in WritePcs => consumed' = consumed \/ consumed' = consumed + 1
    BY <1>7, <2>1, ReaderFrame, ReleaseAdvances
  <2> QED
    BY <1>7, <2>2, ReaderFrame, SlotCountAssumption DEF Committed
<1>8. CASE OwnerAdopt \/ ReaderAdopt
  BY <1>8 DEF OwnerAdopt, ReaderAdopt, writer, Committed
<1>9. CASE UNCHANGED vars
  BY <1>9 DEF vars, Committed
<1> QED
  BY <1>1, <1>2, <1>3, <1>4, <1>5, <1>6, <1>7, <1>8, <1>9 DEF Next

\* The histories follow the sequences, and a writer never runs a ring ahead.
LEMMA CountStep ==
  TypeOK /\ LifeInv /\ WriteInv /\ CountInv /\ ReadInv /\ [Next]_vars => CountInv'
<1> SUFFICES ASSUME TypeOK, LifeInv, WriteInv, CountInv, ReadInv, [Next]_vars
             PROVE  CountInv'
  OBVIOUS
<1> /\ produced \in Nat /\ consumed \in Nat /\ published \in Seq(Halves) /\ call.seq \in Nat
  BY CallFields DEF TypeOK
<1> USE DEF CountInv, Adopted, At, header, reader, history
<1>1. CASE Validate \/ Claim \/ DropProducer \/ WorkerCrash
  BY <1>1 DEF Validate, Claim, DropProducer, WorkerCrash
<1>2. CASE \E b \in Batches : BeginWrite(b)
  BY <1>2 DEF BeginWrite
<1>3. CASE WorkerStep
  <2>1. CASE Publish
    <3>1. produced' = produced + 1 /\ produced + 1 - consumed <= SlotCount
      BY <2>1 DEF Publish, WriteInv, WritePcs
    <3>2. Len(published') = Len(published) + 1
      BY <2>1 DEF Publish
    <3> QED
      BY <2>1, <3>1, <3>2, SlotCountAssumption DEF Publish
  <2>2. CASE ~Publish
    BY <1>3, <2>2 DEF WorkerStep, WriterLoadBefore, WriterRetry, WriterSettled, ClearSlot,
       FillMeta, FillPixels, CommitSlot, StoreSlot
  <2> QED
    BY <2>1, <2>2
<1>4. CASE \E g \in 2 .. MaxGeneration : BeginReset(g) \/ OwnerClaim(g)
  BY <1>4 DEF BeginReset, OwnerClaim
<1>5. CASE OwnerBeginReset \/ OwnerUnclaim
  BY <1>5 DEF OwnerBeginReset, OwnerUnclaim
<1>6. ASSUME NEW x \in Writers, ResetStep(x) PROVE CountInv'
  <2>1. ~Adopted'
    BY <1>6, ResetWithdraws
  <2>2. Len(published') = produced'
    BY <1>6 DEF ResetStep, ZeroGeneration, WipeSlot, ZeroProduced, ZeroConsumed,
       StoreGeneration, StoreReady
  <2> QED
    BY <2>1, <2>2
<1>7. CASE BeginRead \/ ReaderStep
  BY <1>7, ReaderFrame, ReleaseAdvances, SlotCountAssumption
<1>8. CASE OwnerAdopt \/ ReaderAdopt
  BY <1>8, SlotCountAssumption DEF OwnerAdopt, ReaderAdopt, Adoptable
<1>9. CASE UNCHANGED vars
  BY <1>9 DEF vars
<1> QED
  BY <1>1, <1>2, <1>3, <1>4, <1>5, <1>6, <1>7, <1>8, <1>9 DEF Next
-----------------------------------------------------------------------------
\* Steps of the producers keep what the reader has loaded valid: in its generation
\* they only append to what is published.
LEMMA WritersAppend ==
  ASSUME TypeOK, SoleWriter, LifeInv, WriteInv, CountInv, [Next]_vars,
         UNCHANGED <<rpc, rgen>>
  PROVE  /\ Adopted' => Adopted
         /\ Adopted' => /\ produced <= produced' /\ consumed' = consumed
                        /\ \A i \in 1 .. produced : published'[i] = published[i]
<1> /\ produced \in Nat /\ consumed \in Nat /\ published \in Seq(Halves)
    /\ call.seq \in Nat
  BY CallFields DEF TypeOK
<1> USE DEF Adopted, At, header, reader, history, writer
<1>1. CASE Validate \/ Claim \/ DropProducer \/ WorkerCrash
  BY <1>1 DEF Validate, Claim, DropProducer, WorkerCrash
<1>2. CASE \E b \in Batches : BeginWrite(b)
  BY <1>2 DEF BeginWrite
<1>3. CASE WorkerStep
  <2>1. CASE Publish
    <3>1. produced' = produced + 1 /\ Len(published) = produced
      BY <2>1 DEF Publish, WriteInv, WritePcs, CountInv
    <3>2. \A i \in 1 .. produced : published'[i] = published[i]
      BY <2>1, <3>1 DEF Publish
    <3> QED
      BY <2>1, <3>1, <3>2 DEF Publish
  <2>2. CASE ~Publish
    BY <1>3, <2>2 DEF WorkerStep, WriterLoadBefore, WriterRetry, WriterSettled, ClearSlot,
       FillMeta, FillPixels, CommitSlot, StoreSlot
  <2> QED
    BY <2>1, <2>2
<1>4. CASE \E g \in 2 .. MaxGeneration : BeginReset(g) \/ OwnerClaim(g)
  BY <1>4 DEF BeginReset, OwnerClaim
<1>5. CASE OwnerBeginReset \/ OwnerUnclaim
  BY <1>5 DEF OwnerBeginReset, OwnerUnclaim
<1>6. ASSUME NEW x \in Writers, ResetStep(x)
      PROVE  /\ Adopted' => Adopted
             /\ Adopted' => /\ produced <= produced' /\ consumed' = consumed
                            /\ \A i \in 1 .. produced : published'[i] = published[i]
  BY <1>6, ResetWithdraws
<1>7. CASE BeginRead \/ ReaderStep
  BY <1>7, ReaderFrame DEF BeginRead, Step, Release, Return
<1>8. CASE OwnerAdopt \/ ReaderAdopt
  BY <1>8 DEF OwnerAdopt, ReaderAdopt, Adoptable
<1>9. CASE UNCHANGED vars
  BY <1>9 DEF vars
<1> QED
  BY <1>1, <1>2, <1>3, <1>4, <1>5, <1>6, <1>7, <1>8, <1>9 DEF Next
\* Whoever else takes a step leaves the reader alone; only the adoption moves it.
LEMMA ReaderAlone ==
  ASSUME [Next]_vars, ~(BeginRead \/ ReaderStep), ~ReaderAdopt
  PROVE  UNCHANGED <<rpc, rgen, read, delivered>>
  BY DEF Next, vars, Validate, Claim, DropProducer, WorkerCrash, BeginWrite, WorkerStep,
     WriterLoadBefore, WriterRetry, WriterSettled, ClearSlot, FillMeta, FillPixels,
     CommitSlot, StoreSlot, Publish, BeginReset, OwnerClaim, OwnerBeginReset, OwnerUnclaim,
     ResetStep, ZeroGeneration, WipeSlot, ZeroProduced, ZeroConsumed, StoreGeneration,
     StoreReady, OwnerAdopt, reader, history

\* What the reader has loaded stays true of the mapping until it is released.
LEMMA ReadStep ==
  TypeOK /\ SoleWriter /\ LifeInv /\ WriteInv /\ CountInv /\ ReadInv /\ UnreadIntact
    /\ [Next]_vars => ReadInv'
<1> SUFFICES ASSUME TypeOK, SoleWriter, LifeInv, WriteInv, CountInv, ReadInv, UnreadIntact,
                    [Next]_vars
             PROVE  ReadInv'
  OBVIOUS
<1> /\ produced \in Nat /\ consumed \in Nat /\ read \in ReadType /\ rpc \in ReaderPcs
    /\ read.before \in Nat /\ read.prod \in Nat
  BY ReadFields DEF TypeOK
<1>1. CASE UNCHANGED <<rpc, rgen, read>>
  <2>1. \A i \in 1 .. produced : Adopted' => published'[i] = published[i]
    BY <1>1, WritersAppend
  <2>2. Adopted' => Adopted /\ produced <= produced' /\ consumed' = consumed
    BY <1>1, WritersAppend
  <2>3. produced' \in Nat
    BY TypeStep DEF TypeOK
  <2>4. Adopted' /\ consumed < produced => published'[consumed + 1] = published[consumed + 1]
    BY <2>1
  <2> QED
    BY <1>1, <2>2, <2>3, <2>4 DEF ReadInv, ReaderPcs
<1>2. CASE BeginRead \/ ReaderStep
  <2> /\ UNCHANGED <<generation, rgen, produced, published>>
      /\ Adopted' <=> Adopted
    BY <1>2, ReaderFrame DEF Adopted
  <2> USE DEF Rest, header, history, Step, Keep, Return
  <2>1. CASE BeginRead
    BY <2>1 DEF BeginRead, ReadInv
  <2>2. CASE CheckReady("ready1", "gen1") \/ CheckGeneration("gen1", "before")
    BY <2>2 DEF CheckReady, CheckGeneration, ReadInv
  <2>3. CASE ReaderLoadBefore
    BY <2>3 DEF ReaderLoadBefore, ReadInv, ReadType
  <2>4. CASE ReaderLoadProduced
    BY <2>4 DEF ReaderLoadProduced, ReadInv, ReadType, ReaderPcs
  <2>5. CASE ReaderLoadAfter
    BY <2>5 DEF ReaderLoadAfter, ReadInv, ReadType, ReaderPcs
  <2>6. CASE CheckReady("ready2", "depth")
    BY <2>6 DEF CheckReady, ReadInv, ReaderPcs
  <2>7. CASE ReaderDepth
    BY <2>7 DEF ReaderDepth, ReadInv, ReaderPcs
  <2>8. CASE LoadCommitted
    BY <2>8 DEF LoadCommitted, ReadInv, ReaderPcs
  <2>9. CASE CheckReady("mismatch_ready", "mismatch_gen") \/ MismatchGeneration
    BY <2>9 DEF CheckReady, MismatchGeneration, ReadInv, ReaderPcs
  <2>10. CASE CopyMeta \/ CopyPixels
    <3>1. rpc \in {"meta", "pixels"}
      BY <2>10 DEF CopyMeta, CopyPixels
    <3>2. Adopted => /\ Wanted = consumed + 1 /\ consumed < produced
                     /\ slot[Index(Wanted)] = Committed(consumed + 1, generation, published[consumed + 1])
      <4>1. Adopted => Wanted = consumed + 1 /\ consumed < produced
        BY <3>1 DEF ReadInv, Wanted, ReaderPcs
      <4> QED
        BY <4>1 DEF UnreadIntact
    <3>3. CASE CopyMeta
      BY <3>2, <3>3 DEF CopyMeta, ReadInv, ReaderPcs, Committed, ReadType
    <3>4. CASE CopyPixels
      BY <3>2, <3>4 DEF CopyPixels, ReadInv, ReaderPcs, Committed, ReadType
    <3> QED
      BY <2>10, <3>3, <3>4
  <2>11. CASE CheckReady("ready3", "gen3") \/ CheckGeneration("gen3", "release")
    BY <2>11 DEF CheckReady, CheckGeneration, ReadInv, ReaderPcs
  <2>12. CASE Release
    BY <2>12 DEF Release, ReadInv
  <2> QED
    BY <1>2, <2>1, <2>2, <2>3, <2>4, <2>5, <2>6, <2>7, <2>8, <2>9, <2>10, <2>11, <2>12
    DEF ReaderStep
<1>3. CASE ReaderAdopt
  BY <1>3 DEF ReaderAdopt, ReadInv, ReaderPcs, Adoptable
<1> QED
  BY <1>1, <1>2, <1>3, ReaderAlone

\* A batch that passed the last generation check is whole: both halves are those of
\* the one batch published under the sequence being released.
LEMMA HeldStep ==
  TypeOK /\ ReadInv /\ HeldBatchWhole /\ [Next]_vars => HeldBatchWhole'
<1> SUFFICES ASSUME TypeOK, ReadInv, HeldBatchWhole, [Next]_vars, rpc' = "release"
             PROVE  read'.meta = read'.pixels /\ read'.meta # Zero
  BY DEF HeldBatchWhole
<1>1. CASE UNCHANGED <<rpc, rgen, read>>
  BY <1>1 DEF HeldBatchWhole
<1>2. CASE BeginRead \/ ReaderStep
  <2>1. CheckGeneration("gen3", "release")
    BY <1>2 DEF BeginRead, ReaderStep, CheckReady, CheckGeneration, ReaderLoadBefore,
       ReaderLoadProduced, ReaderLoadAfter, ReaderDepth, LoadCommitted,
       MismatchGeneration, CopyMeta, CopyPixels, Release, Step, Return
  <2> QED
    BY <2>1 DEF CheckGeneration, Step, Keep, Return, ReadInv, Adopted
<1>3. CASE ReaderAdopt
  BY <1>3 DEF ReaderAdopt
<1> QED
  BY <1>1, <1>2, <1>3, ReaderAlone

\* The reader's history grows by exactly the batch after the last one it holds.
LEMMA DeliveredStep ==
  TypeOK /\ SoleWriter /\ LifeInv /\ WriteInv /\ CountInv /\ ReadInv /\ DeliveredInOrder
    /\ [Next]_vars => DeliveredInOrder'
<1> SUFFICES ASSUME TypeOK, SoleWriter, LifeInv, WriteInv, CountInv, ReadInv,
                    DeliveredInOrder, [Next]_vars, Adopted'
             PROVE  /\ consumed' <= Len(published') /\ Len(delivered') = consumed'
                    /\ \A i \in 1 .. consumed' : delivered'[i] = Whole(published'[i])
  BY DEF DeliveredInOrder, Whole
<1> /\ produced \in Nat /\ consumed \in Nat /\ delivered \in Seq(Delivery)
    /\ Len(published) = produced
  BY DEF TypeOK, CountInv
<1> Len(published') = produced' /\ produced' \in Nat
  BY CountStep, TypeStep DEF CountInv, TypeOK
<1>1. CASE UNCHANGED <<rpc, rgen, read, delivered>>
  BY <1>1, WritersAppend DEF DeliveredInOrder
<1>2. CASE Release
  <2>1. Adopted /\ UNCHANGED <<published, produced>>
    BY <1>2 DEF Release, Adopted, writer
  <2>2. consumed' = consumed + 1 /\ consumed < produced
    BY <1>2, <2>1, ReleaseAdvances
  <2>3. delivered' = Append(delivered, Whole(published[consumed + 1]))
    BY <1>2, <2>1 DEF Release, ReadInv, Whole
  <2>4. /\ Len(delivered') = consumed + 1
        /\ delivered'[consumed + 1] = Whole(published[consumed + 1])
        /\ \A i \in 1 .. consumed : delivered'[i] = delivered[i]
    BY <2>1, <2>3 DEF DeliveredInOrder
  <2> QED
    BY <2>1, <2>2, <2>4 DEF DeliveredInOrder
<1>3. CASE (BeginRead \/ ReaderStep) /\ ~Release
  <2> UNCHANGED <<generation, rgen, produced, published, consumed, delivered>>
    BY <1>3, ReaderFrame
  <2> QED
    BY DEF DeliveredInOrder, Adopted
<1>4. CASE ReaderAdopt
  <2>1. \/ /\ consumed = 0 /\ produced = 0 /\ delivered' = <<>>
           /\ UNCHANGED <<consumed, published>>
        \/ UNCHANGED <<generation, rgen, consumed, published, delivered>>
    BY <1>4 DEF ReaderAdopt, Adoptable, header
  <2> QED
    BY <2>1 DEF DeliveredInOrder, Adopted
<1> QED
  BY <1>1, <1>2, <1>3, <1>4, ReaderAlone

\* A sequence after the last released one is a positive number.
LEMMA AfterConsumed ==
  ASSUME NEW a \in Nat, NEW b \in Nat, NEW q \in a + 1 .. b
  PROVE  q \in Nat /\ a < q /\ q <= b
  OBVIOUS

\* No step of a writer reaches a slot whose batch is published and unread.
LEMMA UnreadStep ==
  TypeOK /\ SoleWriter /\ LifeInv /\ WriteInv /\ CountInv /\ ReadInv /\ UnreadIntact
    /\ [Next]_vars => UnreadIntact'
<1> SUFFICES ASSUME TypeOK, SoleWriter, LifeInv, WriteInv, CountInv, ReadInv, UnreadIntact,
                    [Next]_vars
             PROVE  UnreadIntact'
  OBVIOUS
<1>14. produced' \in Nat /\ consumed' \in Nat
  <2> TypeOK'
    BY TypeStep
  <2> QED
    BY DEF TypeOK
<1> SUFFICES ASSUME Adopted', NEW q \in consumed' + 1 .. produced'
             PROVE  slot'[Index(q)] = Committed(q, generation', published'[q])
  BY DEF UnreadIntact
<1>15. q \in Nat /\ consumed' < q /\ q <= produced'
  BY <1>14, AfterConsumed
<1> q \in Nat /\ consumed' < q /\ q <= produced' /\ produced' \in Nat /\ consumed' \in Nat
  BY <1>14, <1>15
<1> /\ produced \in Nat /\ consumed \in Nat /\ published \in Seq(Halves) /\ call.seq \in Nat
    /\ generation \in Nat /\ slot \in [Indexes -> SlotType] /\ Index(call.seq) \in Indexes
    /\ Index(q) \in Indexes
  BY SMTT(30), CallFields, IndexInRange DEF TypeOK
<1>0. ASSUME Adopted, consumed < q, q <= produced
      PROVE  slot[Index(q)] = Committed(q, generation, published[q])
  BY <1>0 DEF UnreadIntact
<1> USE DEF Adopted, header, reader, history, writer
<1>1. ASSUME UNCHANGED <<slot, generation, rgen, published, produced>>, consumed' \in {consumed, consumed + 1}
      PROVE  slot'[Index(q)] = Committed(q, generation', published'[q])
  <2>1. Adopted /\ produced' = produced
    BY <1>1
  <2>2. consumed < q
    <3>1. CASE consumed' = consumed
      BY <3>1
    <3>2. CASE consumed' = consumed + 1
      BY <3>2
    <3> QED
      BY <1>1, <3>1, <3>2
  <2>3. slot[Index(q)] = Committed(q, generation, published[q])
    BY <1>0, <2>1, <2>2
  <2> QED
    BY <1>1, <2>3
<1>2. CASE Validate \/ Claim \/ DropProducer \/ WorkerCrash
  BY <1>1, <1>2 DEF Validate, Claim, DropProducer, WorkerCrash
<1>3. CASE \E b \in Batches : BeginWrite(b)
  <2> UNCHANGED <<slot, generation, rgen, published, produced, consumed>>
    BY <1>3 DEF BeginWrite
  <2> QED
    BY <1>1
<1>4. CASE WriterLoadBefore \/ WriterRetry \/ WriterSettled
  BY <1>1, <1>4 DEF WriterLoadBefore, WriterRetry, WriterSettled
<1>5. CASE ClearSlot \/ FillMeta \/ FillPixels \/ CommitSlot
  <2>1. /\ UNCHANGED <<generation, rgen, published, produced, consumed>>
        /\ \A j \in Indexes \ {Index(call.seq)} : slot'[j] = slot[j]
        /\ wpc["worker"] \in {"clear", "meta", "pixels", "commit"}
    BY <1>5 DEF ClearSlot, FillMeta, FillPixels, CommitSlot, StoreSlot, At
  <2>2. call.seq = produced + 1 /\ call.seq - consumed <= SlotCount
    BY <2>1 DEF WriteInv, WritePcs, At
  <2>3. q < call.seq /\ call.seq - q < SlotCount
    BY <2>1, <2>2, SlotCountAssumption
  <2>4. slot'[Index(q)] = slot[Index(q)]
    BY <2>1, <2>3, IndexApart
  <2> QED
    BY <1>0, <2>1, <2>4
<1>6. CASE Publish
  <2>1. /\ slot[Index(call.seq)] = Committed(call.seq, generation, call.batch)
        /\ call.seq = produced + 1 /\ produced' = produced + 1
        /\ UNCHANGED <<slot, generation, rgen, consumed>>
        /\ published' = Append(published, call.batch) /\ Len(published) = produced
    BY <1>6 DEF Publish, WriteInv, WritePcs, At, CountInv
  <2>2. CASE q = produced + 1
    BY <2>1, <2>2
  <2>3. CASE q <= produced
    <3>1. published'[q] = published[q]
      BY <2>1, <2>3
    <3> QED
      BY <1>0, <2>1, <2>3, <3>1
  <2> QED
    BY <2>1, <2>2, <2>3
<1>7. CASE \E g \in 2 .. MaxGeneration : BeginReset(g) \/ OwnerClaim(g)
  BY <1>1, <1>7 DEF BeginReset, OwnerClaim
<1>8. CASE OwnerBeginReset \/ OwnerUnclaim
  BY <1>1, <1>8 DEF OwnerBeginReset, OwnerUnclaim
<1>9. CASE \E x \in Writers : ResetStep(x)
  BY <1>9, ResetWithdraws
<1>10. CASE BeginRead \/ ReaderStep
  BY <1>1, <1>10, ReaderFrame, ReleaseAdvances
<1>11. CASE OwnerAdopt
  <2> UNCHANGED <<slot, generation, rgen, published, produced, consumed>>
    BY <1>11 DEF OwnerAdopt
  <2> QED
    BY <1>1
<1>12. CASE ReaderAdopt
  <2>1. CASE UNCHANGED rgen
    <3> UNCHANGED <<slot, generation, rgen, published, produced, consumed>>
      BY <1>12, <2>1 DEF ReaderAdopt
    <3> QED
      BY <1>1
  <2>2. CASE rgen' # rgen
    BY <1>12, <2>2 DEF ReaderAdopt, Adoptable
  <2> QED
    BY <2>1, <2>2
<1>13. CASE UNCHANGED vars
  <2> UNCHANGED <<slot, generation, rgen, published, produced, consumed>>
    BY <1>13 DEF vars
  <2> QED
    BY <1>1
<1> QED
  BY <1>2, <1>3, <1>4, <1>5, <1>6, <1>7, <1>8, <1>9, <1>10, <1>11, <1>12, <1>13
  DEF Next, WorkerStep

-----------------------------------------------------------------------------
LEMMA InitCoherent == Init => TypeOK /\ Coherent
<1> SUFFICES ASSUME Init PROVE TypeOK /\ Coherent
  OBVIOUS
<1> USE DEF Init
<1>1. TypeOK
  <2>1. slot \in [Indexes -> SlotType]
    BY DEF EmptySlot, SlotType, Halves, Zero
  <2>2. call \in CallType /\ read \in ReadType
    BY DEF CallType, ReadType, Halves, Zero
  <2>3. 0 \in Indexes
    BY SlotCountAssumption DEF Indexes
  <2>4. published \in Seq(Halves) /\ delivered \in Seq(Delivery)
    BY SeqOf
  <2>5. index \in [Writers -> Indexes]
    BY <2>3
  <2> HIDE DEF Init
  <2>6. wpc \in [Writers -> WriterPcs]
    BY DEF Init, WriterPcs
  <2>7. rpc \in ReaderPcs /\ result \in Results
    BY DEF Init, ReaderPcs, Results
  <2> QED
    BY <2>1, <2>2, <2>4, <2>5, <2>6, <2>7 DEF Init, TypeOK, Ready, Resetting
<1>2. SoleWriter /\ LifeInv /\ WriteInv
  BY DEF SoleWriter, Mutating, LifeInv, WriteInv, WritePcs, ResetPcs, At, Writers
<1>3. CountInv /\ ReadInv /\ DeliveredInOrder /\ UnreadIntact /\ HeldBatchWhole
  BY SlotCountAssumption DEF CountInv, ReadInv, DeliveredInOrder, UnreadIntact, HeldBatchWhole, Adopted
<1> QED
  BY <1>1, <1>2, <1>3 DEF Coherent

\* The mapping keeps its types and the strengthening Coherent in every behaviour.
THEOREM Coherence == Spec => [](TypeOK /\ Coherent)
<1>1. Init => TypeOK /\ Coherent
  BY InitCoherent
<1>2. TypeOK /\ Coherent /\ [Next]_vars => (TypeOK /\ Coherent)'
  BY TypeStep, ClaimStep, LifeStep, WriteStep, CountStep, ReadStep, HeldStep,
     DeliveredStep, UnreadStep DEF Coherent
<1> QED
  BY <1>1, <1>2, PTL DEF Spec

\* Type correctness of the ring (ring_v2.rs).
THEOREM TypeCorrect == Spec => []TypeOK
  BY Coherence, PTL

\* Two producer endpoints never mutate the mapping at once (claim_producer).
THEOREM ClaimExcludes == Spec => []SoleWriter
<1>1. TypeOK /\ Coherent => SoleWriter
  BY DEF Coherent
<1> QED
  BY <1>1, Coherence, PTL

\* Batches are delivered whole, in order, each once, for any number of slots and
\* whether or not resets cross reads (read_mapping_batch, write_mapping_batch).
THEOREM DeliveryInOrder == Spec => []DeliveredInOrder
<1>1. TypeOK /\ Coherent => DeliveredInOrder
  BY DEF Coherent
<1> QED
  BY <1>1, Coherence, PTL

\* An unread batch is never overwritten (write_mapping_batch, Backpressure).
THEOREM UnreadNeverOverwritten == Spec => []UnreadIntact
<1>1. TypeOK /\ Coherent => UnreadIntact
  BY DEF Coherent
<1> QED
  BY <1>1, Coherence, PTL

\* No torn batch is returned, even when a reset crosses the copy (ensure_live after it).
THEOREM NoTornBatch == Spec => []HeldBatchWhole
<1>1. TypeOK /\ Coherent => HeldBatchWhole
  BY DEF Coherent
<1> QED
  BY <1>1, Coherence, PTL
-----------------------------------------------------------------------------
(* Quiesced resets: what a host that reads only between resets can rely on.    *)

\* Only BeginWrite chooses a batch, and Publish makes that one readable.
LEMMA BatchStep == TypeOK /\ BatchInv /\ [Next]_vars => BatchInv'
<1> SUFFICES ASSUME TypeOK, BatchInv, [Next]_vars PROVE BatchInv'
  OBVIOUS
<1> wpc \in [Writers -> WriterPcs] /\ call \in CallType
  BY DEF TypeOK
<1> USE DEF BatchInv, At, Goto, WritePcs, ResetPcs, Writers
<1>1. CASE Validate \/ Claim \/ DropProducer \/ WorkerCrash
  BY <1>1 DEF Validate, Claim, DropProducer, WorkerCrash, history
<1>2. CASE \E b \in Batches : BeginWrite(b)
  BY <1>2 DEF BeginWrite, history, CallType
<1>3. CASE WorkerStep
  <2>1. CASE Publish
    <3>1. published' = Append(published, call.batch) /\ call.batch \in Batches
      BY <2>1 DEF Publish
    <3>2. published' \in Seq(Batches)
      BY <3>1, SeqOf
    <3> QED
      BY <2>1, <3>2 DEF Publish
  <2>2. CASE WriterLoadBefore \/ WriterRetry \/ WriterSettled
    BY <2>2 DEF WriterLoadBefore, WriterRetry, WriterSettled, history, CallType
  <2>3. CASE ClearSlot \/ FillMeta \/ FillPixels \/ CommitSlot
    BY <2>3 DEF ClearSlot, FillMeta, FillPixels, CommitSlot, StoreSlot, history
  <2> QED
    BY <1>3, <2>1, <2>2, <2>3 DEF WorkerStep
<1>4. CASE \E g \in 2 .. MaxGeneration : BeginReset(g) \/ OwnerClaim(g)
  BY <1>4 DEF BeginReset, OwnerClaim, history
<1>5. CASE OwnerBeginReset \/ OwnerUnclaim
  BY <1>5 DEF OwnerBeginReset, OwnerUnclaim, history
<1>6. CASE \E x \in Writers : ResetStep(x)
  <2>1. published' \in {published, <<>>} /\ UNCHANGED call
    BY <1>6 DEF ResetStep, ZeroGeneration, WipeSlot, ZeroProduced, ZeroConsumed,
       StoreGeneration, StoreReady, history
  <2>2. wpc'["worker"] \in WritePcs => wpc["worker"] \in WritePcs
    BY <1>6 DEF ResetStep, ZeroGeneration, WipeSlot, ZeroProduced, ZeroConsumed,
       StoreGeneration, StoreReady
  <2> QED
    BY <2>1, <2>2, SeqOf
<1>7. CASE BeginRead \/ ReaderStep
  BY <1>7, ReaderFrame
<1>8. CASE OwnerAdopt \/ ReaderAdopt
  BY <1>8 DEF OwnerAdopt, ReaderAdopt, writer, history
<1>9. CASE UNCHANGED vars
  BY <1>9 DEF vars
<1> QED
  BY <1>1, <1>2, <1>3, <1>4, <1>5, <1>6, <1>7, <1>8, <1>9 DEF Next

\* Between the reset command and the adoption no one but the reset touches what it
\* has wiped: writes wait for the adoption, and so do quiesced reads.
LEMMA WipeStep ==
  ASSUME Quiesced
  PROVE  TypeOK /\ SoleWriter /\ LifeInv /\ WriteInv /\ WipeInv /\ QuietReadInv /\ [Next]_vars
            => WipeInv'
<1> SUFFICES ASSUME TypeOK, SoleWriter, LifeInv, WriteInv, WipeInv, QuietReadInv, [Next]_vars
             PROVE  WipeInv'
  OBVIOUS
<1> /\ wpc \in [Writers -> WriterPcs] /\ index \in [Writers -> Indexes]
    /\ slot \in [Indexes -> SlotType] /\ new \in [Writers -> Nat]
    /\ rgen \in Nat /\ target \in Nat
  BY DEF TypeOK
<1> USE DEF WipeInv, At, Goto, ResetPcs, Writers, header
<1>1. CASE Validate \/ Claim \/ DropProducer \/ WorkerCrash
  BY <1>1 DEF Validate, Claim, DropProducer, WorkerCrash, WipedUpTo, reader
<1>2. CASE \E b \in Batches : BeginWrite(b)
  BY <1>2 DEF BeginWrite, WipedUpTo, reader
<1>3. CASE WorkerStep
  <2>1. wpc["worker"] \in WritePcs
    BY <1>3 DEF WorkerStep, WriterLoadBefore, WriterRetry, WriterSettled, ClearSlot,
       FillMeta, FillPixels, CommitSlot, StoreSlot, Publish, WritePcs
  <2>2. target = 0 /\ wpc["owner"] \notin ResetPcs
    BY <2>1 DEF WriteInv, SoleWriter, Mutating, WritePcs
  <2>3. UNCHANGED <<target>> /\ wpc'["owner"] = wpc["owner"] /\ wpc'["worker"] \notin ResetPcs
    BY <1>3 DEF WorkerStep, WriterLoadBefore, WriterRetry, WriterSettled, ClearSlot,
       FillMeta, FillPixels, CommitSlot, StoreSlot, Publish
  <2> QED
    BY <2>2, <2>3
<1>4. CASE \E g \in 2 .. MaxGeneration : BeginReset(g) \/ OwnerClaim(g)
  BY <1>4 DEF BeginReset, OwnerClaim, Commandable, WipedUpTo, reader
<1>5. CASE OwnerBeginReset \/ OwnerUnclaim
  BY <1>5 DEF OwnerBeginReset, OwnerUnclaim, WipedUpTo, reader, LiveFor
<1>6. ASSUME NEW x \in Writers, ResetStep(x) PROVE WipeInv'
  <2>1. \A y \in Writers : y # x => /\ wpc[y] \notin ResetPcs /\ wpc'[y] = wpc[y]
                                   /\ ~(y = "owner" /\ wpc[y] = "cas")
    BY <1>6 DEF ResetStep, ZeroGeneration, WipeSlot, ZeroProduced, ZeroConsumed,
       StoreGeneration, StoreReady, SoleWriter, Mutating
  <2>2. new[x] > rgen /\ target = 0
    <3>1. wpc[x] \in ResetPcs
      BY <1>6 DEF ResetStep, ZeroGeneration, WipeSlot, ZeroProduced, ZeroConsumed,
         StoreGeneration, StoreReady
    <3> QED
      BY <3>1 DEF LifeInv, Ready, Resetting
  <2>3. CASE ZeroGeneration(x)
    BY <2>1, <2>2, <2>3 DEF ZeroGeneration, WipedUpTo
  <2>4. CASE WipeSlot(x)
    <3>1. /\ wpc[x] = "slots" /\ slot' = [slot EXCEPT ![index[x]] = EmptySlot]
          /\ UNCHANGED <<target>>
      BY <2>4 DEF WipeSlot
    <3>2. index[x] \in Indexes /\ WipedUpTo(index[x])
      BY <3>1
    <3>3. \A i \in 0 .. index[x] : slot'[i].seq = 0
      BY <3>1, <3>2, SlotCountAssumption DEF WipedUpTo, Indexes, EmptySlot
    <3>4. CASE index[x] + 1 < SlotCount
      <4>1. index' = [index EXCEPT ![x] = @ + 1] /\ wpc' = wpc
        BY <2>4, <3>4 DEF WipeSlot
      <4>2. index'[x] = index[x] + 1 /\ 0 .. index'[x] - 1 = 0 .. index[x]
        BY <3>2, <4>1 DEF Indexes
      <4>3. WipedUpTo(index[x])'
        BY <3>3, <4>2 DEF WipedUpTo
      <4> QED
        BY <2>1, <2>2, <3>1, <4>1, <4>3
    <3>5. CASE index[x] + 1 >= SlotCount
      <4>1. wpc' = [wpc EXCEPT ![x] = "produced0"]
        BY <2>4, <3>2, <3>5, SlotCountAssumption DEF WipeSlot, Indexes
      <4>2. 0 .. index[x] = 0 .. SlotCount - 1
        BY <3>2, <3>5, SlotCountAssumption DEF Indexes
      <4>3. WipedUpTo(SlotCount)'
        BY <3>3, <4>2 DEF WipedUpTo
      <4> QED
        BY <2>1, <2>2, <3>1, <4>1, <4>3
    <3> QED
      BY <3>2, <3>4, <3>5, SlotCountAssumption DEF Indexes
  <2>5. CASE ZeroProduced(x)
    BY <2>1, <2>2, <2>5 DEF ZeroProduced, WipedUpTo
  <2>6. CASE ZeroConsumed(x)
    BY <2>1, <2>2, <2>6 DEF ZeroConsumed, WipedUpTo
  <2>7. CASE StoreGeneration(x)
    BY <2>1, <2>2, <2>7 DEF StoreGeneration, WipedUpTo
  <2>8. CASE StoreReady(x)
    BY <2>1, <2>2, <2>8 DEF StoreReady, WipedUpTo, reader
  <2> QED
    BY <1>6, <2>3, <2>4, <2>5, <2>6, <2>7, <2>8 DEF ResetStep
<1>7. CASE BeginRead \/ ReaderStep
  <2>1. CASE UNCHANGED consumed
    BY <1>7, <2>1, ReaderFrame DEF WipedUpTo
  <2>2. CASE Release
    <3>1. Live
      BY <2>2 DEF Release, QuietReadInv
    <3>2. target = 0 /\ \A x \in Writers : wpc[x] \notin ResetPcs
      BY <3>1 DEF LifeInv, Live, Adopted, Ready, Resetting
    <3> QED
      BY <1>7, <3>2, ReaderFrame
  <2> QED
    BY <1>7, <2>1, <2>2, ReaderFrame
<1>8. CASE OwnerAdopt \/ ReaderAdopt
  BY <1>8 DEF OwnerAdopt, ReaderAdopt, Adoptable, WipedUpTo, writer, reader
<1>9. CASE UNCHANGED vars
  BY <1>9 DEF vars, WipedUpTo
<1> QED
  BY <1>1, <1>2, <1>3, <1>4, <1>5, <1>6, <1>7, <1>8, <1>9 DEF Next

\* What is wiped and acknowledged is adoptable by any older endpoint.
LEMMA WipedIsAdoptable ==
  ASSUME TypeOK, LifeInv, WipeInv, target # 0, NEW old \in Nat, target > old
  PROVE  Adoptable(old)
<1>1. WipedUpTo(SlotCount) /\ state = Ready /\ produced = 0 /\ consumed = 0
  BY DEF WipeInv
<1> QED
  BY <1>1 DEF Adoptable, LifeInv, WipedUpTo, Indexes

\* A quiesced read starts in the reader's generation and no reset begins under it,
\* so each of its checks finds what its first one found.
LEMMA QuietReadStep ==
  ASSUME Quiesced
  PROVE  TypeOK /\ Coherent /\ QuietInv /\ [Next]_vars => QuietReadInv' /\ NeverRefused'
<1> SUFFICES ASSUME TypeOK, SoleWriter, LifeInv, WriteInv, CountInv, ReadInv, UnreadIntact,
                    BatchInv, WipeInv, QuietReadInv, NeverRefused, [Next]_vars
             PROVE  QuietReadInv' /\ NeverRefused'
  BY DEF Coherent, QuietInv
<1> /\ wpc \in [Writers -> WriterPcs] /\ wgen \in [Writers -> Nat]
    /\ produced \in Nat /\ consumed \in Nat /\ read \in ReadType /\ rpc \in ReaderPcs
    /\ read.before \in Nat /\ read.prod \in Nat /\ rgen \in Nat /\ target \in Nat
    /\ generation \in Nat
  BY ReadFields DEF TypeOK
<1> USE DEF QuietReadInv, NeverRefused, Live, Adopted, At, Goto
<1>1. CASE Validate \/ Claim \/ DropProducer \/ WorkerCrash
  BY <1>1 DEF Validate, Claim, DropProducer, WorkerCrash, reader, header, Writers
<1>2. CASE \E b \in Batches : BeginWrite(b)
  BY <1>2 DEF BeginWrite, reader, header
<1>3. CASE WorkerStep
  BY <1>3 DEF WorkerStep, WriterLoadBefore, WriterRetry, WriterSettled, ClearSlot,
     FillMeta, FillPixels, CommitSlot, StoreSlot, Publish, reader, header, Writers
<1>4. CASE \E g \in 2 .. MaxGeneration : BeginReset(g) \/ OwnerClaim(g)
  BY <1>4 DEF BeginReset, OwnerClaim, QuietReader, reader, Writers
<1>5. CASE OwnerBeginReset \/ OwnerUnclaim
  BY <1>5 DEF OwnerBeginReset, OwnerUnclaim, reader, ResetPcs
<1>6. ASSUME NEW x \in Writers, ResetStep(x) PROVE QuietReadInv' /\ NeverRefused'
  <2>1. wpc[x] \in ResetPcs
    BY <1>6 DEF ResetStep, ZeroGeneration, WipeSlot, ZeroProduced, ZeroConsumed,
       StoreGeneration, StoreReady, ResetPcs
  <2>2. rpc = "idle"
    BY <2>1 DEF LifeInv, Ready, Resetting
  <2>3. UNCHANGED <<rpc, result>> /\ (wpc'["owner"] = "refused" => wpc["owner"] = "refused")
    BY <1>6 DEF ResetStep, ZeroGeneration, WipeSlot, ZeroProduced, ZeroConsumed,
       StoreGeneration, StoreReady, reader, Writers
  <2> QED
    BY <2>2, <2>3
<1>7. CASE BeginRead \/ ReaderStep
  <2> /\ UNCHANGED <<state, generation, rgen, wpc, produced, published>>
    BY <1>7, ReaderFrame
  <2> USE DEF Rest, header, Step, Keep, Return
  <2>1. CASE BeginRead
    BY <2>1 DEF BeginRead, NoResetPending
  <2>2. CASE CheckReady("ready1", "gen1") \/ CheckGeneration("gen1", "before")
    BY <2>2 DEF CheckReady, CheckGeneration
  <2>3. CASE ReaderLoadBefore
    BY <2>3 DEF ReaderLoadBefore
  <2>4. CASE ReaderLoadProduced
    <3>1. read.before = consumed /\ consumed <= produced
      BY <2>4 DEF ReaderLoadProduced, ReadInv, CountInv, ReaderPcs
    <3>2. read'.before = read.before /\ read'.prod = produced
      BY <2>4 DEF ReaderLoadProduced, ReadType
    <3> QED
      BY <2>4, <3>1, <3>2 DEF ReaderLoadProduced
  <2>5. CASE ReaderLoadAfter
    <3>1. rpc = "after" /\ read.before = consumed
      BY <2>5 DEF ReaderLoadAfter, ReadInv, ReaderPcs
    <3> QED
      BY <2>5, <3>1 DEF ReaderLoadAfter
  <2>6. CASE CheckReady("ready2", "depth")
    BY <2>6 DEF CheckReady
  <2>7. CASE ReaderDepth
    <3>1. /\ rpc = "depth" /\ read.before = consumed /\ read.prod <= produced
          /\ produced - consumed <= SlotCount
      BY <2>7 DEF ReaderDepth, ReadInv, CountInv, ReaderPcs
    <3>2. ~(read.prod - read.before > SlotCount)
      BY <3>1, SlotCountAssumption
    <3> QED
      BY <2>7, <3>1, <3>2 DEF ReaderDepth
  <2>8. CASE LoadCommitted \/ CopyMeta
    <3>1. rpc \in {"committed", "meta"}
      BY <2>8 DEF LoadCommitted, CopyMeta
    <3>2. Wanted = consumed + 1 /\ consumed < produced
      BY <3>1 DEF ReadInv, Wanted, ReaderPcs
    <3>3. slot[Index(Wanted)] = Committed(Wanted, generation, published[Wanted])
      BY <3>1, <3>2 DEF UnreadIntact
    <3>4. published[Wanted] \in Batches
      <4>1. published \in Seq(Batches) /\ Wanted \in 1 .. Len(published)
        BY <3>2 DEF BatchInv, CountInv
      <4> QED
        BY <4>1
    <3>5. published[Wanted] # Zero
      BY <3>4, BatchesAssumption DEF Zero
    <3>6. CASE LoadCommitted
      BY <3>3, <3>6 DEF LoadCommitted, Committed
    <3>7. CASE CopyMeta
      BY <3>3, <3>5, <3>7, <3>1 DEF CopyMeta, Committed
    <3> QED
      BY <2>8, <3>6, <3>7
  <2>9. CASE CheckReady("mismatch_ready", "mismatch_gen") \/ MismatchGeneration
    BY <2>9 DEF CheckReady, MismatchGeneration
  <2>10. CASE CopyPixels
    BY <2>10 DEF CopyPixels
  <2>11. CASE CheckReady("ready3", "gen3") \/ CheckGeneration("gen3", "release")
    BY <2>11 DEF CheckReady, CheckGeneration
  <2>12. CASE Release
    BY <2>12 DEF Release
  <2> QED
    BY <1>7, <2>1, <2>2, <2>3, <2>4, <2>5, <2>6, <2>7, <2>8, <2>9, <2>10, <2>11, <2>12
    DEF ReaderStep
<1>8. CASE OwnerAdopt
  <2>1. wgen["owner"] \in Nat /\ target # 0 /\ target > wgen["owner"]
    BY <1>8 DEF OwnerAdopt, Writers
  <2>2. Adoptable(wgen["owner"])
    BY <2>1, WipedIsAdoptable
  <2> QED
    BY <1>8, <2>2 DEF OwnerAdopt, reader, header
<1>9. CASE ReaderAdopt
  <2>1. Adoptable(rgen)
    BY <1>9, WipedIsAdoptable DEF ReaderAdopt, WipeInv
  <2> QED
    BY <1>9, <2>1 DEF ReaderAdopt, header, writer
<1>10. CASE UNCHANGED vars
  BY <1>10 DEF vars
<1> QED
  BY <1>1, <1>2, <1>3, <1>4, <1>5, <1>6, <1>7, <1>8, <1>9, <1>10 DEF Next

LEMMA InitQuiet == Init => QuietInv
<1> SUFFICES ASSUME Init PROVE QuietInv
  OBVIOUS
<1>1. BatchInv
  BY SeqOf DEF Init, BatchInv, WritePcs, Writers
<1>2. WipeInv
  BY DEF Init, WipeInv, At, Writers
<1>3. QuietReadInv /\ NeverRefused
  BY DEF Init, QuietReadInv, NeverRefused, At, Writers
<1> QED
  BY <1>1, <1>2, <1>3 DEF QuietInv

\* When the host reads only while no reset is pending, no read is ever told that the
\* mapping is stale, unsettled or corrupt, and owner and reader adopt every
\* acknowledged generation (read_mapping_batch, adopt_mapping_generation).
THEOREM QuiescedNeverRefused == ASSUME Quiesced PROVE Spec => []NeverRefused
<1>1. Init => QuietInv
  BY InitQuiet
<1>2. TypeOK /\ Coherent /\ QuietInv /\ [Next]_vars => QuietInv'
  BY BatchStep, WipeStep, QuietReadStep DEF Coherent, QuietInv
<1>3. QuietInv => NeverRefused
  BY DEF QuietInv
<1> QED
  BY <1>1, <1>2, <1>3, Coherence, PTL DEF Spec
=============================================================================
