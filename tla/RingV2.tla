------------------------------- MODULE RingV2 -------------------------------
(* RGB Ring ABI 2 (crates/gpu/src/ring_v2.rs): a shared mapping between one  *)
(* reader in Core and the producer endpoints that may claim it.  Every load  *)
(* and store of a header atomic is a step of its own; the plain bytes of a   *)
(* slot are two halves, metadata and pixels, so that a torn copy is visible. *)
EXTENDS Integers, Sequences

CONSTANTS
    SlotCount,      \* layout.slot_count
    Batches,        \* decoded batches a worker may publish
    Tries,          \* attempts of load_consistent_sequences (8 in the code)
    MaxSequence,    \* the largest slot sequence (u64::MAX in the code)
    MaxGeneration,  \* bound on the generations a run goes through
    Quiesced        \* TRUE: no read is in flight while a reset is pending

ASSUME SlotCountAssumption == SlotCount \in Nat \ {0}
ASSUME BoundsAssumption == Tries \in Nat /\ MaxSequence \in Nat /\ MaxGeneration \in Nat
ASSUME QuiescedAssumption == Quiesced \in BOOLEAN
ASSUME BatchesAssumption == 0 \notin Batches

Ready == 1
Resetting == 2
Zero == 0                      \* a zero-filled half of a slot

Writers == {"owner", "worker"} \* Core's own endpoint and the worker's

Index(seq) == (seq - 1) % SlotCount
Indexes == 0 .. SlotCount - 1
EmptySlot == [seq |-> 0, gen |-> 0, meta |-> Zero, pixels |-> Zero]

VARIABLES
    state, generation,      \* HEADER_STATE, HEADER_GENERATION
    produced, consumed,     \* HEADER_PRODUCER_SEQUENCE, HEADER_CONSUMER_SEQUENCE
    claim,                  \* HEADER_PRODUCER_CLAIM
    slot,                   \* the slots of the mapping
    wpc, wgen,              \* per producer endpoint: its step and its descriptor
    new, index,             \* per producer endpoint: locals of a reset
    call,                   \* locals of the worker's write_mapping_batch
    rpc, rgen,              \* the reader: its step and its descriptor
    read, result,           \* locals of read_mapping_batch and its last result
    target,                 \* generation acknowledged and not yet adopted, or 0
    published, delivered    \* history of the mapping's and the reader's generation

header == <<state, generation, produced, consumed, claim>>
writer == <<wpc, wgen, new, index, call>>
reader == <<rpc, rgen, read, result>>
history == <<published, delivered>>
vars == <<state, generation, produced, consumed, claim, slot, wpc, wgen, new, index,
          call, rpc, rgen, read, result, target, published, delivered>>

Init ==
    /\ state = Ready /\ generation = 1
    /\ produced = 0 /\ consumed = 0 /\ claim = 0
    /\ slot = [i \in Indexes |-> EmptySlot]
    /\ wpc = [x \in Writers |-> IF x = "owner" THEN "idle" ELSE "closed"]
    /\ wgen = [x \in Writers |-> 1]
    /\ new = [x \in Writers |-> 0] /\ index = [x \in Writers |-> 0]
    /\ call = [before |-> 0, seq |-> 0, tries |-> 0, batch |-> Zero]
    /\ rpc = "idle" /\ rgen = 1 /\ result = "none"
    /\ read = [before |-> 0, prod |-> 0, tries |-> 0, meta |-> Zero, pixels |-> Zero]
    /\ target = 0
    /\ published = <<>> /\ delivered = <<>>

-----------------------------------------------------------------------------
(* Producer endpoints.                                                       *)

At(x, pc) == wpc[x] = pc
Goto(x, pc) == wpc' = [wpc EXCEPT ![x] = pc]

\* ensure_live of a claim holder: only it changes state and generation, so the
\* two loads cannot be separated by a change.
LiveFor(x) == state = Ready /\ generation = wgen[x]

\* open_owned: map the view and validate the header, which yields a descriptor.
Validate ==
    /\ At("worker", "closed") /\ state = Ready
    /\ wgen' = [wgen EXCEPT !["worker"] = generation]
    /\ Goto("worker", "validated")
    /\ UNCHANGED <<header, slot, new, index, call, reader, target, history>>

\* Mutation: the claim is stored without comparing it.
ClaimUnchecked ==
    /\ At("worker", "validated")
    /\ IF state = Ready
       THEN claim' = 1 /\ Goto("worker", "idle")
       ELSE UNCHANGED claim /\ Goto("worker", "closed")
    /\ UNCHANGED <<state, generation, produced, consumed, slot, wgen, new, index,
                   call, reader, target, history>>

\* open_owned: claim_producer, which fails when the mapping is claimed.
Claim ==
    /\ At("worker", "validated")
    /\ IF state = Ready /\ claim = 0
       THEN claim' = 1 /\ Goto("worker", "idle")
       ELSE UNCHANGED claim /\ Goto("worker", "closed")
    /\ UNCHANGED <<state, generation, produced, consumed, slot, wgen, new, index,
                   call, reader, target, history>>

\* Drop of the producer.
DropProducer ==
    /\ At("worker", "idle")
    /\ claim' = 0 /\ Goto("worker", "closed")
    /\ UNCHANGED <<state, generation, produced, consumed, slot, wgen, new, index,
                   call, reader, target, history>>

\* The worker process dies at any point of an operation; its claim stays.
WorkerCrash ==
    /\ ~At("worker", "crashed")
    /\ Goto("worker", "crashed")
    /\ UNCHANGED <<header, slot, wgen, new, index, call, reader, target, history>>

\* The host commands one operation at a time and adopts a reset before the next.
Commandable == target = 0

\* try_write_batch up to the first load of the sequence snapshot.
BeginWrite(b) ==
    /\ At("worker", "idle") /\ Commandable /\ LiveFor("worker")
    /\ Goto("worker", "before")
    /\ call' = [call EXCEPT !.batch = b, !.tries = 0]
    /\ UNCHANGED <<header, slot, wgen, new, index, reader, target, history>>

\* load_consistent_sequences: the load before; the producer's own sequence is
\* stable and is read with it.
WriterLoadBefore ==
    /\ At("worker", "before")
    /\ Goto("worker", "after")
    /\ call' = [call EXCEPT !.before = consumed, !.seq = produced]
    /\ UNCHANGED <<header, slot, wgen, new, index, reader, target, history>>

\* load_consistent_sequences: an unsettled snapshot is retried or given up.
WriterRetry ==
    /\ At("worker", "after") /\ consumed # call.before
    /\ IF call.tries + 1 < Tries
       THEN Goto("worker", "before") /\ call' = [call EXCEPT !.tries = @ + 1]
       ELSE Goto("worker", "idle") /\ UNCHANGED call
    /\ UNCHANGED <<header, slot, wgen, new, index, reader, target, history>>

\* Mutation: backpressure one batch too late.
SettledPastDepth ==
    /\ At("worker", "after") /\ consumed = call.before
    /\ IF /\ consumed <= call.seq
          /\ call.seq - consumed <= SlotCount
          /\ call.seq < MaxSequence
       THEN Goto("worker", "clear") /\ call' = [call EXCEPT !.seq = @ + 1]
       ELSE Goto("worker", "idle") /\ UNCHANGED call
    /\ UNCHANGED <<header, slot, wgen, new, index, reader, target, history>>

\* A settled snapshot: CorruptSequences, Backpressure, SequenceExhausted, or the
\* next sequence to write.
WriterSettled ==
    /\ At("worker", "after") /\ consumed = call.before
    /\ IF /\ consumed <= call.seq
          /\ call.seq - consumed < SlotCount
          /\ call.seq < MaxSequence
       THEN Goto("worker", "clear") /\ call' = [call EXCEPT !.seq = @ + 1]
       ELSE Goto("worker", "idle") /\ UNCHANGED call
    /\ UNCHANGED <<header, slot, wgen, new, index, reader, target, history>>

\* One store into the slot of the sequence being written.
StoreSlot(from, to, s) ==
    /\ At("worker", from)
    /\ slot' = [slot EXCEPT ![Index(call.seq)] = s]
    /\ Goto("worker", to)
    /\ UNCHANGED <<header, wgen, new, index, call, reader, target, history>>

\* The slot commit is withdrawn and the slot zero-filled.
ClearSlot == StoreSlot("clear", "meta", EmptySlot)

FillMeta ==
    StoreSlot("meta", "pixels",
              [slot[Index(call.seq)] EXCEPT !.gen = wgen["worker"], !.meta = call.batch])

FillPixels ==
    StoreSlot("pixels", "commit", [slot[Index(call.seq)] EXCEPT !.pixels = call.batch])

CommitSlot ==
    StoreSlot("commit", "publish", [slot[Index(call.seq)] EXCEPT !.seq = call.seq])

\* The release store of the producer sequence makes the batch readable.
Publish ==
    /\ At("worker", "publish")
    /\ produced' = call.seq
    /\ published' = Append(published, call.batch)
    /\ Goto("worker", "idle")
    /\ UNCHANGED <<state, generation, consumed, claim, slot, wgen, new, index, call,
                   reader, target, delivered>>

-----------------------------------------------------------------------------
(* Generation reset.                                                         *)

\* A quiesced reader stays quiet from the reset command until its own adoption.
ResetPcs == {"gen0", "slots", "produced0", "consumed0", "newgen", "ready"}
QuietReader == Quiesced => rpc = "idle"
NoResetPending ==
    Quiesced => /\ state = Ready /\ generation = rgen
                /\ ~At("owner", "cas")

\* set_generation of the claimed worker endpoint: require_new_generation and
\* ensure_live, up to the compare-exchange of the lifecycle state.
BeginReset(g) ==
    /\ At("worker", "idle") /\ Commandable /\ QuietReader
    /\ g > wgen["worker"] /\ LiveFor("worker")
    /\ state' = Resetting
    /\ new' = [new EXCEPT !["worker"] = g]
    /\ Goto("worker", "gen0")
    /\ UNCHANGED <<generation, produced, consumed, claim, slot, wgen, index, call,
                   reader, target, history>>

\* set_generation of the owner, for recovery before the worker binds.  It claims
\* the mapping for the call; a lost claim or a stale descriptor is an error.
OwnerClaim(g) ==
    /\ At("owner", "idle") /\ Commandable /\ QuietReader
    /\ g > wgen["owner"] /\ state = Ready /\ claim = 0
    /\ claim' = 1
    /\ new' = [new EXCEPT !["owner"] = g]
    /\ Goto("owner", "cas")
    /\ UNCHANGED <<state, generation, produced, consumed, slot, wgen, index, call,
                   reader, target, history>>

OwnerBeginReset ==
    /\ At("owner", "cas")
    /\ IF LiveFor("owner") THEN state' = Resetting /\ Goto("owner", "gen0")
                           ELSE UNCHANGED state /\ Goto("owner", "unclaim")
    /\ UNCHANGED <<generation, produced, consumed, claim, slot, wgen, new, index,
                   call, reader, target, history>>

ZeroGeneration(x) ==
    /\ At(x, "gen0")
    /\ generation' = 0
    /\ index' = [index EXCEPT ![x] = 0]
    /\ Goto(x, "slots")
    /\ UNCHANGED <<state, produced, consumed, claim, slot, wgen, new, call, reader,
                   target, history>>

\* Mutation: the loop stops before the last slot.
WipeShort(x) ==
    /\ At(x, "slots")
    /\ slot' = [slot EXCEPT ![index[x]] = EmptySlot]
    /\ IF index[x] + 2 < SlotCount
       THEN index' = [index EXCEPT ![x] = @ + 1] /\ UNCHANGED wpc
       ELSE Goto(x, "produced0") /\ UNCHANGED index
    /\ UNCHANGED <<header, wgen, new, call, reader, target, history>>

\* One iteration of the loop over the slots: commit withdrawn, bytes zeroed.
WipeSlot(x) ==
    /\ At(x, "slots")
    /\ slot' = [slot EXCEPT ![index[x]] = EmptySlot]
    /\ IF index[x] + 1 < SlotCount
       THEN index' = [index EXCEPT ![x] = @ + 1] /\ UNCHANGED wpc
       ELSE Goto(x, "produced0") /\ UNCHANGED index
    /\ UNCHANGED <<header, wgen, new, call, reader, target, history>>

ZeroProduced(x) ==
    /\ At(x, "produced0")
    /\ produced' = 0 /\ published' = <<>>
    /\ Goto(x, "consumed0")
    /\ UNCHANGED <<state, generation, consumed, claim, slot, wgen, new, index, call,
                   reader, target, delivered>>

\* Mutation: the reset forgets the consumer sequence.
KeepConsumed(x) ==
    /\ At(x, "consumed0")
    /\ Goto(x, "newgen")
    /\ UNCHANGED <<state, generation, produced, consumed, claim, slot, wgen, new, index,
                   call, reader, target, history>>

ZeroConsumed(x) ==
    /\ At(x, "consumed0")
    /\ consumed' = 0
    /\ Goto(x, "newgen")
    /\ UNCHANGED <<state, generation, produced, claim, slot, wgen, new, index, call,
                   reader, target, history>>

StoreGeneration(x) ==
    /\ At(x, "newgen")
    /\ generation' = new[x]
    /\ Goto(x, "ready")
    /\ UNCHANGED <<state, produced, consumed, claim, slot, wgen, new, index, call,
                   reader, target, history>>

\* The lifecycle state returns to READY, the endpoint's descriptor moves on and
\* the caller is told: from here the host owes an adoption.
StoreReady(x) ==
    /\ At(x, "ready")
    /\ state' = Ready
    /\ target' = new[x]
    /\ wgen' = [wgen EXCEPT ![x] = new[x]]
    /\ Goto(x, IF x = "owner" THEN "unclaim" ELSE "idle")
    /\ UNCHANGED <<generation, produced, consumed, claim, slot, new, index, call,
                   reader, history>>

OwnerUnclaim ==
    /\ At("owner", "unclaim")
    /\ claim' = 0 /\ Goto("owner", "idle")
    /\ UNCHANGED <<state, generation, produced, consumed, slot, wgen, new, index,
                   call, reader, target, history>>

-----------------------------------------------------------------------------
(* The reader: read_mapping_batch, one atomic load or one half copied a step. *)

Rest == UNCHANGED <<header, slot, writer, rgen, target, history>>
Step(from, to) == rpc = from /\ rpc' = to
Keep == UNCHANGED <<read, result>>
Return(why) == rpc' = "idle" /\ result' = why /\ UNCHANGED read
Wanted == read.before + 1

BeginRead ==
    /\ Step("idle", "ready1") /\ result \in {"none", "empty", "batch"} /\ NoResetPending
    /\ read' = [read EXCEPT !.tries = 0] /\ UNCHANGED result
    /\ Rest

\* The two loads of ensure_live; a read runs it three times.
CheckReady(from, to) ==
    /\ \/ state = Ready /\ Step(from, to) /\ Keep
       \/ state # Ready /\ rpc = from /\ Return("stale")
    /\ Rest

\* Mutation: the generation is not compared.
SkipGeneration(from, to) == Step(from, to) /\ Keep /\ Rest

CheckGeneration(from, to) ==
    /\ \/ generation = rgen /\ Step(from, to) /\ Keep
       \/ generation # rgen /\ rpc = from /\ Return("stale")
    /\ Rest

ReaderLoadBefore ==
    /\ Step("before", "produced")
    /\ read' = [read EXCEPT !.before = consumed] /\ UNCHANGED result
    /\ Rest

ReaderLoadProduced ==
    /\ Step("produced", "after")
    /\ read' = [read EXCEPT !.prod = produced] /\ UNCHANGED result
    /\ Rest

ReaderLoadAfter ==
    /\ rpc = "after"
    /\ \/ /\ consumed # read.before /\ read.tries + 1 < Tries
          /\ rpc' = "before" /\ read' = [read EXCEPT !.tries = @ + 1] /\ UNCHANGED result
       \/ consumed # read.before /\ read.tries + 1 >= Tries /\ Return("unsettled")
       \/ consumed = read.before /\ read.prod < consumed /\ Return("corrupt_sequences")
       \/ consumed = read.before /\ read.prod >= consumed /\ rpc' = "ready2" /\ Keep
    /\ Rest

\* The end of mapping_state: the second ensure_live, then the depth.
ReaderDepth ==
    /\ rpc = "depth"
    /\ \/ generation # rgen /\ Return("stale")
       \/ /\ generation = rgen
          /\ \/ read.prod - read.before > SlotCount /\ Return("corrupt_sequences")
             \/ read.prod = read.before /\ Return("empty")
             \/ /\ read.prod # read.before /\ read.prod - read.before <= SlotCount
                /\ rpc' = "committed" /\ Keep
    /\ Rest

\* A commit that does not match is a reset if the mapping moved on, else corruption.
LoadCommitted ==
    /\ \/ slot[Index(Wanted)].seq = Wanted /\ Step("committed", "meta")
       \/ slot[Index(Wanted)].seq # Wanted /\ Step("committed", "mismatch_ready")
    /\ Keep /\ Rest

MismatchGeneration ==
    /\ rpc = "mismatch_gen"
    /\ \/ generation = rgen /\ Return("corrupt_slot")
       \/ generation # rgen /\ Return("stale")
    /\ Rest

\* Slot metadata is validated as it is copied: a wiped slot is a corrupt one.
CopyMeta ==
    /\ rpc = "meta"
    /\ LET s == slot[Index(Wanted)]
       IN  \/ /\ s.gen = rgen /\ s.meta # Zero
              /\ rpc' = "pixels" /\ read' = [read EXCEPT !.meta = s.meta]
              /\ UNCHANGED result
           \/ (s.gen # rgen \/ s.meta = Zero) /\ Return("corrupt_slot")
    /\ Rest

CopyPixels ==
    /\ Step("pixels", "ready3")
    /\ read' = [read EXCEPT !.pixels = slot[Index(Wanted)].pixels] /\ UNCHANGED result
    /\ Rest

\* Mutation: the release skips to the last published batch.
ReleaseAll ==
    /\ rpc = "release"
    /\ consumed' = read.prod
    /\ delivered' = Append(delivered, [meta |-> read.meta, pixels |-> read.pixels])
    /\ Return("batch")
    /\ UNCHANGED <<state, generation, produced, claim, slot, writer, rgen, target,
                   published>>

\* The release store of the consumer sequence frees the slot and ends the read.
Release ==
    /\ rpc = "release"
    /\ consumed' = Wanted
    /\ delivered' = Append(delivered, [meta |-> read.meta, pixels |-> read.pixels])
    /\ Return("batch")
    /\ UNCHANGED <<state, generation, produced, claim, slot, writer, rgen, target,
                   published>>

-----------------------------------------------------------------------------
(* Adoption of an acknowledged generation, by the owner and then the reader.  *)

\* adopt_mapping_generation.  No writer runs until the host has adopted, so its
\* loads see one state of the mapping but for the reader's own late store.
Adoptable(old) ==
    /\ target > old /\ state = Ready /\ generation = target
    /\ produced = 0 /\ consumed = 0
    /\ \A i \in Indexes : slot[i].seq = 0

OwnerAdopt ==
    /\ target # 0 /\ At("owner", "idle") /\ wgen["owner"] < target
    /\ \/ Adoptable(wgen["owner"]) /\ wgen' = [wgen EXCEPT !["owner"] = target] /\ UNCHANGED wpc
       \/ ~Adoptable(wgen["owner"]) /\ Goto("owner", "refused") /\ UNCHANGED wgen
    /\ UNCHANGED <<header, slot, new, index, call, reader, target, history>>

ReaderAdopt ==
    /\ target # 0 /\ At("owner", "idle") /\ wgen["owner"] = target /\ rpc = "idle"
    /\ \/ /\ Adoptable(rgen)
          /\ rgen' = target /\ result' = "none" /\ target' = 0 /\ delivered' = <<>>
       \/ /\ ~Adoptable(rgen) /\ result' = "adoption_refused"
          /\ UNCHANGED <<rgen, target, delivered>>
    /\ UNCHANGED <<header, slot, writer, rpc, read, published>>

-----------------------------------------------------------------------------
WorkerStep ==
    \/ WriterLoadBefore \/ WriterRetry \/ WriterSettled
    \/ ClearSlot \/ FillMeta \/ FillPixels \/ CommitSlot \/ Publish

ResetStep(x) ==
    \/ ZeroGeneration(x) \/ WipeSlot(x) \/ ZeroProduced(x) \/ ZeroConsumed(x)
    \/ StoreGeneration(x) \/ StoreReady(x)

ReaderStep ==
    \/ CheckReady("ready1", "gen1") \/ CheckGeneration("gen1", "before")
    \/ ReaderLoadBefore \/ ReaderLoadProduced \/ ReaderLoadAfter
    \/ CheckReady("ready2", "depth") \/ ReaderDepth
    \/ LoadCommitted \/ CheckReady("mismatch_ready", "mismatch_gen") \/ MismatchGeneration
    \/ CopyMeta \/ CopyPixels
    \/ CheckReady("ready3", "gen3") \/ CheckGeneration("gen3", "release") \/ Release

Next ==
    \/ Validate \/ Claim \/ DropProducer \/ WorkerCrash
    \/ \E b \in Batches : BeginWrite(b)
    \/ WorkerStep
    \/ \E g \in 2 .. MaxGeneration : BeginReset(g) \/ OwnerClaim(g)
    \/ OwnerBeginReset \/ OwnerUnclaim
    \/ \E x \in Writers : ResetStep(x)
    \/ BeginRead \/ ReaderStep
    \/ OwnerAdopt \/ ReaderAdopt

Spec == Init /\ [][Next]_vars

\* An endpoint that has begun an operation finishes it, and the host polls the
\* ring and adopts what was acknowledged to it.
FairSpec ==
    /\ Spec
    /\ WF_vars(WorkerStep) /\ \A x \in Writers : WF_vars(ResetStep(x))
    /\ WF_vars(OwnerBeginReset) /\ WF_vars(OwnerUnclaim)
    /\ WF_vars(BeginRead) /\ WF_vars(ReaderStep)
    /\ WF_vars(OwnerAdopt) /\ WF_vars(ReaderAdopt)

-----------------------------------------------------------------------------
WritePcs == {"before", "after", "clear", "meta", "pixels", "commit", "publish"}
WriterPcs == {"closed", "validated", "idle", "cas", "unclaim", "refused", "crashed"}
             \cup WritePcs \cup ResetPcs
ReaderPcs == {"idle", "ready1", "gen1", "before", "produced", "after", "ready2",
              "depth", "committed", "mismatch_ready", "mismatch_gen", "meta",
              "pixels", "ready3", "gen3", "release"}
Results == {"none", "empty", "batch", "stale", "unsettled", "corrupt_sequences",
            "corrupt_slot", "adoption_refused"}
Halves == Batches \cup {Zero}
SlotType == [seq : Nat, gen : Nat, meta : Halves, pixels : Halves]
CallType == [before : Nat, seq : Nat, tries : Nat, batch : Halves]
ReadType == [before : Nat, prod : Nat, tries : Nat, meta : Halves, pixels : Halves]
Delivery == [meta : Halves, pixels : Halves]

\* The variables range over what the mapping and the endpoints can hold.
TypeOK ==
    /\ state \in {Ready, Resetting} /\ generation \in Nat
    /\ produced \in Nat /\ consumed \in Nat /\ claim \in {0, 1}
    /\ slot \in [Indexes -> SlotType]
    /\ wpc \in [Writers -> WriterPcs] /\ wgen \in [Writers -> Nat]
    /\ new \in [Writers -> Nat] /\ index \in [Writers -> Indexes]
    /\ call \in CallType
    /\ rpc \in ReaderPcs /\ rgen \in Nat /\ read \in ReadType /\ result \in Results
    /\ target \in Nat
    /\ published \in Seq(Halves) /\ delivered \in Seq(Delivery)

\* Two endpoints never write the mapping at once: whoever is past its claim, in a
\* batch write or in a reset, is alone (claim_producer, set_generation).
Mutating(x) == /\ wpc[x] \notin {"closed", "validated", "refused", "crashed"}
               /\ ~(x = "owner" /\ At(x, "idle"))
SoleWriter ==
    /\ ~(Mutating("owner") /\ Mutating("worker"))
    /\ \A x \in Writers : Mutating(x) => claim = 1

\* The mapping is in the generation the reader has adopted.
Adopted == generation = rgen
Live == Adopted /\ state = Ready

\* What the reader was handed, in order, is what was published, each once and
\* untorn: no batch is skipped, repeated or mixed with another (read_mapping_batch).
Whole(b) == [meta |-> b, pixels |-> b]
DeliveredInOrder ==
    Adopted => /\ consumed <= Len(published) /\ Len(delivered) = consumed
               /\ \A i \in 1 .. consumed : delivered[i] = Whole(published[i])

\* A batch published and not yet released stays whole in its slot: a writer never
\* reuses a slot whose batch is unread (README: "never overwrites an unread slot").
Committed(seq, gen, b) == [seq |-> seq, gen |-> gen, meta |-> b, pixels |-> b]
UnreadIntact ==
    Adopted =>
        \A seq \in consumed + 1 .. produced :
            slot[Index(seq)] = Committed(seq, generation, published[seq])

\* A batch copied and about to be released is one untorn batch, even when a reset
\* crosses the copy or the store that ends it.
HeldBatchWhole == rpc = "release" => read.meta = read.pixels /\ read.meta # Zero

\* The inductive strengthening.  Life: where a reset stands, and that the mapping
\* never returns to a generation the reader has adopted before.
LifeInv ==
    /\ rgen > 0 /\ (generation = 0 \/ generation >= rgen)
    /\ state = Ready => generation = (IF target = 0 THEN rgen ELSE target)
    /\ At("owner", "cas") => new["owner"] > wgen["owner"]
    /\ \A x \in Writers :
        /\ wpc[x] \in ResetPcs => state = Resetting /\ new[x] > rgen
        /\ wpc[x] \in {"slots", "produced0", "consumed0", "newgen"} => generation = 0
        /\ At(x, "ready") => generation = new[x]

\* Writing: the batch in the making occupies the slot after the last published one
\* and is in the state the step has brought it to.
WriteInv ==
    LET this == slot[Index(call.seq)]
        gen == wgen["worker"]
    IN  wpc["worker"] \in WritePcs =>
        /\ state = Ready /\ target = 0 /\ gen = generation
        /\ At("worker", "after") => call.seq = produced
        /\ ~At("worker", "before") /\ ~At("worker", "after") =>
              call.seq = produced + 1 /\ call.seq - consumed <= SlotCount
        /\ At("worker", "meta") => this = EmptySlot
        /\ At("worker", "pixels") =>
              this = [seq |-> 0, gen |-> gen, meta |-> call.batch, pixels |-> Zero]
        /\ At("worker", "commit") =>
              this = [seq |-> 0, gen |-> gen, meta |-> call.batch, pixels |-> call.batch]
        /\ At("worker", "publish") => this = Committed(call.seq, gen, call.batch)

\* Counting: the histories agree with the sequences, and the queue is bounded.
CountInv ==
    /\ Len(published) = produced
    /\ Adopted => consumed <= produced /\ produced - consumed <= SlotCount

\* Reading: what the reader has loaded so far is still so in its own generation.
ReadInv ==
    LET loaded == ReaderPcs \ {"idle", "ready1", "gen1", "before"}
        counted == loaded \ {"produced"}
        chosen == counted \ {"after", "ready2", "depth"}
        half == {"pixels", "ready3", "gen3", "release"}
        both == {"ready3", "gen3", "release"}
    IN  /\ rpc \in {"ready2", "depth"} => read.before <= read.prod
        /\ rpc \in half => read.meta # Zero
        /\ Adopted =>
            /\ rpc \in loaded => read.before = consumed
            /\ rpc \in counted => read.prod <= produced
            /\ rpc \in chosen => consumed < produced
            /\ rpc \in half => read.meta = published[consumed + 1]
            /\ rpc \in both => read.pixels = published[consumed + 1]

Coherent ==
    /\ SoleWriter /\ LifeInv /\ WriteInv /\ CountInv /\ ReadInv
    /\ DeliveredInOrder /\ UnreadIntact /\ HeldBatchWhole

\* With reads quiesced before a reset, no read is told that the mapping is stale or
\* corrupt and the acknowledged generation is always adopted.
NeverRefused ==
    result \in {"none", "empty", "batch"} /\ ~At("owner", "refused")

\* The strengthening behind it.  A reset wipes the mapping in the order of its loop
\* and its stores, and what it wiped stays wiped until the generation is adopted.
WipedUpTo(n) == \A i \in 0 .. n - 1 : slot[i].seq = 0
WipeInv ==
    /\ \A x \in Writers :
        /\ At(x, "slots") => WipedUpTo(index[x])
        /\ wpc[x] \in {"produced0", "consumed0", "newgen", "ready"} => WipedUpTo(SlotCount)
        /\ wpc[x] \in {"consumed0", "newgen", "ready"} => produced = 0
        /\ wpc[x] \in {"newgen", "ready"} => consumed = 0
    /\ At("owner", "cas") => target = 0
    /\ target # 0 => /\ target > rgen /\ state = Ready
                     /\ produced = 0 /\ consumed = 0 /\ WipedUpTo(SlotCount)

\* A quiesced read runs in the reader's own generation from its first load to its
\* last, and nothing it loads there is refused.
QuietReadInv ==
    /\ rpc # "idle" => Live /\ ~At("owner", "cas")
    /\ rpc \notin {"mismatch_ready", "mismatch_gen"}
    /\ rpc = "after" => read.before <= read.prod

\* Only batches are published: a half of an unread slot is never zero-filled.
BatchInv ==
    /\ published \in Seq(Batches)
    /\ wpc["worker"] \in WritePcs => call.batch \in Batches

QuietInv == BatchInv /\ WipeInv /\ QuietReadInv /\ NeverRefused

\* An acknowledged reset is adopted by owner and reader, so work can go on.
EveryResetAdopted == target # 0 ~> target = 0

\* The ring is a bounded queue.  A batch is taken at the reader's last generation
\* check; the store that follows only tells the producer about it.
Taken == IF rpc = "release"
         THEN Append(delivered, [meta |-> read.meta, pixels |-> read.pixels])
         ELSE delivered
Queue == INSTANCE BatchQueue WITH
            Capacity <- SlotCount,
            epoch <- rgen,
            live <- Adopted,
            queue <- IF Adopted THEN SubSeq(published, Len(Taken) + 1, Len(published))
                                ELSE <<>>,
            taken <- Taken

\* Publishing, taking, withdrawing and adopting are what a bounded queue of whole
\* batches does; every other step of the code is invisible to its users.
QueueSpec == Queue!Spec
=============================================================================
