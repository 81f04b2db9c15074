---------------------------- MODULE StaticIRShare ----------------------------
(***************************************************************************)
(* The cache of impulse responses on the GPU (m_shared_irs) and the        *)
(* StaticIRShare objects that count references to its entries.  Every      *)
(* FirProcessor owns one StaticIRShare and calls it on a thread of its     *)
(* own; the map is static, so all of them meet in it, under one mutex.     *)
(* An action is one critical section of that mutex together with the local *)
(* work around it, so the processors interleave between sections.          *)
(*                                                                         *)
(* pc[s] is where the thread of processor s stands:                        *)
(*   "none"      no processor                                              *)
(*   "load"      in the constructor, before LoadImpulseResponse            *)
(*   "raw"       in UpdateFilterCoefficients, before getRawIR              *)
(*   "segments"  in UpdateFilterCoefficients, before getSegments           *)
(*   "ready"     between calls of the engine                               *)
(*   "unwind"    an allocation threw in the constructor                    *)
(***************************************************************************)
EXTENDS FirGeometry, IRInfo, Sequences, FiniteSets

CONSTANTS
  Shares,        \* the StaticIRShare objects, one per processor
  Blocks,        \* addresses of the GPU's memory manager
  Null,          \* the null pointer
  CtorInfos,     \* <<filter_length, filter_index>> of construction data
  Choices,       \* indices handed to LoadImpulseResponse
  AllocMayFail   \* whether AllocateGpuMemory may throw

ASSUME SharesAssumption == IsFiniteSet(Shares)
ASSUME InputAssumption ==
  /\ CtorInfos \subseteq (Nat \ {0}) \X Nat
  /\ Choices \subseteq Int
  /\ Choices \cap Nat \subseteq DOMAIN StoreLength
  /\ AllocMayFail \in BOOLEAN

(* The responses a processor can ask for. *)
Requestable ==
  {Info(NoIndex, ctor[1], ctor[2]) : ctor \in CtorInfos}
    \cup {Requested(index) : index \in Choices}

ASSUME NullAssumption == Null \notin Blocks \cup Requestable

VARIABLES
  pc,
  constructing,  \* whether the processor's constructor is still running
  info,          \* m_filter_load_index, m_filter_length, m_single_location
  channelCount,  \* m_channel_count
  isAllocated,   \* m_is_allocated
  raw,           \* m_raw
  segments,      \* m_segments
  rawStep,       \* m_raw_step
  segmentStep,   \* m_segement_step
  translated,    \* whether the device translated the filter since the last update
  sharedIrs,     \* m_shared_irs
  gpu            \* live GPU memory: block -> size and content

fields == <<info, channelCount, isAllocated, raw, segments, rawStep, segmentStep>>
vars == <<pc, constructing, fields, translated, sharedIrs, gpu>>

Uninitialised      == [form |-> "none", of |-> <<>>]
Samples(i)         == [form |-> "samples", of |-> ImpulseResponse(i)]
SpectrumOf(block)  == [form |-> "spectrum", of |-> gpu[block].content.of]

Data == [gpuRaw : Blocks \cup {Null}, gpuSegments : Blocks \cup {Null}, refcounting : Nat]
NoData == [gpuRaw |-> Null, gpuSegments |-> Null, refcounting |-> 0]

(* Mutants of KeyOf: an operator== that forgets a field. *)
KeyIgnoringLocation(s) == [info[s] EXCEPT !.singleLocation = 0]
KeyIgnoringLength(s)   == [info[s] EXCEPT !.filterLength = 0]

(* The key of a share in the map, by IRInfo::operator==. *)
KeyOf(s) == info[s]

Found(s) == KeyOf(s) \in DOMAIN sharedIrs
Entry(s) == IF Found(s) THEN sharedIrs[KeyOf(s)] ELSE NoData

Goto(s, label) == pc' = [pc EXCEPT ![s] = label]

-----------------------------------------------------------------------------
(* Maps with entries inserted, replaced and erased.                        *)

With(map, k, v) == [x \in DOMAIN map \cup {k} |-> IF x = k THEN v ELSE map[x]]
Without(map, K) == [x \in DOMAIN map \ K |-> map[x]]

(* MemoryManager::AllocateGpuMemory: some address that is not in use.      *)
Allocate(b, size, content) ==
  /\ b \in Blocks \ DOMAIN gpu
  /\ gpu' = With(gpu, b, [size |-> size, content |-> content])

BlocksOf(data) == {data.gpuRaw, data.gpuSegments} \ {Null}

-----------------------------------------------------------------------------
(* unload: give the reference back; the last one erases the entry, whose   *)
(* GpuMemoryPointers free the memory.                                      *)

(* Mutants: no test of m_is_allocated; a postfix decrement. *)
GivesUpUnchecked(s)   == Found(s)
LastUserByPostfix(s)  == isAllocated[s] /\ Found(s) /\ Entry(s).refcounting = 0

GivesUp(s)  == isAllocated[s] /\ Found(s)
LastUser(s) == GivesUp(s) /\ Entry(s).refcounting = 1

Released(s) ==
  /\ sharedIrs' =
       IF LastUser(s) THEN Without(sharedIrs, {KeyOf(s)})
       ELSE IF GivesUp(s)
       THEN With(sharedIrs, KeyOf(s), [Entry(s) EXCEPT !.refcounting = @ - 1])
       ELSE sharedIrs
  /\ gpu' = IF LastUser(s) THEN Without(gpu, BlocksOf(Entry(s))) ELSE gpu

ResetFields(s, newInfo, newChannels) ==
  /\ info' = [info EXCEPT ![s] = newInfo]
  /\ channelCount' = [channelCount EXCEPT ![s] = newChannels]
  /\ isAllocated' = [isAllocated EXCEPT ![s] = FALSE]
  /\ raw' = [raw EXCEPT ![s] = Null]
  /\ segments' = [segments EXCEPT ![s] = Null]
  /\ UNCHANGED <<rawStep, segmentStep>>

-----------------------------------------------------------------------------
(* The StaticIRShare constructor, called by FirProcessor's.                *)
Construct(s, ctor) ==
  /\ pc[s] = "none"
  /\ Goto(s, "load")
  /\ constructing' = [constructing EXCEPT ![s] = TRUE]
  /\ ResetFields(s, Info(NoIndex, ctor[1], ctor[2]), 1)
  /\ translated' = [translated EXCEPT ![s] = FALSE]
  /\ UNCHANGED <<sharedIrs, gpu>>

(* UpdateProcessorFilter(choice), from the constructor or from SetData.    *)
LoadImpulseResponse(s, index) ==
  /\ pc[s] \in {"load", "ready"}
  /\ Goto(s, "raw")
  /\ IF info[s].filterLoadIndex = index
     THEN UNCHANGED <<fields, sharedIrs, gpu>>
     ELSE /\ Released(s)
          /\ LET loaded == AfterLoad(info[s], index)
             IN  ResetFields(s, loaded, ChannelsOf(loaded))
  /\ UNCHANGED <<constructing, translated>>

(* Connect or InputPortUpdated: a port with another grain or number of     *)
(* channels makes UpdateFilterCoefficients run for the same response.      *)
Reconnect(s) ==
  /\ pc[s] = "ready"
  /\ Goto(s, "raw")
  /\ UNCHANGED <<constructing, fields, translated, sharedIrs, gpu>>

(* Mutants: one reference per buffer; one for the share that inserts only. *)
CountedPerBuffer(s, data) == [data EXCEPT !.refcounting = @ + 1]
CountedByInserter(s, data) ==
  IF data.refcounting = 0 THEN [data EXCEPT !.refcounting = 1] ELSE data

(* One reference per share, whichever buffer it gets first. *)
Counted(s, data) ==
  IF isAllocated[s] THEN data ELSE [data EXCEPT !.refcounting = @ + 1]

GetRawIR(s) ==
  /\ pc[s] = "raw"
  /\ Goto(s, "segments")
  /\ IF raw[s] # Null
     THEN UNCHANGED <<isAllocated, raw, rawStep, sharedIrs, gpu>>
     ELSE /\ rawStep' = [rawStep EXCEPT ![s] = RawStep(info[s].filterLength)]
          /\ isAllocated' = [isAllocated EXCEPT ![s] = TRUE]
          /\ \/ /\ Entry(s).gpuRaw # Null
                /\ raw' = [raw EXCEPT ![s] = Entry(s).gpuRaw]
                /\ sharedIrs' = With(sharedIrs, KeyOf(s), Counted(s, Entry(s)))
                /\ UNCHANGED gpu
             \/ /\ Entry(s).gpuRaw = Null
                /\ \E b \in Blocks :
                     /\ Allocate(b, rawStep'[s] * channelCount[s], Samples(info[s]))
                     /\ raw' = [raw EXCEPT ![s] = b]
                     /\ sharedIrs' = With(sharedIrs, KeyOf(s),
                          Counted(s, [Entry(s) EXCEPT !.gpuRaw = b]))
  /\ UNCHANGED <<constructing, info, channelCount, segments, segmentStep, translated>>

(* The device must translate the filter again: m_recompute_filter = true. *)
GetSegments(s) ==
  /\ pc[s] = "segments"
  /\ Goto(s, "ready")
  /\ constructing' = [constructing EXCEPT ![s] = FALSE]
  /\ translated' = [translated EXCEPT ![s] = FALSE]
  /\ IF segments[s] # Null
     THEN UNCHANGED <<isAllocated, segments, segmentStep, sharedIrs, gpu>>
     ELSE /\ segmentStep' = [segmentStep EXCEPT ![s] = SegmentStep(info[s].filterLength)]
          /\ isAllocated' = [isAllocated EXCEPT ![s] = TRUE]
          /\ \/ /\ Entry(s).gpuSegments # Null
                /\ segments' = [segments EXCEPT ![s] = Entry(s).gpuSegments]
                /\ sharedIrs' = With(sharedIrs, KeyOf(s), Counted(s, Entry(s)))
                /\ UNCHANGED gpu
             \/ /\ Entry(s).gpuSegments = Null
                /\ \E b \in Blocks :
                     /\ Allocate(b, segmentStep'[s] * channelCount[s], Uninitialised)
                     /\ segments' = [segments EXCEPT ![s] = b]
                     /\ sharedIrs' = With(sharedIrs, KeyOf(s),
                          Counted(s, [Entry(s) EXCEPT !.gpuSegments = b]))
  /\ UNCHANGED <<info, channelCount, raw, rawStep>>

(* The device's init on the next chunk: the spectrum of the filter goes    *)
(* into the segments every user of the response shares.                    *)
TranslateFilter(s) ==
  /\ pc[s] = "ready"
  /\ ~translated[s]
  /\ translated' = [translated EXCEPT ![s] = TRUE]
  /\ gpu' = With(gpu, segments[s],
       [size |-> gpu[segments[s]].size, content |-> SpectrumOf(raw[s])])
  /\ UNCHANGED <<pc, constructing, fields, sharedIrs>>

-----------------------------------------------------------------------------
(* AllocateGpuMemory throws.  Only in the constructor is there a state     *)
(* after it: SetData is noexcept, so there the whole process ends.         *)
AllocationFails(s) ==
  /\ AllocMayFail
  /\ constructing[s]
  /\ Goto(s, "unwind")
  /\ UNCHANGED <<constructing, info, channelCount, isAllocated, raw, segments,
                 translated, gpu>>

(* One of the processor's own buffers, allocated before the shared ones.   *)
OwnBufferFails(s) ==
  /\ pc[s] = "raw"
  /\ AllocationFails(s)
  /\ UNCHANGED <<rawStep, segmentStep, sharedIrs>>

(* The new map entry was inserted before the allocation and stays.         *)
RawIRFails(s) ==
  /\ pc[s] = "raw" /\ raw[s] = Null /\ Entry(s).gpuRaw = Null
  /\ AllocationFails(s)
  /\ rawStep' = [rawStep EXCEPT ![s] = RawStep(info[s].filterLength)]
  /\ sharedIrs' = With(sharedIrs, KeyOf(s), Entry(s))
  /\ UNCHANGED segmentStep

SegmentsFail(s) ==
  /\ pc[s] = "segments" /\ segments[s] = Null /\ Entry(s).gpuSegments = Null
  /\ AllocationFails(s)
  /\ segmentStep' = [segmentStep EXCEPT ![s] = SegmentStep(info[s].filterLength)]
  /\ sharedIrs' = With(sharedIrs, KeyOf(s), Entry(s))
  /\ UNCHANGED rawStep

(* ~StaticIRShare, from DeleteProcessor or from the unwinding constructor. *)
Destroy(s) ==
  /\ pc[s] \in {"ready", "unwind"}
  /\ Goto(s, "none")
  /\ constructing' = [constructing EXCEPT ![s] = FALSE]
  /\ Released(s)
  /\ ResetFields(s, Unloaded, 1)
  /\ translated' = [translated EXCEPT ![s] = FALSE]

-----------------------------------------------------------------------------
Init ==
  /\ pc = [s \in Shares |-> "none"]
  /\ constructing = [s \in Shares |-> FALSE]
  /\ info = [s \in Shares |-> Unloaded]
  /\ channelCount = [s \in Shares |-> 1]
  /\ isAllocated = [s \in Shares |-> FALSE]
  /\ raw = [s \in Shares |-> Null]
  /\ segments = [s \in Shares |-> Null]
  /\ rawStep = [s \in Shares |-> 0]
  /\ segmentStep = [s \in Shares |-> 0]
  /\ translated = [s \in Shares |-> FALSE]
  /\ sharedIrs = [k \in {} |-> NoData]
  /\ gpu = [b \in {} |-> [size |-> 0, content |-> Uninitialised]]

ShareStep(s) ==
  \/ \E ctor \in CtorInfos : Construct(s, ctor)
  \/ \E index \in Choices : LoadImpulseResponse(s, index)
  \/ Reconnect(s)
  \/ GetRawIR(s)
  \/ GetSegments(s)
  \/ TranslateFilter(s)
  \/ OwnBufferFails(s)
  \/ RawIRFails(s)
  \/ SegmentsFail(s)
  \/ Destroy(s)

Next == \E s \in Shares : ShareStep(s)

Spec == Init /\ [][Next]_vars

-----------------------------------------------------------------------------
(* Properties                                                              *)

PcLabels == {"none", "load", "raw", "segments", "ready", "unwind"}
Memory   == [size : Nat, content : [form : {"none", "samples", "spectrum"}, of : Seq(Int)]]

HoldersOf(k) == {s \in Shares : isAllocated[s] /\ KeyOf(s) = k}

(* Every variable keeps its type; the counter of an entry, a uint32, never *)
(* goes below zero.                                                        *)
TypeOK ==
  /\ pc \in [Shares -> PcLabels]
  /\ constructing \in [Shares -> BOOLEAN]
  /\ info \in [Shares -> Requestable \cup {Unloaded}]
  /\ channelCount \in [Shares -> Nat \ {0}]
  /\ isAllocated \in [Shares -> BOOLEAN]
  /\ raw \in [Shares -> Blocks \cup {Null}]
  /\ segments \in [Shares -> Blocks \cup {Null}]
  /\ rawStep \in [Shares -> Nat]
  /\ segmentStep \in [Shares -> Nat]
  /\ translated \in [Shares -> BOOLEAN]
  /\ DOMAIN sharedIrs \subseteq Requestable
  /\ sharedIrs \in [DOMAIN sharedIrs -> Data]
  /\ DOMAIN gpu \subseteq Blocks
  /\ gpu \in [DOMAIN gpu -> Memory]

(* The counter of an entry is the number of processors that hold it,       *)
(* whichever buffer each took first and whatever failed in between, and    *)
(* the entry of a holder is in the map when unload looks for it.           *)
RefcountExact ==
  /\ \A k \in DOMAIN sharedIrs :
       sharedIrs[k].refcounting = Cardinality(HoldersOf(k))
  /\ \A s \in Shares : isAllocated[s] => Found(s)

(* The pointers a processor caches outside the mutex, and hands to the     *)
(* device with every chunk, are those of its entry, and their memory is    *)
(* live: no other processor's unload frees it first.                       *)
HandlesLive ==
  \A s \in Shares :
    /\ raw[s] # Null =>
         isAllocated[s] /\ raw[s] = Entry(s).gpuRaw /\ raw[s] \in DOMAIN gpu
    /\ segments[s] # Null =>
         isAllocated[s] /\ segments[s] = Entry(s).gpuSegments
                        /\ segments[s] \in DOMAIN gpu

(* No GPU memory leaks: a live block belongs to exactly one buffer of one  *)
(* entry, and that entry has a user who will free it, also when a          *)
(* constructor was left by an exception.                                   *)
NoOrphanMemory ==
  /\ \A b \in DOMAIN gpu :
       \E k \in DOMAIN sharedIrs :
         /\ HoldersOf(k) # {}
         /\ b \in BlocksOf(sharedIrs[k])
         /\ \A j \in DOMAIN sharedIrs \ {k} : b \notin BlocksOf(sharedIrs[j])
  /\ \A k \in DOMAIN sharedIrs :
       sharedIrs[k].gpuRaw # Null => sharedIrs[k].gpuRaw # sharedIrs[k].gpuSegments

(* The channel pointers getRawIR and getSegments compute from the steps    *)
(* and the channel count of one processor stay inside the blocks, which    *)
(* another processor may have allocated.                                   *)
PointersInBounds ==
  \A s \in Shares :
    LET L    == info[s].filterLength
        last == channelCount[s] - 1
    IN  /\ raw[s] # Null =>
             rawStep[s] * last + L * SampleBytes <= gpu[raw[s]].size
        /\ segments[s] # Null =>
             segmentStep[s] * last + SegmentBytes(L) <= gpu[segments[s]].size

(* A processor convolves with its own impulse response: the samples it     *)
(* shares are those of its request, and once its device has translated     *)
(* them the shared segments hold their spectrum, whoever translates next.  *)
OwnImpulseResponse ==
  \A s \in Shares :
    /\ raw[s] # Null => gpu[raw[s]].content = Samples(info[s])
    /\ pc[s] = "ready" /\ translated[s] =>
         gpu[segments[s]].content = [form |-> "spectrum", of |-> ImpulseResponse(info[s])]

(* The abstract cache: who uses which response, and what is on the GPU.    *)
Residency ==
  INSTANCE IRResidency WITH
    Users <- Shares, Responses <- Requestable, Nothing <- Null,
    uses <- [s \in Shares |-> IF isAllocated[s] THEN KeyOf(s) ELSE Null],
    resident <- {k \in DOMAIN sharedIrs : sharedIrs[k].gpuRaw # Null}

(* The cache implements the abstract one: a response goes to the GPU with  *)
(* its first user and leaves it with its last, and with nobody else.       *)
ImplementsResidency == Residency!Spec
=============================================================================
