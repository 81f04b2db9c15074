-------------------------- MODULE StaticIRShareProofs --------------------------
(***************************************************************************)
(* For any number of processors, blocks, files and choices: the counters   *)
(* of the cache are exact, cached pointers are live, no memory leaks, and  *)
(* the cache implements IRResidency; and the memory that processors share  *)
(* is as large as each of them takes it to be and holds what each of them  *)
(* means to convolve with.                                                 *)
(***************************************************************************)
EXTENDS StaticIRShare, FirGeometryProofs, FiniteSetTheorems

-----------------------------------------------------------------------------
(* Types                                                                   *)

(* The steps and sizes the shares compute are natural numbers.             *)
LEMMA SizesType ==
  ASSUME NEW L \in Nat
  PROVE  /\ RawStep(L) \in Nat
         /\ L # 0 => SegmentStep(L) \in Nat
  <1>1. RawStep(L) \in Nat
    BY SMT DEF RawStep, Align, DivUp, SampleBytes
  <1>2. ASSUME L # 0 PROVE SegmentStep(L) \in Nat
    <2>1. FirSamplesPerSegment(L) \in Nat \ {0}
      BY <1>2, FftLengthAssumption DEF FirSamplesPerSegment
    <2>2. SegmentCount(L) \in Nat
      BY <2>1, SMT DEF SegmentCount, DivUp
    <2>3. SegmentBytes(L) \in Nat
      BY <2>2, FftLengthAssumption, SMT DEF SegmentBytes, SpectrumBytes
    <2> QED
      BY <2>3, SMT DEF SegmentStep, Align, DivUp
  <1> QED
    BY <1>1, <1>2

(* What a processor can request is a response with samples and channels.   *)
LEMMA RequestableType ==
  ASSUME NEW k \in Requestable
  PROVE  /\ k \in Key
         /\ k.filterLength \in Nat \ {0}
         /\ ChannelsOf(k) \in Nat \ {0}
         /\ ImpulseResponse(k) \in Seq(Int)
  <1>1. CASE \E ctor \in CtorInfos : k = Info(NoIndex, ctor[1], ctor[2])
    BY <1>1, InputAssumption DEF Info, NoIndex, Key, ChannelsOf, ImpulseResponse
  <1>2. CASE \E index \in Choices : k = Requested(index)
    <2>1. PICK index \in Choices : k = Requested(index)
      BY <1>2
    <2>2. CASE index < 0
      <3>1. (-index) \div 2 \in Int
        BY <2>2, InputAssumption
      <3> QED
        BY <2>1, <2>2, <3>1, InputAssumption
        DEF Requested, Info, NoIndex, Key, ChannelsOf, ImpulseResponse
    <2>3. CASE ~(index < 0)
      <3>1. index \in DOMAIN StoreLength /\ index \in Nat
        BY <2>3, InputAssumption
      <3>2. StoreLength[index] \in Nat \ {0} /\ StoreChannels[index] \in Nat \ {0}
        BY <3>1, StoreAssumption
      <3> QED
        BY <2>1, <2>3, <3>1, <3>2
        DEF Requested, Info, NoIndex, Key, ChannelsOf, ImpulseResponse
    <2> QED
      BY <2>2, <2>3
  <1> QED
    BY <1>1, <1>2 DEF Requestable

-----------------------------------------------------------------------------
(* The inductive invariant                                                 *)

(* What a processor holds at each point of its thread. *)
Phases ==
  \A s \in Shares :
    /\ pc[s] \in {"none", "load"} => ~isAllocated[s]
    /\ pc[s] # "none" => info[s] \in Requestable
    /\ pc[s] = "segments" => raw[s] # Null
    /\ pc[s] = "ready" => raw[s] # Null /\ segments[s] # Null

(* A holder has the raw samples, and its handles are those of its entry. *)
Handles ==
  \A s \in Shares :
    /\ isAllocated[s] => Found(s) /\ raw[s] # Null
    /\ raw[s] # Null => isAllocated[s] /\ raw[s] = sharedIrs[KeyOf(s)].gpuRaw
    /\ segments[s] # Null =>
         isAllocated[s] /\ segments[s] = sharedIrs[KeyOf(s)].gpuSegments

Counts ==
  \A k \in DOMAIN sharedIrs :
    sharedIrs[k].refcounting = Cardinality(HoldersOf(k))

(* Entries with memory have a holder, and their blocks are live ...        *)
Owned ==
  \A k \in DOMAIN sharedIrs :
    /\ sharedIrs[k].gpuRaw = Null => sharedIrs[k].gpuSegments = Null
    /\ sharedIrs[k].gpuRaw # Null =>
         /\ HoldersOf(k) # {}
         /\ sharedIrs[k].gpuRaw \in DOMAIN gpu
         /\ sharedIrs[k].gpuRaw # sharedIrs[k].gpuSegments
    /\ sharedIrs[k].gpuSegments # Null => sharedIrs[k].gpuSegments \in DOMAIN gpu

(* ... and no other entry's, ...                                           *)
Apart ==
  \A j, k \in DOMAIN sharedIrs :
    \A b \in BlocksOf(sharedIrs[j]) : b \in BlocksOf(sharedIrs[k]) => j = k

(* ... and there are no other blocks.                                      *)
Covered ==
  \A b \in DOMAIN gpu : \E k \in DOMAIN sharedIrs : b \in BlocksOf(sharedIrs[k])

Ownership == Owned /\ Apart /\ Covered

IInv == TypeOK /\ Phases /\ Handles /\ Counts /\ Ownership

-----------------------------------------------------------------------------
(* Type correctness                                                        *)

(* With no processor, an empty map and no memory the invariant holds.      *)
LEMMA InitIInv == Init => IInv
  <1> SUFFICES ASSUME Init PROVE IInv
    OBVIOUS
  <1> USE DEF Init
  <1>1. TypeOK
    BY DEF TypeOK, PcLabels
  <1>2. Phases /\ Handles /\ Counts /\ Ownership
    BY DEF Phases, Handles, Counts, Ownership, Owned, Apart, Covered
  <1> QED
    BY <1>1, <1>2 DEF IInv

(* Updating one field of an entry. *)
LEMMA DataUpdates ==
  ASSUME NEW d \in Data, NEW v
  PROVE  /\ [d EXCEPT !.gpuRaw = v] =
              [gpuRaw |-> v, gpuSegments |-> d.gpuSegments, refcounting |-> d.refcounting]
         /\ [d EXCEPT !.gpuSegments = v] =
              [gpuRaw |-> d.gpuRaw, gpuSegments |-> v, refcounting |-> d.refcounting]
         /\ [d EXCEPT !.refcounting = v] =
              [gpuRaw |-> d.gpuRaw, gpuSegments |-> d.gpuSegments, refcounting |-> v]
  BY SMT DEF Data

(* An entry, found or fresh, has the type of entries. *)
LEMMA EntryType ==
  ASSUME TypeOK, NEW s \in Shares
  PROVE  Entry(s) \in Data
  BY DEF TypeOK, Entry, Found, NoData, KeyOf, Data

(* A holder's entry counts it, so it can be given back. *)
LEMMA HolderCounted ==
  ASSUME TypeOK, Counts, NEW s \in Shares, GivesUp(s)
  PROVE  /\ KeyOf(s) \in DOMAIN sharedIrs
         /\ Entry(s) = sharedIrs[KeyOf(s)]
         /\ s \in HoldersOf(KeyOf(s))
         /\ IsFiniteSet(HoldersOf(KeyOf(s)))
         /\ Entry(s).refcounting = Cardinality(HoldersOf(KeyOf(s)))
         /\ Entry(s).refcounting \in Nat \ {0}
  <1>1. KeyOf(s) \in DOMAIN sharedIrs /\ s \in HoldersOf(KeyOf(s)) /\ Entry(s) = sharedIrs[KeyOf(s)]
    BY DEF GivesUp, Found, HoldersOf, Entry
  <1>2. IsFiniteSet(HoldersOf(KeyOf(s)))
    BY FS_Subset, SharesAssumption DEF HoldersOf
  <1>3. Entry(s).refcounting = Cardinality(HoldersOf(KeyOf(s)))
    BY <1>1 DEF Counts
  <1>4. Entry(s).refcounting \in Nat
    BY EntryType DEF Data
  <1>5. Entry(s).refcounting # 0
    BY <1>1, <1>2, <1>3, FS_EmptySet
  <1> QED
    BY <1>1, <1>2, <1>3, <1>4, <1>5

(* What unload leaves of the map and of the memory. *)
LEMMA ReleasedCases ==
  ASSUME TypeOK, Counts, NEW s \in Shares, Released(s)
  PROVE  \/ /\ LastUser(s)
            /\ sharedIrs' = Without(sharedIrs, {KeyOf(s)})
            /\ gpu' = Without(gpu, BlocksOf(Entry(s)))
         \/ /\ GivesUp(s) /\ Entry(s).refcounting # 1
            /\ sharedIrs' = With(sharedIrs, KeyOf(s),
                 [gpuRaw |-> Entry(s).gpuRaw, gpuSegments |-> Entry(s).gpuSegments,
                  refcounting |-> Entry(s).refcounting - 1])
            /\ gpu' = gpu
         \/ /\ ~GivesUp(s)
            /\ sharedIrs' = sharedIrs /\ gpu' = gpu
  <1>1. [Entry(s) EXCEPT !.refcounting = @ - 1] =
          [gpuRaw |-> Entry(s).gpuRaw, gpuSegments |-> Entry(s).gpuSegments,
           refcounting |-> Entry(s).refcounting - 1]
    BY EntryType, DataUpdates, Zenon
  <1> QED
    BY <1>1, Zenon DEF Released, LastUser

(* Inserting or replacing an entry keeps the type of the map.              *)
LEMMA WithType ==
  ASSUME TypeOK, NEW k \in Requestable, NEW d \in Data,
         sharedIrs' = With(sharedIrs, k, d)
  PROVE  /\ DOMAIN sharedIrs' \subseteq Requestable
         /\ sharedIrs' \in [DOMAIN sharedIrs' -> Data]
  BY DEF TypeOK, With

(* unload keeps the types of the map and of the memory.                    *)
LEMMA ReleasedType ==
  ASSUME TypeOK, Counts, NEW s \in Shares, Released(s)
  PROVE  /\ DOMAIN sharedIrs' \subseteq Requestable
         /\ sharedIrs' \in [DOMAIN sharedIrs' -> Data]
         /\ DOMAIN gpu' \subseteq Blocks
         /\ gpu' \in [DOMAIN gpu' -> Memory]
  <1>1. CASE sharedIrs' = sharedIrs /\ gpu' = gpu
    BY <1>1 DEF TypeOK
  <1>2. CASE /\ sharedIrs' = Without(sharedIrs, {KeyOf(s)})
             /\ gpu' = Without(gpu, BlocksOf(Entry(s)))
    BY <1>2 DEF Without, TypeOK
  <1>3. CASE /\ GivesUp(s) /\ gpu' = gpu
             /\ sharedIrs' = With(sharedIrs, KeyOf(s),
                 [gpuRaw |-> Entry(s).gpuRaw, gpuSegments |-> Entry(s).gpuSegments,
                  refcounting |-> Entry(s).refcounting - 1])
    <2>1. KeyOf(s) \in Requestable
      BY HolderCounted, <1>3 DEF TypeOK
    <2>2. [gpuRaw |-> Entry(s).gpuRaw, gpuSegments |-> Entry(s).gpuSegments,
           refcounting |-> Entry(s).refcounting - 1] \in Data
      BY HolderCounted, EntryType, <1>3 DEF Data
    <2> QED
      BY <1>3, <2>1, <2>2, WithType DEF TypeOK
  <1> QED
    BY <1>1, <1>2, <1>3, ReleasedCases, Zenon

(* Counting a reference leaves the pointers of an entry alone. *)
LEMMA CountedIs ==
  ASSUME NEW d \in Data, NEW s \in Shares, TypeOK
  PROVE  /\ Counted(s, d) =
              [gpuRaw |-> d.gpuRaw, gpuSegments |-> d.gpuSegments,
               refcounting |-> IF isAllocated[s] THEN d.refcounting ELSE d.refcounting + 1]
         /\ Counted(s, d) \in Data
  <1>1. [d EXCEPT !.refcounting = @ + 1] =
          [gpuRaw |-> d.gpuRaw, gpuSegments |-> d.gpuSegments, refcounting |-> d.refcounting + 1]
    BY DataUpdates, Zenon
  <1>2. isAllocated[s] \in BOOLEAN
    BY DEF TypeOK
  <1>3. d = [gpuRaw |-> d.gpuRaw, gpuSegments |-> d.gpuSegments, refcounting |-> d.refcounting]
    BY DEF Data
  <1>4. Counted(s, d) =
              [gpuRaw |-> d.gpuRaw, gpuSegments |-> d.gpuSegments,
               refcounting |-> IF isAllocated[s] THEN d.refcounting ELSE d.refcounting + 1]
    BY <1>1, <1>2, <1>3, Zenon DEF Counted
  <1> QED
    BY <1>2, <1>4 DEF Data

(* getRawIR and getSegments without a cached pointer: s takes the block of  *)
(* its entry or allocates one.                                             *)
LEMMA AcquireRaw ==
  ASSUME TypeOK, NEW s \in Shares, GetRawIR(s), raw[s] = Null
  PROVE  /\ isAllocated' = [isAllocated EXCEPT ![s] = TRUE]
         /\ rawStep' = [rawStep EXCEPT ![s] = RawStep(info[s].filterLength)]
         /\ \E b \in Blocks :
              /\ raw' = [raw EXCEPT ![s] = b]
              /\ sharedIrs' = With(sharedIrs, KeyOf(s),
                   [gpuRaw |-> b, gpuSegments |-> Entry(s).gpuSegments,
                    refcounting |-> IF isAllocated[s] THEN Entry(s).refcounting
                                    ELSE Entry(s).refcounting + 1])
              /\ \/ Entry(s).gpuRaw = b /\ gpu' = gpu
                 \/ /\ Entry(s).gpuRaw = Null
                    /\ Allocate(b, RawStep(info[s].filterLength) * channelCount[s],
                                Samples(info[s]))
  <1>1. rawStep' = [rawStep EXCEPT ![s] = RawStep(info[s].filterLength)]
        /\ isAllocated' = [isAllocated EXCEPT ![s] = TRUE]
    BY Zenon DEF GetRawIR
  <1>2. rawStep'[s] = RawStep(info[s].filterLength)
    BY <1>1 DEF TypeOK
  <1>3. CASE /\ Entry(s).gpuRaw # Null
             /\ raw' = [raw EXCEPT ![s] = Entry(s).gpuRaw]
             /\ sharedIrs' = With(sharedIrs, KeyOf(s), Counted(s, Entry(s)))
             /\ gpu' = gpu
    <2>1. Entry(s).gpuRaw \in Blocks
      BY <1>3, EntryType DEF Data
    <2> QED
      BY <1>1, <1>3, <2>1, EntryType, CountedIs, Zenon
  <1>4. CASE /\ Entry(s).gpuRaw = Null
             /\ \E b \in Blocks :
                     /\ Allocate(b, rawStep'[s] * channelCount[s], Samples(info[s]))
                     /\ raw' = [raw EXCEPT ![s] = b]
                     /\ sharedIrs' = With(sharedIrs, KeyOf(s),
                          Counted(s, [Entry(s) EXCEPT !.gpuRaw = b]))
    <2>1. PICK b \in Blocks :
                     /\ Allocate(b, rawStep'[s] * channelCount[s], Samples(info[s]))
                     /\ raw' = [raw EXCEPT ![s] = b]
                     /\ sharedIrs' = With(sharedIrs, KeyOf(s),
                          Counted(s, [Entry(s) EXCEPT !.gpuRaw = b]))
      BY <1>4
    <2> DEFINE d == [gpuRaw |-> b, gpuSegments |-> Entry(s).gpuSegments,
                     refcounting |-> Entry(s).refcounting]
    <2>2. [Entry(s) EXCEPT !.gpuRaw = b] = d
      BY EntryType, DataUpdates, Zenon
    <2>3. d \in Data
      BY EntryType DEF Data
    <2>4. Counted(s, d) = [gpuRaw |-> b, gpuSegments |-> Entry(s).gpuSegments,
                           refcounting |-> IF isAllocated[s] THEN Entry(s).refcounting
                                           ELSE Entry(s).refcounting + 1]
      BY <2>3, CountedIs
    <2>5. sharedIrs' = With(sharedIrs, KeyOf(s), Counted(s, d))
      BY <2>1, <2>2, Zenon
    <2> HIDE DEF d
    <2> QED
      BY <1>1, <1>2, <1>4, <2>1, <2>4, <2>5, Zenon
  <1> QED
    BY <1>3, <1>4, Zenon DEF GetRawIR

(* The same for the segments, whose new block is not initialised.          *)
LEMMA AcquireSegments ==
  ASSUME TypeOK, NEW s \in Shares, GetSegments(s), segments[s] = Null, isAllocated[s]
  PROVE  /\ isAllocated' = isAllocated
         /\ segmentStep' = [segmentStep EXCEPT ![s] = SegmentStep(info[s].filterLength)]
         /\ \E b \in Blocks :
              /\ segments' = [segments EXCEPT ![s] = b]
              /\ sharedIrs' = With(sharedIrs, KeyOf(s),
                   [gpuRaw |-> Entry(s).gpuRaw, gpuSegments |-> b,
                    refcounting |-> Entry(s).refcounting])
              /\ \/ Entry(s).gpuSegments = b /\ gpu' = gpu
                 \/ /\ Entry(s).gpuSegments = Null
                    /\ Allocate(b, SegmentStep(info[s].filterLength) * channelCount[s],
                                Uninitialised)
  <1>1. segmentStep' = [segmentStep EXCEPT ![s] = SegmentStep(info[s].filterLength)]
        /\ isAllocated' = [isAllocated EXCEPT ![s] = TRUE]
    BY Zenon DEF GetSegments
  <1>2. segmentStep'[s] = SegmentStep(info[s].filterLength) /\ isAllocated' = isAllocated
    BY <1>1 DEF TypeOK
  <1>3. CASE /\ Entry(s).gpuSegments # Null
             /\ segments' = [segments EXCEPT ![s] = Entry(s).gpuSegments]
             /\ sharedIrs' = With(sharedIrs, KeyOf(s), Counted(s, Entry(s)))
             /\ gpu' = gpu
    <2>1. Entry(s).gpuSegments \in Blocks
      BY <1>3, EntryType DEF Data
    <2> QED
      BY <1>1, <1>2, <1>3, <2>1, EntryType, CountedIs, Zenon
  <1>4. CASE /\ Entry(s).gpuSegments = Null
             /\ \E b \in Blocks :
                     /\ Allocate(b, segmentStep'[s] * channelCount[s], Uninitialised)
                     /\ segments' = [segments EXCEPT ![s] = b]
                     /\ sharedIrs' = With(sharedIrs, KeyOf(s),
                          Counted(s, [Entry(s) EXCEPT !.gpuSegments = b]))
    <2>1. PICK b \in Blocks :
                     /\ Allocate(b, segmentStep'[s] * channelCount[s], Uninitialised)
                     /\ segments' = [segments EXCEPT ![s] = b]
                     /\ sharedIrs' = With(sharedIrs, KeyOf(s),
                          Counted(s, [Entry(s) EXCEPT !.gpuSegments = b]))
      BY <1>4
    <2> DEFINE d == [gpuRaw |-> Entry(s).gpuRaw, gpuSegments |-> b,
                     refcounting |-> Entry(s).refcounting]
    <2>2. [Entry(s) EXCEPT !.gpuSegments = b] = d
      BY EntryType, DataUpdates, Zenon
    <2>3. d \in Data
      BY EntryType DEF Data
    <2>4. Counted(s, d) = d
      BY <2>3, CountedIs
    <2>5. sharedIrs' = With(sharedIrs, KeyOf(s), Counted(s, d))
      BY <2>1, <2>2, Zenon
    <2> QED
      BY <1>1, <1>2, <1>4, <2>1, <2>4, <2>5, Zenon
  <1> QED
    BY <1>3, <1>4, Zenon DEF GetSegments

(* A new block keeps the type of the memory.                               *)
LEMMA AllocateType ==
  ASSUME TypeOK, NEW b \in Blocks, NEW n \in Nat,
         NEW c \in [form : {"none", "samples", "spectrum"}, of : Seq(Int)],
         Allocate(b, n, c)
  PROVE  /\ DOMAIN gpu' \subseteq Blocks
         /\ gpu' \in [DOMAIN gpu' -> Memory]
  BY DEF Allocate, With, TypeOK, Memory

(* The sizes and contents s computes have their types. *)
LEMMA ShareType ==
  ASSUME TypeOK, NEW s \in Shares, info[s] \in Requestable
  PROVE  /\ RawStep(info[s].filterLength) \in Nat
         /\ SegmentStep(info[s].filterLength) \in Nat
         /\ RawStep(info[s].filterLength) * channelCount[s] \in Nat
         /\ SegmentStep(info[s].filterLength) * channelCount[s] \in Nat
         /\ Samples(info[s]) \in [form : {"none", "samples", "spectrum"}, of : Seq(Int)]
         /\ Uninitialised \in [form : {"none", "samples", "spectrum"}, of : Seq(Int)]
  <1>1. /\ RawStep(info[s].filterLength) \in Nat
        /\ SegmentStep(info[s].filterLength) \in Nat
    BY RequestableType, SizesType
  <1>2. channelCount[s] \in Nat
    BY DEF TypeOK
  <1>3. Samples(info[s]) \in [form : {"none", "samples", "spectrum"}, of : Seq(Int)]
    BY RequestableType DEF Samples
  <1>4. Uninitialised \in [form : {"none", "samples", "spectrum"}, of : Seq(Int)]
    BY DEF Uninitialised
  <1> QED
    BY <1>1, <1>2, <1>3, <1>4, SMT

(* Every step keeps the types; unload needs the counters to be exact.      *)
LEMMA TypeStep ==
  ASSUME TypeOK, Phases, Handles, Counts, Ownership, NEW s \in Shares, ShareStep(s)
  PROVE  TypeOK'
  <1>1. ASSUME NEW ctor \in CtorInfos, Construct(s, ctor) PROVE TypeOK'
    <2>1. Info(NoIndex, ctor[1], ctor[2]) \in Requestable
      BY DEF Requestable
    <2> QED
      BY <1>1, <2>1 DEF Construct, ResetFields, Goto, TypeOK, PcLabels
  <1>2. ASSUME NEW index \in Choices, LoadImpulseResponse(s, index) PROVE TypeOK'
    <2>1. CASE info[s].filterLoadIndex = index
      BY <1>2, <2>1 DEF LoadImpulseResponse, Goto, TypeOK, PcLabels, fields
    <2>2. CASE info[s].filterLoadIndex # index
      <3> DEFINE loaded == AfterLoad(info[s], index)
      <3>1. loaded \in Requestable /\ loaded = Requested(index)
        BY <2>2 DEF AfterLoad, Requestable
      <3>2. ChannelsOf(loaded) \in Nat \ {0}
        BY <3>1, RequestableType
      <3>3. Released(s) /\ ResetFields(s, loaded, ChannelsOf(loaded))
        BY <1>2, <2>2 DEF LoadImpulseResponse
      <3>4. pc' \in [Shares -> PcLabels] /\ UNCHANGED <<constructing, translated>>
        BY <1>2 DEF LoadImpulseResponse, Goto, TypeOK, PcLabels
      <3> HIDE DEF loaded
      <3>5. /\ info' \in [Shares -> Requestable \cup {Unloaded}]
            /\ channelCount' \in [Shares -> Nat \ {0}]
            /\ isAllocated' \in [Shares -> BOOLEAN]
            /\ raw' \in [Shares -> Blocks \cup {Null}]
            /\ segments' \in [Shares -> Blocks \cup {Null}]
            /\ UNCHANGED <<rawStep, segmentStep>>
        BY <3>1, <3>2, <3>3 DEF ResetFields, TypeOK
      <3> QED
        BY <3>3, <3>4, <3>5, ReleasedType DEF TypeOK
    <2> QED
      BY <2>1, <2>2
  <1>3. CASE GetRawIR(s)
    <2>1. /\ pc' \in [Shares -> PcLabels]
          /\ UNCHANGED <<constructing, info, channelCount, segments, segmentStep, translated>>
          /\ info[s] \in Requestable
      BY <1>3 DEF GetRawIR, Goto, TypeOK, PcLabels, Phases
    <2>2. CASE raw[s] # Null
      BY <1>3, <2>1, <2>2 DEF GetRawIR, TypeOK
    <2>3. CASE raw[s] = Null
      <3>1. /\ rawStep' \in [Shares -> Nat]
            /\ isAllocated' \in [Shares -> BOOLEAN]
        <4>1. /\ isAllocated' = [isAllocated EXCEPT ![s] = TRUE]
              /\ rawStep' = [rawStep EXCEPT ![s] = RawStep(info[s].filterLength)]
          BY <1>3, <2>3, AcquireRaw, Zenon
        <4>2. RawStep(info[s].filterLength) \in Nat
          BY <2>1, ShareType
        <4> QED
          BY <4>1, <4>2 DEF TypeOK
      <3>2. PICK b \in Blocks :
              /\ raw' = [raw EXCEPT ![s] = b]
              /\ sharedIrs' = With(sharedIrs, KeyOf(s),
                   [gpuRaw |-> b, gpuSegments |-> Entry(s).gpuSegments,
                    refcounting |-> IF isAllocated[s] THEN Entry(s).refcounting
                                    ELSE Entry(s).refcounting + 1])
              /\ \/ Entry(s).gpuRaw = b /\ gpu' = gpu
                 \/ Allocate(b, RawStep(info[s].filterLength) * channelCount[s],
                             Samples(info[s]))
        BY <1>3, <2>3, AcquireRaw, Zenon
      <3>3. [gpuRaw |-> b, gpuSegments |-> Entry(s).gpuSegments,
                    refcounting |-> IF isAllocated[s] THEN Entry(s).refcounting
                                    ELSE Entry(s).refcounting + 1] \in Data
        BY EntryType DEF Data
      <3>4. DOMAIN sharedIrs' \subseteq Requestable /\ sharedIrs' \in [DOMAIN sharedIrs' -> Data]
        BY <2>1, <3>2, <3>3, WithType DEF KeyOf
      <3>5. DOMAIN gpu' \subseteq Blocks /\ gpu' \in [DOMAIN gpu' -> Memory]
        BY <2>1, <3>2, AllocateType, ShareType DEF TypeOK
      <3>6. raw' \in [Shares -> Blocks \cup {Null}]
        BY <3>2 DEF TypeOK
      <3> QED
        BY <2>1, <3>1, <3>4, <3>5, <3>6 DEF TypeOK
    <2> QED
      BY <2>2, <2>3
  <1>4. CASE GetSegments(s)
    <2>1. /\ pc' \in [Shares -> PcLabels]
          /\ constructing' \in [Shares -> BOOLEAN]
          /\ translated' \in [Shares -> BOOLEAN]
          /\ UNCHANGED <<info, channelCount, raw, rawStep>>
          /\ info[s] \in Requestable
          /\ isAllocated[s]
      BY <1>4 DEF GetSegments, Goto, TypeOK, PcLabels, Phases, Handles
    <2>2. CASE segments[s] # Null
      BY <1>4, <2>1, <2>2 DEF GetSegments, TypeOK
    <2>3. CASE segments[s] = Null
      <3>1. /\ segmentStep' \in [Shares -> Nat]
            /\ isAllocated' = isAllocated
        <4>1. /\ isAllocated' = isAllocated
              /\ segmentStep' = [segmentStep EXCEPT ![s] = SegmentStep(info[s].filterLength)]
          BY <1>4, <2>1, <2>3, AcquireSegments, Zenon
        <4>2. SegmentStep(info[s].filterLength) \in Nat
          BY <2>1, ShareType
        <4> QED
          BY <4>1, <4>2 DEF TypeOK
      <3>2. PICK b \in Blocks :
              /\ segments' = [segments EXCEPT ![s] = b]
              /\ sharedIrs' = With(sharedIrs, KeyOf(s),
                   [gpuRaw |-> Entry(s).gpuRaw, gpuSegments |-> b,
                    refcounting |-> Entry(s).refcounting])
              /\ \/ Entry(s).gpuSegments = b /\ gpu' = gpu
                 \/ Allocate(b, SegmentStep(info[s].filterLength) * channelCount[s],
                             Uninitialised)
        BY <1>4, <2>1, <2>3, AcquireSegments, Zenon
      <3>3. [gpuRaw |-> Entry(s).gpuRaw, gpuSegments |-> b,
                    refcounting |-> Entry(s).refcounting] \in Data
        BY EntryType DEF Data
      <3>4. DOMAIN sharedIrs' \subseteq Requestable /\ sharedIrs' \in [DOMAIN sharedIrs' -> Data]
        BY <2>1, <3>2, <3>3, WithType DEF KeyOf
      <3>5. DOMAIN gpu' \subseteq Blocks /\ gpu' \in [DOMAIN gpu' -> Memory]
        BY <2>1, <3>2, AllocateType, ShareType DEF TypeOK
      <3>6. segments' \in [Shares -> Blocks \cup {Null}]
        BY <3>2 DEF TypeOK
      <3> QED
        BY <2>1, <3>1, <3>4, <3>5, <3>6 DEF TypeOK
    <2> QED
      BY <2>2, <2>3
  <1>5. CASE TranslateFilter(s)
    <2>1. raw[s] # Null /\ segments[s] # Null /\ pc[s] = "ready"
      BY <1>5 DEF TranslateFilter, Phases
    <2>2. raw[s] \in DOMAIN gpu /\ segments[s] \in DOMAIN gpu
      BY <2>1 DEF Handles, Ownership, Owned, Found
    <2>3. SpectrumOf(raw[s]) \in [form : {"none", "samples", "spectrum"}, of : Seq(Int)]
      BY <2>2 DEF SpectrumOf, TypeOK, Memory
    <2>4. gpu' = With(gpu, segments[s],
                   [size |-> gpu[segments[s]].size, content |-> SpectrumOf(raw[s])])
      BY <1>5 DEF TranslateFilter
    <2>5. DOMAIN gpu' = DOMAIN gpu /\ gpu' \in [DOMAIN gpu -> Memory]
      <3>1. [size |-> gpu[segments[s]].size, content |-> SpectrumOf(raw[s])] \in Memory
        BY <2>2, <2>3 DEF TypeOK, Memory
      <3> QED
        BY <2>2, <2>4, <3>1 DEF TypeOK, With
    <2> QED
      BY <1>5, <2>5 DEF TranslateFilter, TypeOK, fields
  <1>6. CASE OwnBufferFails(s)
    BY <1>6 DEF OwnBufferFails, AllocationFails, Goto, TypeOK, PcLabels
  <1>7. CASE RawIRFails(s) \/ SegmentsFail(s)
    <2>1. info[s] \in Requestable
      BY <1>7 DEF RawIRFails, SegmentsFail, Phases
    <2>2. sharedIrs' = With(sharedIrs, KeyOf(s), Entry(s))
      BY <1>7 DEF RawIRFails, SegmentsFail
    <2>3. DOMAIN sharedIrs' \subseteq Requestable /\ sharedIrs' \in [DOMAIN sharedIrs' -> Data]
      BY <2>1, <2>2, EntryType, WithType DEF KeyOf
    <2>4. rawStep' \in [Shares -> Nat] /\ segmentStep' \in [Shares -> Nat]
      BY <1>7, <2>1, ShareType DEF RawIRFails, SegmentsFail, TypeOK
    <2>5. /\ pc' \in [Shares -> PcLabels]
          /\ UNCHANGED <<constructing, info, channelCount, isAllocated, raw, segments,
                         translated, gpu>>
      BY <1>7 DEF RawIRFails, SegmentsFail, AllocationFails, Goto, TypeOK, PcLabels
    <2> QED
      BY <2>3, <2>4, <2>5 DEF TypeOK
  <1>8. CASE Destroy(s)
    <2>1. Released(s) /\ ResetFields(s, Unloaded, 1)
      BY <1>8 DEF Destroy
    <2>2. /\ pc' \in [Shares -> PcLabels]
          /\ constructing' \in [Shares -> BOOLEAN]
          /\ translated' \in [Shares -> BOOLEAN]
      BY <1>8 DEF Destroy, Goto, TypeOK, PcLabels
    <2>3. /\ info' \in [Shares -> Requestable \cup {Unloaded}]
          /\ channelCount' \in [Shares -> Nat \ {0}]
          /\ isAllocated' \in [Shares -> BOOLEAN]
          /\ raw' \in [Shares -> Blocks \cup {Null}]
          /\ segments' \in [Shares -> Blocks \cup {Null}]
          /\ UNCHANGED <<rawStep, segmentStep>>
      BY <2>1 DEF ResetFields, TypeOK
    <2> QED
      BY <2>1, <2>2, <2>3, ReleasedType DEF TypeOK
  <1>9. CASE Reconnect(s)
    BY <1>9 DEF Reconnect, Goto, TypeOK, PcLabels, fields
  <1> QED
    BY <1>1, <1>2, <1>3, <1>4, <1>5, <1>6, <1>7, <1>8, <1>9 DEF ShareStep

-----------------------------------------------------------------------------
(* Phases                                                                  *)

(* Every step keeps a thread's place consistent with what its share holds. *)
LEMMA PhasesStep ==
  ASSUME TypeOK, Phases, Handles, Counts, Ownership, NEW s \in Shares, ShareStep(s)
  PROVE  Phases'
  <1> USE DEF Phases, Goto, TypeOK
  <1>1. ASSUME NEW ctor \in CtorInfos, Construct(s, ctor) PROVE Phases'
    <2>1. Info(NoIndex, ctor[1], ctor[2]) \in Requestable
      BY DEF Requestable
    <2> QED
      BY <1>1, <2>1 DEF Construct, ResetFields
  <1>2. ASSUME NEW index \in Choices, LoadImpulseResponse(s, index) PROVE Phases'
    <2>1. CASE info[s].filterLoadIndex = index
      BY <1>2, <2>1 DEF LoadImpulseResponse, fields
    <2>2. CASE info[s].filterLoadIndex # index
      <3>1. AfterLoad(info[s], index) \in Requestable
        BY <2>2 DEF AfterLoad, Requestable
      <3> QED
        BY <1>2, <2>2, <3>1 DEF LoadImpulseResponse, ResetFields
    <2> QED
      BY <2>1, <2>2
  <1>3. CASE GetRawIR(s)
    <2>1. /\ pc' = [pc EXCEPT ![s] = "segments"] /\ pc[s] = "raw"
          /\ UNCHANGED <<info, segments>>
      BY <1>3 DEF GetRawIR
    <2>2. CASE raw[s] # Null
      BY <1>3, <2>1, <2>2 DEF GetRawIR
    <2>3. CASE raw[s] = Null
      <3>1. /\ isAllocated' = [isAllocated EXCEPT ![s] = TRUE]
            /\ \E b \in Blocks : raw' = [raw EXCEPT ![s] = b]
        BY <1>3, <2>3, AcquireRaw, Zenon
      <3> QED
        BY <2>1, <3>1, NullAssumption
    <2> QED
      BY <2>2, <2>3
  <1>4. CASE GetSegments(s)
    <2>1. /\ pc' = [pc EXCEPT ![s] = "ready"] /\ pc[s] = "segments"
          /\ UNCHANGED <<info, raw>> /\ isAllocated[s] /\ raw[s] # Null
      BY <1>4 DEF GetSegments, Handles
    <2>2. CASE segments[s] # Null
      BY <1>4, <2>1, <2>2 DEF GetSegments
    <2>3. CASE segments[s] = Null
      <3>1. /\ isAllocated' = isAllocated
            /\ \E b \in Blocks : segments' = [segments EXCEPT ![s] = b]
        BY <1>4, <2>1, <2>3, AcquireSegments, Zenon
      <3> QED
        BY <2>1, <3>1, NullAssumption
    <2> QED
      BY <2>2, <2>3
  <1>5. CASE TranslateFilter(s)
    BY <1>5 DEF TranslateFilter, fields
  <1>6. CASE OwnBufferFails(s) \/ RawIRFails(s) \/ SegmentsFail(s)
    BY <1>6 DEF OwnBufferFails, RawIRFails, SegmentsFail, AllocationFails
  <1>8. CASE Destroy(s)
    BY <1>8 DEF Destroy, ResetFields
  <1>9. CASE Reconnect(s)
    BY <1>9 DEF Reconnect, fields
  <1> QED
    BY <1>1, <1>2, <1>3, <1>4, <1>5, <1>6, <1>8, <1>9 DEF ShareStep

-----------------------------------------------------------------------------
(* The cache.  CacheInv relates the map, the memory and what every share   *)
(* has cached; the lemmas below show that each effect a step can have on   *)
(* them preserves it.                                                      *)

CacheInv == Handles /\ Counts /\ Ownership

(* A step that changes neither keys, handles, map nor blocks disturbs none *)
(* of the three.                                                           *)
LEMMA CacheUnchanged ==
  ASSUME CacheInv, UNCHANGED <<info, isAllocated, raw, segments, sharedIrs>>,
         DOMAIN gpu' = DOMAIN gpu
  PROVE  CacheInv'
  <1>1. \A k : HoldersOf(k)' = HoldersOf(k)
    BY DEF HoldersOf, KeyOf
  <1>2. Handles'
    BY DEF CacheInv, Handles, Found, KeyOf
  <1>3. Counts'
    BY <1>1 DEF CacheInv, Counts
  <1>4. Ownership'
    BY <1>1 DEF CacheInv, Ownership, Owned, Apart, Covered
  <1> QED
    BY <1>2, <1>3, <1>4 DEF CacheInv

(* A constructor gives its share a key while it holds nothing.             *)
LEMMA CacheRekeyed ==
  ASSUME TypeOK, CacheInv, NEW s \in Shares, ~isAllocated[s], NEW i, NEW c,
         ResetFields(s, i, c), UNCHANGED <<sharedIrs, gpu>>
  PROVE  CacheInv'
  <1>1. \A t \in Shares : /\ isAllocated'[t] <=> isAllocated[t]
                          /\ isAllocated[t] => info'[t] = info[t]
                          /\ raw'[t] = raw[t] /\ segments'[t] = segments[t]
    <2>1. raw[s] = Null /\ segments[s] = Null
      BY DEF CacheInv, Handles
    <2> QED
      BY <2>1 DEF ResetFields, TypeOK
  <1>2. \A k : HoldersOf(k)' = HoldersOf(k)
    BY <1>1 DEF HoldersOf, KeyOf
  <1>3. Handles'
    BY <1>1 DEF CacheInv, Handles, Found, KeyOf
  <1>4. Counts'
    BY <1>2 DEF CacheInv, Counts
  <1>5. Ownership'
    BY <1>2 DEF CacheInv, Ownership, Owned, Apart, Covered
  <1> QED
    BY <1>3, <1>4, <1>5 DEF CacheInv

(* A failed allocation leaves an entry without memory and without users.   *)
LEMMA CacheEntryInserted ==
  ASSUME TypeOK, CacheInv, NEW s \in Shares,
         sharedIrs' = With(sharedIrs, KeyOf(s), Entry(s)),
         UNCHANGED <<info, isAllocated, raw, segments, gpu>>
  PROVE  CacheInv'
  <1>1. \A k : HoldersOf(k)' = HoldersOf(k)
    BY DEF HoldersOf, KeyOf
  <1>2. CASE Found(s)
    <2>1. sharedIrs' = sharedIrs
      BY <1>2 DEF With, Entry, Found, TypeOK
    <2> QED
      BY <2>1, CacheUnchanged
  <1>3. CASE ~Found(s)
    <2>1. /\ DOMAIN sharedIrs' = DOMAIN sharedIrs \cup {KeyOf(s)}
          /\ \A k \in DOMAIN sharedIrs : sharedIrs'[k] = sharedIrs[k]
          /\ sharedIrs'[KeyOf(s)] = NoData
          /\ KeyOf(s) \notin DOMAIN sharedIrs
      BY <1>3 DEF With, Entry, Found
    <2>2. HoldersOf(KeyOf(s)) = {}
      <3>1. \A t \in Shares : isAllocated[t] => info[t] \in DOMAIN sharedIrs
        BY DEF CacheInv, Handles, Found, KeyOf
      <3>2. info[s] \notin DOMAIN sharedIrs
        BY <1>3 DEF Found, KeyOf
      <3> QED
        BY <3>1, <3>2 DEF HoldersOf, KeyOf
    <2>3. Cardinality(HoldersOf(KeyOf(s))) = 0
      BY <2>2, FS_EmptySet
    <2>4. Counts'
      BY <1>1, <2>1, <2>3 DEF CacheInv, Counts, NoData
    <2>5. Handles'
      BY <2>1 DEF CacheInv, Handles, Found, KeyOf
    <2>6. Ownership'
      <3>1. BlocksOf(NoData) = {} /\ NoData.gpuRaw = Null /\ NoData.gpuSegments = Null
        BY DEF BlocksOf, NoData
      <3>2. Owned'
        BY <1>1, <2>1, <3>1 DEF CacheInv, Ownership, Owned
      <3>3. Apart'
        <4> SUFFICES ASSUME NEW j \in DOMAIN sharedIrs', NEW k \in DOMAIN sharedIrs',
                            NEW b \in BlocksOf(sharedIrs'[j]), b \in BlocksOf(sharedIrs'[k])
                     PROVE  j = k
          BY DEF Apart
        <4>1. j \in DOMAIN sharedIrs /\ k \in DOMAIN sharedIrs
          BY <2>1, <3>1
        <4> QED
          BY <2>1, <4>1 DEF CacheInv, Ownership, Apart
      <3>4. Covered'
        BY <2>1 DEF CacheInv, Ownership, Covered
      <3> QED
        BY <3>2, <3>3, <3>4 DEF Ownership
    <2> QED
      BY <2>4, <2>5, <2>6 DEF CacheInv
  <1> QED
    BY <1>2, <1>3

(* A share without a reference takes one, with the raw samples its entry   *)
(* has or with a block of its own.                                         *)
LEMMA CacheRawAcquired ==
  ASSUME TypeOK, CacheInv, NEW s \in Shares, raw[s] = Null, NEW b \in Blocks,
         isAllocated' = [isAllocated EXCEPT ![s] = TRUE],
         raw' = [raw EXCEPT ![s] = b],
         UNCHANGED <<info, segments>>,
         sharedIrs' = With(sharedIrs, KeyOf(s),
           [gpuRaw |-> b, gpuSegments |-> Entry(s).gpuSegments,
            refcounting |-> IF isAllocated[s] THEN Entry(s).refcounting
                            ELSE Entry(s).refcounting + 1]),
         \/ Entry(s).gpuRaw = b /\ gpu' = gpu
         \/ /\ Entry(s).gpuRaw = Null /\ b \notin DOMAIN gpu
            /\ DOMAIN gpu' = DOMAIN gpu \cup {b}
  PROVE  CacheInv'
  <1>0. PICK k0 : k0 = KeyOf(s)
    OBVIOUS
  <1>1. ~isAllocated[s] /\ segments[s] = Null
    BY DEF CacheInv, Handles
  <1>2. /\ DOMAIN sharedIrs' = DOMAIN sharedIrs \cup {k0}
        /\ \A k \in DOMAIN sharedIrs \ {k0} : sharedIrs'[k] = sharedIrs[k]
        /\ sharedIrs'[k0] = [gpuRaw |-> b, gpuSegments |-> Entry(s).gpuSegments,
                             refcounting |-> Entry(s).refcounting + 1]
    BY <1>0, <1>1 DEF With
  <1>3. /\ k0 \in DOMAIN sharedIrs => Entry(s) = sharedIrs[k0]
        /\ k0 \notin DOMAIN sharedIrs => Entry(s) = NoData
    BY <1>0 DEF Entry, Found
  <1>4. \A t \in Shares : /\ isAllocated'[t] <=> (isAllocated[t] \/ t = s)
                          /\ raw'[t] = IF t = s THEN b ELSE raw[t]
    BY DEF TypeOK
  <1>5. \A k : HoldersOf(k)' = IF k = k0 THEN HoldersOf(k) \cup {s} ELSE HoldersOf(k)
    BY <1>0, <1>4 DEF HoldersOf, KeyOf
  <1>6. s \notin HoldersOf(k0) /\ IsFiniteSet(HoldersOf(k0))
    BY <1>1, FS_Subset, SharesAssumption DEF HoldersOf
  <1>7. b # Null
    BY NullAssumption
  <1>8. Counts'
    <2>1. Entry(s).refcounting = Cardinality(HoldersOf(k0))
      <3>1. CASE k0 \in DOMAIN sharedIrs
        BY <1>3, <3>1 DEF CacheInv, Counts
      <3>2. CASE k0 \notin DOMAIN sharedIrs
        <4>1. HoldersOf(k0) = {}
          BY <3>2 DEF CacheInv, Handles, HoldersOf, Found
        <4> QED
          BY <1>3, <3>2, <4>1, FS_EmptySet DEF NoData
      <3> QED
        BY <3>1, <3>2
    <2>2. Cardinality(HoldersOf(k0) \cup {s}) = Cardinality(HoldersOf(k0)) + 1
      BY <1>6, FS_AddElement
    <2> SUFFICES ASSUME NEW k \in DOMAIN sharedIrs'
                 PROVE  sharedIrs'[k].refcounting = Cardinality(HoldersOf(k)')
      BY DEF Counts
    <2>3. CASE k = k0
      BY <1>2, <1>5, <2>1, <2>2, <2>3
    <2>4. CASE k # k0
      <3>1. k \in DOMAIN sharedIrs /\ sharedIrs'[k] = sharedIrs[k] /\ HoldersOf(k)' = HoldersOf(k)
        BY <1>2, <1>5, <2>4
      <3> QED
        BY <3>1 DEF CacheInv, Counts
    <2> QED
      BY <2>3, <2>4
  <1>9. Handles'
    <2> SUFFICES ASSUME NEW t \in Shares
                 PROVE  /\ isAllocated'[t] => Found(t)' /\ raw'[t] # Null
                        /\ raw'[t] # Null => /\ isAllocated'[t]
                                             /\ raw'[t] = sharedIrs'[KeyOf(t)'].gpuRaw
                        /\ segments'[t] # Null =>
                             /\ isAllocated'[t]
                             /\ segments'[t] = sharedIrs'[KeyOf(t)'].gpuSegments
      BY DEF Handles
    <2>1. KeyOf(t)' = KeyOf(t) /\ segments'[t] = segments[t]
      BY DEF KeyOf
    <2>2. CASE t = s
      BY <1>1, <1>2, <1>4, <1>7, <1>0, <2>1, <2>2 DEF Found
    <2>3. CASE t # s /\ KeyOf(t) = k0 /\ isAllocated[t]
      <3>1. k0 \in DOMAIN sharedIrs /\ raw[t] # Null /\ raw[t] = sharedIrs[k0].gpuRaw
        BY <2>3 DEF CacheInv, Handles, Found
      <3>2. Entry(s).gpuRaw = b
        BY <1>3, <3>1
      <3> QED
        BY <1>2, <1>3, <1>4, <2>1, <2>3, <3>1, <3>2 DEF CacheInv, Handles, Found
    <2>4. CASE t # s /\ ~(KeyOf(t) = k0 /\ isAllocated[t])
      BY <1>2, <1>4, <2>1, <2>4 DEF CacheInv, Handles, Found
    <2> QED
      BY <2>2, <2>3, <2>4
  <1>10. Owned'
    <2>1. HoldersOf(k0)' # {}
      BY <1>5
    <2>2. b \in DOMAIN gpu' /\ DOMAIN gpu \subseteq DOMAIN gpu'
      BY <1>3, <1>7 DEF CacheInv, Ownership, Owned, NoData
    <2>3. b # Entry(s).gpuSegments /\ (Entry(s).gpuSegments # Null => Entry(s).gpuSegments \in DOMAIN gpu)
      BY <1>3, <1>7 DEF CacheInv, Ownership, Owned, NoData
    <2>4. ASSUME NEW k \in DOMAIN sharedIrs, k # k0
          PROVE  sharedIrs'[k] = sharedIrs[k] /\ HoldersOf(k)' = HoldersOf(k)
      BY <1>2, <1>5, <2>4
    <2> QED
      BY <1>2, <1>7, <2>1, <2>2, <2>3, <2>4 DEF CacheInv, Ownership, Owned
  <1>11. BlocksOf(sharedIrs'[k0]) = BlocksOf(Entry(s)) \cup {b}
    BY <1>2, <1>3, <1>7 DEF BlocksOf
  <1>12. ASSUME NEW k \in DOMAIN sharedIrs, k # k0
         PROVE  /\ BlocksOf(sharedIrs'[k]) = BlocksOf(sharedIrs[k])
                /\ BlocksOf(Entry(s)) \cap BlocksOf(sharedIrs[k]) = {}
                /\ b \notin BlocksOf(sharedIrs[k])
    <2>1. BlocksOf(Entry(s)) \cap BlocksOf(sharedIrs[k]) = {}
      BY <1>3, <1>12 DEF CacheInv, Ownership, Apart, NoData, BlocksOf
    <2>2. BlocksOf(sharedIrs[k]) \subseteq DOMAIN gpu
      BY DEF CacheInv, Ownership, Owned, BlocksOf
    <2>3. b \in BlocksOf(Entry(s)) \/ b \notin DOMAIN gpu
      BY <1>7 DEF BlocksOf
    <2> QED
      BY <1>2, <1>12, <2>1, <2>2, <2>3
  <1>13. Apart'
    <2> SUFFICES ASSUME NEW j \in DOMAIN sharedIrs', NEW k \in DOMAIN sharedIrs', j # k,
                        NEW x, x \in BlocksOf(sharedIrs'[j]), x \in BlocksOf(sharedIrs'[k])
                 PROVE  FALSE
      BY DEF Apart
    <2>1. CASE j # k0 /\ k # k0
      BY <1>2, <1>12, <2>1 DEF CacheInv, Ownership, Apart
    <2>2. CASE j = k0 \/ k = k0
      BY <1>2, <1>11, <1>12, <2>2
    <2> QED
      BY <2>1, <2>2
  <1>14. Covered'
    <2> SUFFICES ASSUME NEW x \in DOMAIN gpu'
                 PROVE  \E k \in DOMAIN sharedIrs' : x \in BlocksOf(sharedIrs'[k])
      BY DEF Covered
    <2>1. CASE x = b
      BY <1>2, <1>11, <2>1
    <2>2. CASE x \in DOMAIN gpu
      BY <1>2, <1>3, <1>11, <1>12, <2>2 DEF CacheInv, Ownership, Covered
    <2> QED
      BY <2>1, <2>2
  <1> QED
    BY <1>8, <1>9, <1>10, <1>13, <1>14 DEF CacheInv, Ownership

(* A share that holds its entry takes segments in the same two ways.       *)
LEMMA CacheSegmentsAcquired ==
  ASSUME TypeOK, CacheInv, NEW s \in Shares, isAllocated[s], segments[s] = Null,
         NEW b \in Blocks,
         segments' = [segments EXCEPT ![s] = b],
         UNCHANGED <<info, isAllocated, raw>>,
         sharedIrs' = With(sharedIrs, KeyOf(s),
           [gpuRaw |-> Entry(s).gpuRaw, gpuSegments |-> b,
            refcounting |-> Entry(s).refcounting]),
         \/ Entry(s).gpuSegments = b /\ gpu' = gpu
         \/ /\ Entry(s).gpuSegments = Null /\ b \notin DOMAIN gpu
            /\ DOMAIN gpu' = DOMAIN gpu \cup {b}
  PROVE  CacheInv'
  <1>0. PICK k0 : k0 = KeyOf(s)
    OBVIOUS
  <1>1. k0 \in DOMAIN sharedIrs /\ Entry(s) = sharedIrs[k0] /\ Entry(s).gpuRaw # Null
    BY <1>0 DEF CacheInv, Handles, Found, Entry
  <1>2. /\ DOMAIN sharedIrs' = DOMAIN sharedIrs
        /\ \A k \in DOMAIN sharedIrs \ {k0} : sharedIrs'[k] = sharedIrs[k]
        /\ sharedIrs'[k0] = [gpuRaw |-> Entry(s).gpuRaw, gpuSegments |-> b,
                             refcounting |-> Entry(s).refcounting]
    BY <1>0, <1>1 DEF With
  <1>3. b # Null /\ b # Entry(s).gpuRaw
    BY <1>1, NullAssumption DEF CacheInv, Ownership, Owned
  <1>4. \A k : HoldersOf(k)' = HoldersOf(k)
    BY DEF HoldersOf, KeyOf
  <1>5. Counts'
    BY <1>1, <1>2, <1>4 DEF CacheInv, Counts
  <1>6. Handles'
    <2> SUFFICES ASSUME NEW t \in Shares
                 PROVE  /\ isAllocated'[t] => Found(t)' /\ raw'[t] # Null
                        /\ raw'[t] # Null => /\ isAllocated'[t]
                                             /\ raw'[t] = sharedIrs'[KeyOf(t)'].gpuRaw
                        /\ segments'[t] # Null =>
                             /\ isAllocated'[t]
                             /\ segments'[t] = sharedIrs'[KeyOf(t)'].gpuSegments
      BY DEF Handles
    <2>1. /\ KeyOf(t)' = KeyOf(t) /\ raw'[t] = raw[t] /\ isAllocated'[t] = isAllocated[t]
          /\ segments'[t] = IF t = s THEN b ELSE segments[t]
      BY DEF KeyOf, TypeOK
    <2>2. CASE t = s
      BY <1>0, <1>1, <1>2, <2>1, <2>2 DEF Found, CacheInv, Handles
    <2>3. CASE t # s /\ KeyOf(t) = k0
      BY <1>1, <1>2, <1>3, <2>1, <2>3 DEF CacheInv, Handles, Found
    <2>4. CASE t # s /\ KeyOf(t) # k0
      BY <1>2, <2>1, <2>4 DEF CacheInv, Handles, Found
    <2> QED
      BY <2>2, <2>3, <2>4
  <1>7. b \in DOMAIN gpu' /\ DOMAIN gpu \subseteq DOMAIN gpu'
    BY <1>1, <1>3 DEF CacheInv, Ownership, Owned
  <1>8. Owned'
    BY <1>1, <1>2, <1>3, <1>4, <1>7 DEF CacheInv, Ownership, Owned
  <1>9. BlocksOf(sharedIrs'[k0]) = BlocksOf(sharedIrs[k0]) \cup {b}
    BY <1>1, <1>2, <1>3 DEF BlocksOf
  <1>10. ASSUME NEW k \in DOMAIN sharedIrs, k # k0
         PROVE  /\ BlocksOf(sharedIrs'[k]) = BlocksOf(sharedIrs[k])
                /\ BlocksOf(sharedIrs[k0]) \cap BlocksOf(sharedIrs[k]) = {}
                /\ b \notin BlocksOf(sharedIrs[k])
    <2>1. BlocksOf(sharedIrs[k0]) \cap BlocksOf(sharedIrs[k]) = {}
      BY <1>1, <1>10 DEF CacheInv, Ownership, Apart
    <2>2. BlocksOf(sharedIrs[k]) \subseteq DOMAIN gpu
      BY DEF CacheInv, Ownership, Owned, BlocksOf
    <2>3. b \in BlocksOf(sharedIrs[k0]) \/ b \notin DOMAIN gpu
      BY <1>1, <1>3 DEF BlocksOf
    <2> QED
      BY <1>2, <1>10, <2>1, <2>2, <2>3
  <1>11. Apart'
    <2> SUFFICES ASSUME NEW j \in DOMAIN sharedIrs', NEW k \in DOMAIN sharedIrs', j # k,
                        NEW x, x \in BlocksOf(sharedIrs'[j]), x \in BlocksOf(sharedIrs'[k])
                 PROVE  FALSE
      BY DEF Apart
    <2>1. CASE j # k0 /\ k # k0
      BY <1>2, <1>10, <2>1 DEF CacheInv, Ownership, Apart
    <2>2. CASE j = k0 \/ k = k0
      BY <1>2, <1>9, <1>10, <2>2
    <2> QED
      BY <2>1, <2>2
  <1>12. Covered'
    BY <1>1, <1>2, <1>9, <1>10 DEF CacheInv, Ownership, Covered
  <1> QED
    BY <1>5, <1>6, <1>8, <1>11, <1>12 DEF CacheInv, Ownership

(* unload: the last holder takes the entry and its blocks with it.         *)
LEMMA CacheReleased ==
  ASSUME TypeOK, CacheInv, NEW s \in Shares, Released(s), NEW i, NEW c,
         ResetFields(s, i, c)
  PROVE  CacheInv'
  <1>0. PICK k0 : k0 = KeyOf(s)
    OBVIOUS
  <1>1. CASE ~isAllocated[s]
    <2>1. sharedIrs' = sharedIrs /\ gpu' = gpu
      BY <1>1 DEF Released, LastUser, GivesUp
    <2> QED
      BY <1>1, <2>1, CacheRekeyed
  <1>2. CASE isAllocated[s]
    <2>1. GivesUp(s) /\ k0 \in DOMAIN sharedIrs /\ Entry(s) = sharedIrs[k0]
      BY <1>0, <1>2 DEF CacheInv, Handles, GivesUp, Found, Entry
    <2>2. \A t \in Shares : /\ isAllocated'[t] <=> (isAllocated[t] /\ t # s)
                            /\ raw'[t] = IF t = s THEN Null ELSE raw[t]
                            /\ segments'[t] = IF t = s THEN Null ELSE segments[t]
                            /\ t # s => info'[t] = info[t]
      BY DEF TypeOK, ResetFields
    <2>3. \A k : HoldersOf(k)' = IF k = k0 THEN HoldersOf(k) \ {s} ELSE HoldersOf(k)
      BY <1>0, <2>2 DEF HoldersOf, KeyOf
    <2>4. /\ s \in HoldersOf(k0) /\ IsFiniteSet(HoldersOf(k0))
          /\ sharedIrs[k0].refcounting = Cardinality(HoldersOf(k0))
          /\ sharedIrs[k0].refcounting \in Nat \ {0}
      BY <1>0, <2>1, HolderCounted DEF CacheInv
    <2>5. CASE LastUser(s)
      <3>1. HoldersOf(k0) = {s}
        BY <1>0, <2>1, <2>4, <2>5, FS_Singleton DEF LastUser
      <3>2. sharedIrs' = Without(sharedIrs, {k0}) /\ gpu' = Without(gpu, BlocksOf(sharedIrs[k0]))
        BY <1>0, <2>1, <2>5 DEF Released
      <3>3. /\ DOMAIN sharedIrs' = DOMAIN sharedIrs \ {k0}
            /\ \A k \in DOMAIN sharedIrs' :
                 sharedIrs'[k] = sharedIrs[k] /\ HoldersOf(k)' = HoldersOf(k)
            /\ DOMAIN gpu' = DOMAIN gpu \ BlocksOf(sharedIrs[k0])
        BY <2>3, <3>2 DEF Without
      <3>4. Counts'
        BY <3>3 DEF CacheInv, Counts
      <3>5. Handles'
        <4>1. \A t \in Shares : t # s /\ isAllocated[t] => KeyOf(t) # k0
          BY <3>1 DEF HoldersOf
        <4>2. \A t \in Shares : t # s => KeyOf(t)' = KeyOf(t)
          BY <2>2 DEF KeyOf
        <4> QED
          BY <2>2, <3>3, <4>1, <4>2 DEF CacheInv, Handles, Found
      <3>6. \A k \in DOMAIN sharedIrs' : BlocksOf(sharedIrs[k]) \cap BlocksOf(sharedIrs[k0]) = {}
        BY <2>1, <3>3 DEF CacheInv, Ownership, Apart
      <3>7. Owned'
        <4>1. \A k \in DOMAIN sharedIrs' : BlocksOf(sharedIrs[k]) \subseteq DOMAIN gpu'
          BY <3>3, <3>6 DEF CacheInv, Ownership, Owned, BlocksOf
        <4> QED
          BY <3>3, <4>1 DEF CacheInv, Ownership, Owned, BlocksOf
      <3>8. Apart'
        BY <3>3 DEF CacheInv, Ownership, Apart
      <3>9. Covered'
        BY <3>3 DEF CacheInv, Ownership, Covered
      <3> QED
        BY <3>4, <3>5, <3>7, <3>8, <3>9 DEF CacheInv, Ownership
    <2>6. CASE ~LastUser(s)
      <3>1. /\ sharedIrs' = With(sharedIrs, k0,
                 [gpuRaw |-> sharedIrs[k0].gpuRaw, gpuSegments |-> sharedIrs[k0].gpuSegments,
                  refcounting |-> sharedIrs[k0].refcounting - 1])
            /\ gpu' = gpu
            /\ sharedIrs[k0].refcounting # 1
        BY <1>0, <2>1, <2>6, ReleasedCases, Zenon DEF CacheInv, LastUser
      <3>2. /\ DOMAIN sharedIrs' = DOMAIN sharedIrs
            /\ \A k \in DOMAIN sharedIrs :
                 /\ sharedIrs'[k].gpuRaw = sharedIrs[k].gpuRaw
                 /\ sharedIrs'[k].gpuSegments = sharedIrs[k].gpuSegments
                 /\ sharedIrs'[k].refcounting = IF k = k0 THEN sharedIrs[k].refcounting - 1
                                                ELSE sharedIrs[k].refcounting
        BY <2>1, <3>1 DEF With
      <3>3. /\ Cardinality(HoldersOf(k0) \ {s}) = sharedIrs[k0].refcounting - 1
            /\ HoldersOf(k0) \ {s} # {}
        <4>1. Cardinality(HoldersOf(k0) \ {s}) = sharedIrs[k0].refcounting - 1
          BY <2>4, FS_RemoveElement
        <4>2. Cardinality(HoldersOf(k0) \ {s}) # 0
          BY <2>4, <3>1, <4>1
        <4> QED
          BY <4>1, <4>2, FS_EmptySet
      <3>4. Counts'
        <4> SUFFICES ASSUME NEW k \in DOMAIN sharedIrs'
                     PROVE  sharedIrs'[k].refcounting = Cardinality(HoldersOf(k)')
          BY DEF Counts
        <4>1. CASE k = k0
          BY <2>3, <3>2, <3>3, <4>1
        <4>2. CASE k # k0
          <5>1. k \in DOMAIN sharedIrs /\ HoldersOf(k)' = HoldersOf(k)
                /\ sharedIrs'[k].refcounting = sharedIrs[k].refcounting
            BY <2>3, <3>2, <4>2
          <5> QED
            BY <5>1 DEF CacheInv, Counts
        <4> QED
          BY <4>1, <4>2
      <3>5. Handles'
        <4>2. \A t \in Shares : t # s => KeyOf(t)' = KeyOf(t)
          BY <2>2 DEF KeyOf
        <4> QED
          BY <2>2, <3>2, <4>2 DEF CacheInv, Handles, Found
      <3>6. \A k : HoldersOf(k) # {} => HoldersOf(k)' # {}
        BY <2>3, <3>3
      <3>7. \A k \in DOMAIN sharedIrs : BlocksOf(sharedIrs'[k]) = BlocksOf(sharedIrs[k])
        BY <3>2 DEF BlocksOf
      <3>8. Owned'
        BY <3>1, <3>2, <3>6 DEF CacheInv, Ownership, Owned
      <3>9. Apart' /\ Covered'
        BY <3>1, <3>2, <3>7 DEF CacheInv, Ownership, Apart, Covered
      <3> QED
        BY <3>4, <3>5, <3>8, <3>9 DEF CacheInv, Ownership
    <2> QED
      BY <2>5, <2>6
  <1> QED
    BY <1>1, <1>2

(* Every step keeps handles, counters and ownership together.              *)
LEMMA CacheStep ==
  ASSUME TypeOK, Phases, CacheInv, NEW s \in Shares, ShareStep(s)
  PROVE  CacheInv'
  <1>1. ASSUME NEW ctor \in CtorInfos, Construct(s, ctor) PROVE CacheInv'
    <2>1. ~isAllocated[s]
      BY <1>1 DEF Construct, Phases
    <2> QED
      BY <1>1, <2>1, CacheRekeyed DEF Construct
  <1>2. ASSUME NEW index \in Choices, LoadImpulseResponse(s, index) PROVE CacheInv'
    <2>1. CASE info[s].filterLoadIndex = index
      BY <1>2, <2>1, CacheUnchanged DEF LoadImpulseResponse, fields
    <2>2. CASE info[s].filterLoadIndex # index
      BY <1>2, <2>2, CacheReleased DEF LoadImpulseResponse
    <2> QED
      BY <2>1, <2>2
  <1>3. CASE GetRawIR(s)
    <2>1. UNCHANGED <<info, segments>>
      BY <1>3 DEF GetRawIR
    <2>2. CASE raw[s] # Null
      BY <1>3, <2>1, <2>2, CacheUnchanged DEF GetRawIR
    <2>3. CASE raw[s] = Null
      <3>1. isAllocated' = [isAllocated EXCEPT ![s] = TRUE]
        BY <1>3, <2>3, AcquireRaw, Zenon
      <3>2. PICK b \in Blocks :
              /\ raw' = [raw EXCEPT ![s] = b]
              /\ sharedIrs' = With(sharedIrs, KeyOf(s),
                   [gpuRaw |-> b, gpuSegments |-> Entry(s).gpuSegments,
                    refcounting |-> IF isAllocated[s] THEN Entry(s).refcounting
                                    ELSE Entry(s).refcounting + 1])
              /\ \/ Entry(s).gpuRaw = b /\ gpu' = gpu
                 \/ /\ Entry(s).gpuRaw = Null
                    /\ Allocate(b, RawStep(info[s].filterLength) * channelCount[s],
                                Samples(info[s]))
        BY <1>3, <2>3, AcquireRaw, Zenon
      <3>3. \/ Entry(s).gpuRaw = b /\ gpu' = gpu
            \/ /\ Entry(s).gpuRaw = Null /\ b \notin DOMAIN gpu
               /\ DOMAIN gpu' = DOMAIN gpu \cup {b}
        BY <3>2 DEF Allocate, With
      <3> QED
        BY <2>1, <2>3, <3>1, <3>2, <3>3, CacheRawAcquired, Zenon
    <2> QED
      BY <2>2, <2>3
  <1>4. CASE GetSegments(s)
    <2>1. UNCHANGED <<info, raw>> /\ isAllocated[s]
      BY <1>4 DEF GetSegments, Phases, CacheInv, Handles
    <2>2. CASE segments[s] # Null
      BY <1>4, <2>1, <2>2, CacheUnchanged DEF GetSegments
    <2>3. CASE segments[s] = Null
      <3>1. isAllocated' = isAllocated
        BY <1>4, <2>1, <2>3, AcquireSegments, Zenon
      <3>2. PICK b \in Blocks :
              /\ segments' = [segments EXCEPT ![s] = b]
              /\ sharedIrs' = With(sharedIrs, KeyOf(s),
                   [gpuRaw |-> Entry(s).gpuRaw, gpuSegments |-> b,
                    refcounting |-> Entry(s).refcounting])
              /\ \/ Entry(s).gpuSegments = b /\ gpu' = gpu
                 \/ /\ Entry(s).gpuSegments = Null
                    /\ Allocate(b, SegmentStep(info[s].filterLength) * channelCount[s],
                                Uninitialised)
        BY <1>4, <2>1, <2>3, AcquireSegments, Zenon
      <3>3. \/ Entry(s).gpuSegments = b /\ gpu' = gpu
            \/ /\ Entry(s).gpuSegments = Null /\ b \notin DOMAIN gpu
               /\ DOMAIN gpu' = DOMAIN gpu \cup {b}
        BY <3>2 DEF Allocate, With
      <3> QED
        BY <2>1, <2>3, <3>1, <3>2, <3>3, CacheSegmentsAcquired, Zenon
    <2> QED
      BY <2>2, <2>3
  <1>5. CASE TranslateFilter(s)
    <2>1. segments[s] \in DOMAIN gpu
      BY <1>5 DEF TranslateFilter, Phases, CacheInv, Handles, Ownership, Owned, Found
    <2>2. DOMAIN gpu' = DOMAIN gpu
      BY <1>5, <2>1 DEF TranslateFilter, With
    <2> QED
      BY <1>5, <2>2, CacheUnchanged DEF TranslateFilter, fields
  <1>6. CASE OwnBufferFails(s)
    BY <1>6, CacheUnchanged DEF OwnBufferFails, AllocationFails
  <1>7. CASE RawIRFails(s) \/ SegmentsFail(s)
    BY <1>7, CacheEntryInserted DEF RawIRFails, SegmentsFail, AllocationFails
  <1>8. CASE Destroy(s)
    BY <1>8, CacheReleased DEF Destroy
  <1>9. CASE Reconnect(s)
    BY <1>9, CacheUnchanged DEF Reconnect, fields
  <1> QED
    BY <1>1, <1>2, <1>3, <1>4, <1>5, <1>6, <1>7, <1>8, <1>9 DEF ShareStep

-----------------------------------------------------------------------------
(* The invariant and what follows from it                                  *)

(* The invariant is inductive.                                             *)
LEMMA IInvStep == IInv /\ [Next]_vars => IInv'
  <1> SUFFICES ASSUME IInv, [Next]_vars PROVE IInv'
    OBVIOUS
  <1>1. ASSUME NEW s \in Shares, ShareStep(s) PROVE IInv'
    <2>1. TypeOK' /\ Phases'
      BY <1>1, TypeStep, PhasesStep DEF IInv
    <2>2. CacheInv'
      BY <1>1, CacheStep DEF IInv, CacheInv
    <2> QED
      BY <2>1, <2>2 DEF IInv, CacheInv
  <1>2. CASE UNCHANGED vars
    <2>1. CacheInv'
      BY <1>2, CacheUnchanged DEF IInv, CacheInv, vars, fields
    <2>2. TypeOK' /\ Phases'
      BY <1>2 DEF IInv, TypeOK, Phases, vars, fields
    <2> QED
      BY <2>1, <2>2 DEF IInv, CacheInv
  <1> QED
    BY <1>1, <1>2 DEF Next

(* Every reachable state satisfies the inductive invariant.                *)
THEOREM Invariance == Spec => []IInv
  BY InitIInv, IInvStep, PTL DEF Spec

(* The state of every share, entry and block keeps its type; in particular *)
(* no reference is given back that was not taken.                          *)
THEOREM TypeCorrect == Spec => []TypeOK
  <1>1. IInv => TypeOK
    BY DEF IInv
  <1> QED
    BY <1>1, Invariance, PTL

(* The counter of an entry is exactly the number of processors holding it. *)
THEOREM CountersExact == Spec => []RefcountExact
  <1>1. IInv => RefcountExact
    BY DEF IInv, Counts, Handles, RefcountExact
  <1> QED
    BY <1>1, Invariance, PTL

(* The pointers getRawIR and getSegments cached are never dangling.        *)
THEOREM HandlesStayLive == Spec => []HandlesLive
  <1>1. IInv => HandlesLive
    <2> SUFFICES ASSUME IInv, NEW s \in Shares
                 PROVE  /\ raw[s] # Null => /\ isAllocated[s] /\ raw[s] = Entry(s).gpuRaw
                                            /\ raw[s] \in DOMAIN gpu
                        /\ segments[s] # Null => /\ isAllocated[s]
                                                 /\ segments[s] = Entry(s).gpuSegments
                                                 /\ segments[s] \in DOMAIN gpu
      BY DEF HandlesLive
    <2>1. isAllocated[s] => KeyOf(s) \in DOMAIN sharedIrs /\ Entry(s) = sharedIrs[KeyOf(s)]
      BY DEF IInv, Handles, Entry, Found
    <2> QED
      BY <2>1 DEF IInv, Handles, Ownership, Owned
  <1> QED
    BY <1>1, Invariance, PTL

(* Every live block belongs to one buffer of one entry that has a user.    *)
THEOREM NothingLeaks == Spec => []NoOrphanMemory
  <1>1. IInv => NoOrphanMemory
    <2> SUFFICES ASSUME IInv PROVE NoOrphanMemory
      OBVIOUS
    <2>1. ASSUME NEW b \in DOMAIN gpu
          PROVE  \E k \in DOMAIN sharedIrs :
                   /\ HoldersOf(k) # {}
                   /\ b \in BlocksOf(sharedIrs[k])
                   /\ \A j \in DOMAIN sharedIrs \ {k} : b \notin BlocksOf(sharedIrs[j])
      <3>1. PICK k \in DOMAIN sharedIrs : b \in BlocksOf(sharedIrs[k])
        BY DEF IInv, Ownership, Covered
      <3>2. HoldersOf(k) # {}
        BY <3>1 DEF IInv, Ownership, Owned, BlocksOf
      <3>3. \A j \in DOMAIN sharedIrs \ {k} : b \notin BlocksOf(sharedIrs[j])
        BY <3>1 DEF IInv, Ownership, Apart
      <3> QED
        BY <3>1, <3>2, <3>3
    <2>2. \A k \in DOMAIN sharedIrs :
            sharedIrs[k].gpuRaw # Null => sharedIrs[k].gpuRaw # sharedIrs[k].gpuSegments
      BY DEF IInv, Ownership, Owned
    <2> QED
      BY <2>1, <2>2 DEF NoOrphanMemory
  <1> QED
    BY <1>1, Invariance, PTL

-----------------------------------------------------------------------------
(* The cache implements IRResidency                                        *)

uses     == [s \in Shares |-> IF isAllocated[s] THEN KeyOf(s) ELSE Null]
resident == {k \in DOMAIN sharedIrs : sharedIrs[k].gpuRaw # Null}

ResidentIffUsed == resident = {uses[s] : s \in Shares} \ {Null}

(* The abstraction maps a share to Null exactly if it holds nothing.       *)
LEMMA UsesNull ==
  ASSUME IInv, NEW s \in Shares
  PROVE  /\ isAllocated[s] => uses[s] = info[s] /\ uses[s] # Null /\ uses[s] \in Requestable
         /\ ~isAllocated[s] => uses[s] = Null
  BY NullAssumption DEF IInv, TypeOK, Handles, Found, KeyOf, uses

(* The responses with samples on the GPU are those some share holds.       *)
LEMMA ResidentUsed == IInv => ResidentIffUsed
  <1> SUFFICES ASSUME IInv PROVE resident = {uses[s] : s \in Shares} \ {Null}
    BY DEF ResidentIffUsed
  <1>1. ASSUME NEW k \in resident PROVE k \in {uses[s] : s \in Shares} \ {Null}
    <2>1. HoldersOf(k) # {}
      BY DEF resident, IInv, Ownership, Owned
    <2>2. PICK s \in Shares : isAllocated[s] /\ KeyOf(s) = k
      BY <2>1 DEF HoldersOf
    <2> QED
      BY <2>2, UsesNull DEF KeyOf
  <1>2. ASSUME NEW s \in Shares, uses[s] # Null PROVE uses[s] \in resident
    <2>1. isAllocated[s] /\ uses[s] = info[s]
      BY <1>2, UsesNull
    <2>2. info[s] \in DOMAIN sharedIrs /\ sharedIrs[info[s]].gpuRaw # Null
      BY <2>1 DEF IInv, Handles, Found, KeyOf
    <2> QED
      BY <2>1, <2>2 DEF resident
  <1> QED
    BY <1>1, <1>2

(* Only getRawIR takes a reference; only unload gives it back.             *)
LEMMA UsesStep ==
  ASSUME IInv, NEW s \in Shares, ShareStep(s)
  PROVE  \/ uses' = uses
         \/ /\ uses[s] = Null
            /\ \E r \in Requestable : uses' = [uses EXCEPT ![s] = r]
         \/ /\ uses[s] # Null
            /\ uses' = [uses EXCEPT ![s] = Null]
  <1> USE DEF uses, KeyOf
  <1>1. ASSUME NEW i, NEW c, ResetFields(s, i, c)
        PROVE  \/ uses' = uses
               \/ uses[s] # Null /\ uses' = [uses EXCEPT ![s] = Null]
    <2>1. \A t \in Shares : /\ isAllocated'[t] <=> (isAllocated[t] /\ t # s)
                            /\ t # s => info'[t] = info[t]
      BY <1>1 DEF ResetFields, IInv, TypeOK
    <2>2. uses' = [uses EXCEPT ![s] = Null]
      BY <2>1
    <2> QED
      BY <2>2
  <1>2. CASE UNCHANGED <<isAllocated, info>>
    BY <1>2
  <1>3. CASE GetRawIR(s)
    <2>1. CASE raw[s] # Null
      BY <1>3, <2>1 DEF GetRawIR
    <2>2. CASE raw[s] = Null
      <3>1. isAllocated' = [isAllocated EXCEPT ![s] = TRUE] /\ info' = info
        BY <1>3, <2>2, AcquireRaw, Zenon DEF GetRawIR, IInv
      <3>2. ~isAllocated[s] /\ uses[s] = Null
        BY <2>2 DEF IInv, Handles
      <3>3. info[s] \in Requestable
        BY <1>3 DEF GetRawIR, IInv, Phases
      <3>4. uses' = [uses EXCEPT ![s] = info[s]]
        BY <3>1 DEF IInv, TypeOK
      <3> QED
        BY <3>2, <3>3, <3>4
    <2> QED
      BY <2>1, <2>2
  <1>4. CASE GetSegments(s)
    <2>1. isAllocated[s]
      BY <1>4 DEF GetSegments, IInv, Phases, Handles
    <2>2. isAllocated' \in {isAllocated, [isAllocated EXCEPT ![s] = TRUE]} /\ info' = info
      BY <1>4, Zenon DEF GetSegments
    <2>3. [isAllocated EXCEPT ![s] = TRUE] = isAllocated
      BY <2>1 DEF IInv, TypeOK
    <2> QED
      BY <2>2, <2>3
  <1>5. CASE \E ctor \in CtorInfos : Construct(s, ctor)
    BY <1>1, <1>5 DEF Construct
  <1>6. CASE \E index \in Choices : LoadImpulseResponse(s, index)
    BY <1>1, <1>2, <1>6 DEF LoadImpulseResponse, fields
  <1>7. CASE Destroy(s)
    BY <1>1, <1>7 DEF Destroy
  <1>8. CASE \/ Reconnect(s) \/ TranslateFilter(s)
             \/ OwnBufferFails(s) \/ RawIRFails(s) \/ SegmentsFail(s)
    BY <1>2, <1>8 DEF Reconnect, TranslateFilter, OwnBufferFails, RawIRFails, SegmentsFail,
                      AllocationFails, fields
  <1> QED
    BY <1>3, <1>4, <1>5, <1>6, <1>7, <1>8 DEF ShareStep

(* The cache implements its abstract specification: a response is on the   *)
(* GPU from its first user's getRawIR to its last user's unload.           *)
THEOREM Refinement == Spec => ImplementsResidency
  <1>1. Init => Residency!Init
    <2> SUFFICES ASSUME Init PROVE Residency!Init
      OBVIOUS
    <2>1. uses = [s \in Shares |-> Null] /\ resident = {}
      BY DEF Init, uses, resident
    <2> QED
      BY <2>1 DEF Residency!Init, uses, resident
  <1>2. IInv' => ResidentIffUsed'
    BY ResidentUsed, PTL
  <1>3. IInv /\ IInv' /\ [Next]_vars => [Residency!Next]_(Residency!vars)
    <2> SUFFICES ASSUME IInv, IInv', [Next]_vars
                 PROVE  [Residency!Next]_(Residency!vars)
      OBVIOUS
    <2>1. /\ resident = {uses[s] : s \in Shares} \ {Null}
          /\ resident' = {uses'[s] : s \in Shares} \ {Null}
      BY ResidentUsed, <1>2 DEF ResidentIffUsed
    <2>2. CASE uses' = uses
      BY <2>1, <2>2 DEF Residency!vars, uses, resident
    <2>3. ASSUME NEW s \in Shares, uses[s] = Null, NEW r \in Requestable,
                 uses' = [uses EXCEPT ![s] = r]
          PROVE  Residency!Acquire(s, r)
      <3>1. resident' = resident \cup {r}
        BY <2>1, <2>3, NullAssumption DEF uses
      <3> QED
        BY <2>3, <3>1 DEF Residency!Acquire, uses, resident
    <2>4. ASSUME NEW s \in Shares, uses[s] # Null, uses' = [uses EXCEPT ![s] = Null]
          PROVE  Residency!Release(s)
      <3>1. resident' = IF \E v \in Shares \ {s} : uses[v] = uses[s]
                        THEN resident ELSE resident \ {uses[s]}
        <4>1. \A v \in Shares : uses'[v] = IF v = s THEN Null ELSE uses[v]
          BY <2>4 DEF uses
        <4>2. CASE \E v \in Shares \ {s} : uses[v] = uses[s]
          BY <2>1, <4>1, <4>2
        <4>3. CASE ~ \E v \in Shares \ {s} : uses[v] = uses[s]
          BY <2>1, <4>1, <4>3
        <4> QED
          BY <4>2, <4>3
      <3> QED
        BY <2>4, <3>1 DEF Residency!Release, uses, resident
    <2>5. CASE UNCHANGED vars
      BY <2>2, <2>5 DEF uses, KeyOf, vars, fields
    <2>6. CASE \E s \in Shares : ShareStep(s)
      <3>1. PICK s \in Shares : ShareStep(s)
        BY <2>6
      <3> QED
        BY <2>2, <2>3, <2>4, <3>1, UsesStep, Zenon DEF Residency!Next
    <2> QED
      BY <2>5, <2>6 DEF Next
  <1> QED
    BY <1>1, <1>3, Invariance, PTL DEF Spec, ImplementsResidency, Residency!Spec

-----------------------------------------------------------------------------
(* Contents                                                                *)

(* The blocks of an entry fit its key, whoever allocated or wrote them; ... *)
RawOfKey ==
  \A k \in DOMAIN sharedIrs : sharedIrs[k].gpuRaw # Null =>
    gpu[sharedIrs[k].gpuRaw] =
      [size |-> RawStep(k.filterLength) * ChannelsOf(k), content |-> Samples(k)]

SegmentsOfKey ==
  \A k \in DOMAIN sharedIrs : sharedIrs[k].gpuSegments # Null =>
    gpu[sharedIrs[k].gpuSegments].size = SegmentStep(k.filterLength) * ChannelsOf(k)

(* ... what a processor computes with fits its own key, ...                *)
StepsOfShare ==
  \A s \in Shares :
    /\ raw[s] # Null => rawStep[s] = RawStep(info[s].filterLength)
    /\ segments[s] # Null => segmentStep[s] = SegmentStep(info[s].filterLength)
    /\ pc[s] # "none" => channelCount[s] = ChannelsOf(info[s])

(* ... and what its device has translated stays translated.                *)
Spectrum(k) == [form |-> "spectrum", of |-> ImpulseResponse(k)]

TranslatedOfShare ==
  \A s \in Shares :
    pc[s] = "ready" /\ translated[s] => gpu[segments[s]].content = Spectrum(info[s])

Contents == RawOfKey /\ SegmentsOfKey /\ StepsOfShare /\ TranslatedOfShare

-----------------------------------------------------------------------------
(* A handle is a block of its entry, and the memory of entries is live.    *)
LEMMA HandlesOfEntry ==
  ASSUME IInv, NEW s \in Shares
  PROVE  /\ raw[s] # Null =>
              /\ info[s] \in DOMAIN sharedIrs /\ raw[s] \in DOMAIN gpu
              /\ raw[s] = sharedIrs[info[s]].gpuRaw
         /\ segments[s] # Null =>
              /\ info[s] \in DOMAIN sharedIrs /\ segments[s] \in DOMAIN gpu
              /\ segments[s] = sharedIrs[info[s]].gpuSegments
  BY Zenon DEF IInv, Handles, Ownership, Owned, Found, KeyOf

(* Whatever a step does, memory live before and after it keeps its content, *)
(* but for the segments a device translates into.                          *)
LEMMA BlocksKept ==
  ASSUME NEW s \in Shares, ShareStep(s), ~TranslateFilter(s),
         NEW b \in DOMAIN gpu, b \in DOMAIN gpu'
  PROVE  gpu'[b] = gpu[b]
  <1>1. CASE gpu' = gpu
    BY <1>1
  <1>2. CASE Released(s)
    BY <1>2 DEF Released, Without
  <1>3. ASSUME NEW c, NEW size, NEW content, Allocate(c, size, content)
        PROVE  gpu'[b] = gpu[b]
    BY <1>3 DEF Allocate, With
  <1>4. CASE GetRawIR(s)
    BY <1>1, <1>3, <1>4, Zenon DEF GetRawIR
  <1>5. CASE GetSegments(s)
    BY <1>1, <1>3, <1>5, Zenon DEF GetSegments
  <1>6. ASSUME NEW index \in Choices, LoadImpulseResponse(s, index)
        PROVE  gpu'[b] = gpu[b]
    BY <1>1, <1>2, <1>6, Zenon DEF LoadImpulseResponse
  <1> QED
    BY <1>1, <1>2, <1>4, <1>5, <1>6
       DEF ShareStep, Construct, Reconnect, OwnBufferFails, RawIRFails, SegmentsFail,
           AllocationFails, Destroy

(* Only getRawIR and getSegments give an entry memory.                     *)
LEMMA EntriesKept ==
  ASSUME IInv, NEW s \in Shares, ShareStep(s), ~GetRawIR(s), ~GetSegments(s),
         NEW k \in DOMAIN sharedIrs'
  PROVE  \/ /\ k \in DOMAIN sharedIrs
            /\ sharedIrs'[k].gpuRaw = sharedIrs[k].gpuRaw
            /\ sharedIrs'[k].gpuSegments = sharedIrs[k].gpuSegments
         \/ sharedIrs'[k].gpuRaw = Null /\ sharedIrs'[k].gpuSegments = Null
  <1>1. CASE sharedIrs' = sharedIrs
    BY <1>1
  <1>2. CASE Released(s)
    <2>1. CASE sharedIrs' = Without(sharedIrs, {KeyOf(s)})
      BY <2>1 DEF Without
    <2>2. CASE GivesUp(s) /\ sharedIrs' = With(sharedIrs, KeyOf(s),
                 [gpuRaw |-> Entry(s).gpuRaw, gpuSegments |-> Entry(s).gpuSegments,
                  refcounting |-> Entry(s).refcounting - 1])
      BY <2>2 DEF With, GivesUp, Found, Entry
    <2> QED
      BY <1>1, <1>2, <2>1, <2>2, ReleasedCases DEF IInv
  <1>3. CASE sharedIrs' = With(sharedIrs, KeyOf(s), Entry(s))
    BY <1>3 DEF With, Entry, Found, NoData
  <1>6. ASSUME NEW index \in Choices, LoadImpulseResponse(s, index)
        PROVE  sharedIrs' = sharedIrs \/ Released(s)
    BY <1>6, Zenon DEF LoadImpulseResponse
  <1> QED
    BY <1>1, <1>2, <1>3, <1>6
       DEF ShareStep, Construct, Reconnect, OwnBufferFails, RawIRFails, SegmentsFail,
           TranslateFilter, Destroy

(* Memory the map keeps from one state to the next keeps its content, but  *)
(* for the segments a device translates into.                              *)
LEMMA EntryBlocksKept ==
  ASSUME IInv, IInv', NEW s \in Shares, ShareStep(s), ~TranslateFilter(s),
         NEW k \in DOMAIN sharedIrs, k \in DOMAIN sharedIrs'
  PROVE  /\ sharedIrs[k].gpuRaw # Null /\ sharedIrs'[k].gpuRaw = sharedIrs[k].gpuRaw
              => gpu'[sharedIrs'[k].gpuRaw] = gpu[sharedIrs[k].gpuRaw]
         /\ sharedIrs[k].gpuSegments # Null
              /\ sharedIrs'[k].gpuSegments = sharedIrs[k].gpuSegments
              => gpu'[sharedIrs'[k].gpuSegments] = gpu[sharedIrs[k].gpuSegments]
  <1>1. Owned /\ Owned'
    BY DEF IInv, Ownership
  <1> QED
    BY <1>1, BlocksKept DEF Owned

(* The entries fit their keys after getRawIR: ...                          *)
LEMMA ContentsAfterGetRawIR ==
  ASSUME IInv, IInv', Contents, NEW s \in Shares, GetRawIR(s)
  PROVE  RawOfKey' /\ SegmentsOfKey'
  <1>0. ShareStep(s) /\ ~TranslateFilter(s)
    BY DEF ShareStep, TranslateFilter, GetRawIR
  <1>1. CASE raw[s] # Null
    BY <1>1 DEF GetRawIR, Contents, RawOfKey, SegmentsOfKey
  <1>2. CASE raw[s] = Null
    <2>1. PICK b \in Blocks :
              /\ raw' = [raw EXCEPT ![s] = b]
              /\ sharedIrs' = With(sharedIrs, KeyOf(s),
                   [gpuRaw |-> b, gpuSegments |-> Entry(s).gpuSegments,
                    refcounting |-> IF isAllocated[s] THEN Entry(s).refcounting
                                    ELSE Entry(s).refcounting + 1])
              /\ \/ Entry(s).gpuRaw = b /\ gpu' = gpu
                 \/ /\ Entry(s).gpuRaw = Null
                    /\ Allocate(b, RawStep(info[s].filterLength) * channelCount[s],
                                Samples(info[s]))
      BY <1>2, AcquireRaw, Zenon DEF IInv
    <2>2. b # Null /\ channelCount[s] = ChannelsOf(info[s])
      BY NullAssumption DEF Contents, StepsOfShare, GetRawIR
    <2>3. ASSUME NEW k \in DOMAIN sharedIrs', k # KeyOf(s)
          PROVE  k \in DOMAIN sharedIrs /\ sharedIrs'[k] = sharedIrs[k]
      BY <2>1, <2>3 DEF With
    <2>4. /\ sharedIrs'[KeyOf(s)].gpuRaw = b
          /\ sharedIrs'[KeyOf(s)].gpuSegments = Entry(s).gpuSegments
          /\ KeyOf(s) \in DOMAIN sharedIrs'
      BY <2>1 DEF With
    <2>5. RawOfKey'
      <3>1. gpu'[b] = [size |-> RawStep(KeyOf(s).filterLength) * ChannelsOf(KeyOf(s)),
                       content |-> Samples(KeyOf(s))]
        <4>1. CASE Entry(s).gpuRaw = b /\ gpu' = gpu
          BY <2>2, <4>1, NullAssumption
             DEF Entry, Found, NoData, Contents, RawOfKey
        <4>2. CASE Allocate(b, RawStep(info[s].filterLength) * channelCount[s],
                            Samples(info[s]))
          BY <2>2, <4>2 DEF Allocate, With, KeyOf
        <4> QED
          BY <2>1, <4>1, <4>2
      <3>2. ASSUME NEW k \in DOMAIN sharedIrs', k # KeyOf(s), sharedIrs'[k].gpuRaw # Null
            PROVE  gpu'[sharedIrs'[k].gpuRaw] =
                     [size |-> RawStep(k.filterLength) * ChannelsOf(k), content |-> Samples(k)]
        <4>1. k \in DOMAIN sharedIrs /\ sharedIrs'[k] = sharedIrs[k]
          BY <2>3, <3>2
        <4> QED
          BY <1>0, <3>2, <4>1, EntryBlocksKept DEF Contents, RawOfKey
      <3> QED
        BY <2>4, <3>1, <3>2, Zenon DEF RawOfKey, Samples
    <2>6. SegmentsOfKey'
      <3>1. ASSUME NEW k \in DOMAIN sharedIrs', sharedIrs'[k].gpuSegments # Null
            PROVE  gpu'[sharedIrs'[k].gpuSegments].size
                     = SegmentStep(k.filterLength) * ChannelsOf(k)
        <4>1. /\ k \in DOMAIN sharedIrs
              /\ sharedIrs'[k].gpuSegments = sharedIrs[k].gpuSegments
          BY <2>3, <2>4, <3>1 DEF Entry, Found, NoData
        <4> QED
          BY <1>0, <3>1, <4>1, EntryBlocksKept DEF Contents, SegmentsOfKey
      <3> QED
        BY <3>1 DEF SegmentsOfKey
    <2> QED
      BY <2>5, <2>6
  <1> QED
    BY <1>1, <1>2

(* ... after getSegments: ...                                              *)
LEMMA ContentsAfterGetSegments ==
  ASSUME IInv, IInv', Contents, NEW s \in Shares, GetSegments(s)
  PROVE  RawOfKey' /\ SegmentsOfKey'
  <1>0. ShareStep(s) /\ ~TranslateFilter(s)
    BY DEF ShareStep, TranslateFilter, GetSegments
  <1>1. CASE segments[s] # Null
    BY <1>1 DEF GetSegments, Contents, RawOfKey, SegmentsOfKey
  <1>2. CASE segments[s] = Null
    <2>0. isAllocated[s]
      BY DEF IInv, Phases, Handles, GetSegments
    <2>1. PICK b \in Blocks :
              /\ segments' = [segments EXCEPT ![s] = b]
              /\ sharedIrs' = With(sharedIrs, KeyOf(s),
                   [gpuRaw |-> Entry(s).gpuRaw, gpuSegments |-> b,
                    refcounting |-> Entry(s).refcounting])
              /\ \/ Entry(s).gpuSegments = b /\ gpu' = gpu
                 \/ /\ Entry(s).gpuSegments = Null
                    /\ Allocate(b, SegmentStep(info[s].filterLength) * channelCount[s],
                                Uninitialised)
      BY <1>2, <2>0, AcquireSegments, Zenon DEF IInv
    <2>2. b # Null /\ channelCount[s] = ChannelsOf(info[s])
      BY NullAssumption DEF Contents, StepsOfShare, GetSegments
    <2>3. ASSUME NEW k \in DOMAIN sharedIrs', k # KeyOf(s)
          PROVE  k \in DOMAIN sharedIrs /\ sharedIrs'[k] = sharedIrs[k]
      BY <2>1, <2>3 DEF With
    <2>4. /\ sharedIrs'[KeyOf(s)].gpuSegments = b
          /\ sharedIrs'[KeyOf(s)].gpuRaw = Entry(s).gpuRaw
          /\ KeyOf(s) \in DOMAIN sharedIrs'
      BY <2>1 DEF With
    <2>5. SegmentsOfKey'
      <3>1. gpu'[b].size = SegmentStep(KeyOf(s).filterLength) * ChannelsOf(KeyOf(s))
        <4>1. CASE Entry(s).gpuSegments = b /\ gpu' = gpu
          BY <2>2, <4>1, NullAssumption
             DEF Entry, Found, NoData, Contents, SegmentsOfKey
        <4>2. CASE Allocate(b, SegmentStep(info[s].filterLength) * channelCount[s],
                            Uninitialised)
          BY <2>2, <4>2 DEF Allocate, With, KeyOf
        <4> QED
          BY <2>1, <4>1, <4>2
      <3>2. ASSUME NEW k \in DOMAIN sharedIrs', k # KeyOf(s), sharedIrs'[k].gpuSegments # Null
            PROVE  gpu'[sharedIrs'[k].gpuSegments].size
                     = SegmentStep(k.filterLength) * ChannelsOf(k)
        <4>1. k \in DOMAIN sharedIrs /\ sharedIrs'[k] = sharedIrs[k]
          BY <2>3, <3>2
        <4> QED
          BY <1>0, <3>2, <4>1, EntryBlocksKept DEF Contents, SegmentsOfKey
      <3> QED
        BY <2>4, <3>1, <3>2, Zenon DEF SegmentsOfKey
    <2>6. RawOfKey'
      <3>1. ASSUME NEW k \in DOMAIN sharedIrs', sharedIrs'[k].gpuRaw # Null
            PROVE  gpu'[sharedIrs'[k].gpuRaw] =
                     [size |-> RawStep(k.filterLength) * ChannelsOf(k), content |-> Samples(k)]
        <4>1. /\ k \in DOMAIN sharedIrs
              /\ sharedIrs'[k].gpuRaw = sharedIrs[k].gpuRaw
          BY <2>3, <2>4, <3>1 DEF Entry, Found, NoData
        <4> QED
          BY <1>0, <3>1, <4>1, EntryBlocksKept DEF Contents, RawOfKey
      <3> QED
        BY <3>1 DEF RawOfKey, Samples
    <2> QED
      BY <2>5, <2>6
  <1> QED
    BY <1>1, <1>2

(* ... after the device translated a filter: its spectrum goes to segments *)
(* that are no other entry's, and no raw samples; ...                      *)
LEMMA TranslationIs ==
  ASSUME IInv, Contents, NEW s \in Shares, TranslateFilter(s)
  PROVE  /\ info[s] \in DOMAIN sharedIrs
         /\ segments[s] = sharedIrs[info[s]].gpuSegments
         /\ gpu'[segments[s]] = [size |-> gpu[segments[s]].size, content |-> Spectrum(info[s])]
         /\ \A b \in DOMAIN gpu : b # segments[s] => gpu'[b] = gpu[b]
         /\ UNCHANGED <<info, raw, segments, rawStep, segmentStep, channelCount, sharedIrs, pc>>
  <1>1. raw[s] # Null /\ segments[s] # Null
    BY DEF IInv, Phases, TranslateFilter
  <1>2. gpu[raw[s]].content = Samples(info[s])
    <2>1. info[s] \in DOMAIN sharedIrs /\ raw[s] = sharedIrs[info[s]].gpuRaw
      BY <1>1, HandlesOfEntry
    <2>2. gpu[raw[s]] = [size |-> RawStep(info[s].filterLength) * ChannelsOf(info[s]),
                         content |-> Samples(info[s])]
      BY <1>1, <2>1, Zenon DEF Contents, RawOfKey
    <2> QED
      BY <2>2
  <1>3. SpectrumOf(raw[s]) = Spectrum(info[s])
    BY <1>2 DEF SpectrumOf, Samples, Spectrum
  <1>4. gpu' = With(gpu, segments[s],
                    [size |-> gpu[segments[s]].size, content |-> Spectrum(info[s])])
    BY <1>3 DEF TranslateFilter
  <1>5. /\ gpu'[segments[s]] = [size |-> gpu[segments[s]].size, content |-> Spectrum(info[s])]
        /\ \A b \in DOMAIN gpu : b # segments[s] => gpu'[b] = gpu[b]
    BY <1>4 DEF With
  <1> QED
    BY <1>1, <1>5, HandlesOfEntry DEF TranslateFilter, fields

LEMMA ContentsAfterTranslation ==
  ASSUME IInv, Contents, NEW s \in Shares, TranslateFilter(s)
  PROVE  RawOfKey' /\ SegmentsOfKey'
  <1>1. /\ gpu'[segments[s]].size = gpu[segments[s]].size
        /\ \A b \in DOMAIN gpu : b # segments[s] => gpu'[b] = gpu[b]
        /\ sharedIrs' = sharedIrs
    <2>1. gpu'[segments[s]] = [size |-> gpu[segments[s]].size, content |-> Spectrum(info[s])]
      BY TranslationIs
    <2>2. gpu'[segments[s]].size = gpu[segments[s]].size
      BY <2>1
    <2> QED
      BY <2>2, TranslationIs, Zenon
  <1>2. ASSUME NEW k \in DOMAIN sharedIrs, sharedIrs[k].gpuRaw # Null
        PROVE  gpu'[sharedIrs[k].gpuRaw] = gpu[sharedIrs[k].gpuRaw]
    <2>1. info[s] \in DOMAIN sharedIrs /\ segments[s] = sharedIrs[info[s]].gpuSegments
      BY TranslationIs
    <2>2. sharedIrs[k].gpuRaw # segments[s] /\ sharedIrs[k].gpuRaw \in DOMAIN gpu
      BY <1>2, <2>1 DEF IInv, Ownership, Owned, Apart, BlocksOf
    <2> QED
      BY <1>1, <2>2
  <1>3. ASSUME NEW k \in DOMAIN sharedIrs, sharedIrs[k].gpuSegments # Null
        PROVE  gpu'[sharedIrs[k].gpuSegments].size = gpu[sharedIrs[k].gpuSegments].size
    <2>1. sharedIrs[k].gpuSegments \in DOMAIN gpu
      BY <1>3 DEF IInv, Ownership, Owned
    <2>2. CASE sharedIrs[k].gpuSegments = segments[s]
      BY <1>1, <2>2
    <2> QED
      BY <1>1, <2>1, <2>2
  <1>4. RawOfKey'
    BY <1>1, <1>2, Zenon DEF RawOfKey, Samples, Contents
  <1>5. SegmentsOfKey'
    BY <1>1, <1>3, Zenon DEF SegmentsOfKey, Contents
  <1> QED
    BY <1>4, <1>5

(* ... and after any other step, which allocates nothing.                  *)
LEMMA EntryContentsStep ==
  ASSUME IInv, IInv', Contents, NEW s \in Shares, ShareStep(s)
  PROVE  RawOfKey' /\ SegmentsOfKey'
  <1>1. CASE ~GetRawIR(s) /\ ~GetSegments(s) /\ ~TranslateFilter(s)
    <2>1. RawOfKey'
      BY <1>1, EntriesKept, EntryBlocksKept DEF RawOfKey, Samples, Contents
    <2>2. SegmentsOfKey'
      BY <1>1, EntriesKept, EntryBlocksKept DEF SegmentsOfKey, Contents
    <2> QED
      BY <2>1, <2>2
  <1> QED
    BY <1>1, ContentsAfterGetRawIR, ContentsAfterGetSegments, ContentsAfterTranslation

-----------------------------------------------------------------------------
(* The shares                                                              *)

(* The steps and channels of a share are those of its own response.        *)
LEMMA StepsOfShareStep ==
  ASSUME IInv, IInv', Contents, NEW s \in Shares, ShareStep(s)
  PROVE  StepsOfShare'
  <1> USE DEF Contents, StepsOfShare, Goto
  <1>0. TypeOK
    BY DEF IInv
  <1>1. ASSUME NEW ctor \in CtorInfos, Construct(s, ctor) PROVE StepsOfShare'
    <2>1. ChannelsOf(Info(NoIndex, ctor[1], ctor[2])) = 1
      BY DEF ChannelsOf, Info
    <2> QED
      BY <1>0, <1>1, <2>1 DEF Construct, ResetFields, TypeOK
  <1>2. ASSUME NEW index \in Choices, LoadImpulseResponse(s, index) PROVE StepsOfShare'
    <2>1. CASE UNCHANGED fields
      BY <1>0, <1>2, <2>1 DEF LoadImpulseResponse, fields, TypeOK
    <2>2. CASE ResetFields(s, AfterLoad(info[s], index), ChannelsOf(AfterLoad(info[s], index)))
      <3> DEFINE loaded == AfterLoad(info[s], index)
      <3>1. /\ info'[s] = loaded /\ channelCount'[s] = ChannelsOf(loaded)
            /\ raw'[s] = Null /\ segments'[s] = Null
            /\ \A t \in Shares \ {s} :
                 /\ info'[t] = info[t] /\ channelCount'[t] = channelCount[t]
                 /\ raw'[t] = raw[t] /\ segments'[t] = segments[t] /\ pc'[t] = pc[t]
            /\ rawStep' = rawStep /\ segmentStep' = segmentStep
        BY <1>0, <1>2, <2>2 DEF LoadImpulseResponse, ResetFields, TypeOK
      <3> HIDE DEF loaded
      <3> QED
        BY <3>1
    <2> QED
      BY <1>2, <2>1, <2>2, Zenon DEF LoadImpulseResponse
  <1>3. CASE GetRawIR(s)
    <2>1. \/ UNCHANGED <<raw, rawStep>>
          \/ /\ rawStep' = [rawStep EXCEPT ![s] = RawStep(info[s].filterLength)]
             /\ \E b \in Blocks : raw' = [raw EXCEPT ![s] = b]
      BY <1>0, <1>3, AcquireRaw, Zenon DEF GetRawIR
    <2>2. /\ UNCHANGED <<info, channelCount, segments, segmentStep>>
          /\ pc[s] # "none" /\ pc' = [pc EXCEPT ![s] = "segments"]
      BY <1>3 DEF GetRawIR
    <2> QED
      BY <1>0, <2>1, <2>2 DEF TypeOK
  <1>4. CASE GetSegments(s)
    <2>0. isAllocated[s]
      BY <1>4 DEF IInv, Phases, Handles, GetSegments
    <2>1. \/ UNCHANGED <<segments, segmentStep>>
          \/ /\ segmentStep' = [segmentStep EXCEPT ![s] = SegmentStep(info[s].filterLength)]
             /\ \E b \in Blocks : segments' = [segments EXCEPT ![s] = b]
      BY <1>0, <1>4, <2>0, AcquireSegments, Zenon DEF GetSegments
    <2>2. /\ UNCHANGED <<info, channelCount, raw, rawStep>>
          /\ pc[s] # "none" /\ pc' = [pc EXCEPT ![s] = "ready"]
      BY <1>4 DEF GetSegments
    <2> QED
      BY <1>0, <2>1, <2>2 DEF TypeOK
  <1>5. CASE TranslateFilter(s)
    BY <1>5, TranslationIs
  <1>6. CASE OwnBufferFails(s)
    BY <1>0, <1>6 DEF OwnBufferFails, AllocationFails, TypeOK
  <1>7. CASE RawIRFails(s)
    BY <1>0, <1>7 DEF RawIRFails, AllocationFails, TypeOK
  <1>8. CASE SegmentsFail(s)
    BY <1>0, <1>8 DEF SegmentsFail, AllocationFails, TypeOK
  <1>9. CASE Destroy(s)
    BY <1>0, <1>9 DEF Destroy, ResetFields, TypeOK
  <1>10. CASE Reconnect(s)
    BY <1>0, <1>10 DEF Reconnect, fields, TypeOK
  <1> QED
    BY <1>1, <1>2, <1>3, <1>4, <1>5, <1>6, <1>7, <1>8, <1>9, <1>10 DEF ShareStep

(* Only its own steps change where a processor stands and what it holds.   *)
LEMMA OthersUnchanged ==
  ASSUME IInv, NEW s \in Shares, ShareStep(s), NEW t \in Shares, t # s
  PROVE  /\ pc'[t] = pc[t] /\ translated'[t] = translated[t]
         /\ info'[t] = info[t] /\ raw'[t] = raw[t] /\ segments'[t] = segments[t]
  <1> USE DEF IInv, TypeOK, Goto, ResetFields, fields
  <1>1. ASSUME NEW ctor \in CtorInfos, Construct(s, ctor)
        PROVE  /\ pc'[t] = pc[t] /\ translated'[t] = translated[t]
               /\ info'[t] = info[t] /\ raw'[t] = raw[t] /\ segments'[t] = segments[t]
    BY <1>1 DEF Construct
  <1>2. ASSUME NEW index \in Choices, LoadImpulseResponse(s, index)
        PROVE  /\ pc'[t] = pc[t] /\ translated'[t] = translated[t]
               /\ info'[t] = info[t] /\ raw'[t] = raw[t] /\ segments'[t] = segments[t]
    BY <1>2 DEF LoadImpulseResponse
  <1>3. CASE GetRawIR(s) \/ GetSegments(s)
    <2>1. /\ \E label : pc' = [pc EXCEPT ![s] = label]
          /\ translated' = translated \/ translated' = [translated EXCEPT ![s] = FALSE]
          /\ info' = info
          /\ raw' = raw \/ \E b : raw' = [raw EXCEPT ![s] = b]
          /\ segments' = segments \/ \E b : segments' = [segments EXCEPT ![s] = b]
      BY <1>3, Zenon DEF GetRawIR, GetSegments
    <2> QED
      BY <2>1
  <1>4. CASE TranslateFilter(s)
    BY <1>4 DEF TranslateFilter
  <1>6. CASE Destroy(s)
    BY <1>6 DEF Destroy
  <1>5. CASE OwnBufferFails(s) \/ RawIRFails(s) \/ SegmentsFail(s)
    BY <1>5 DEF OwnBufferFails, RawIRFails, SegmentsFail, AllocationFails
  <1>7. CASE Reconnect(s)
    BY <1>7 DEF Reconnect
  <1> QED
    BY <1>1, <1>2, <1>3, <1>4, <1>5, <1>6, <1>7 DEF ShareStep

(* What a device has translated is not disturbed: another processor that   *)
(* translates into the same segments has the same response.                *)
LEMMA TranslatedStep ==
  ASSUME IInv, IInv', Contents, NEW s \in Shares, ShareStep(s)
  PROVE  TranslatedOfShare'
  <1> SUFFICES ASSUME NEW t \in Shares, pc'[t] = "ready", translated'[t]
               PROVE  gpu'[segments'[t]].content = Spectrum(info'[t])
    BY DEF TranslatedOfShare, Spectrum
  <1>1. CASE TranslateFilter(s)
    <2>1. UNCHANGED <<info, segments, pc>>
      BY <1>1, TranslationIs
    <2>2. CASE segments[t] = segments[s]
      <3>1. /\ info[s] \in DOMAIN sharedIrs /\ segments[s] = sharedIrs[info[s]].gpuSegments
            /\ info[t] \in DOMAIN sharedIrs /\ segments[t] = sharedIrs[info[t]].gpuSegments
            /\ segments[s] # Null
        BY <1>1, <2>1, HandlesOfEntry, Zenon DEF IInv, Phases, TranslateFilter
      <3>2. info[t] = info[s]
        BY <2>2, <3>1 DEF IInv, Ownership, Apart, BlocksOf
      <3>3. gpu'[segments[s]] = [size |-> gpu[segments[s]].size, content |-> Spectrum(info[s])]
        BY <1>1, TranslationIs
      <3>4. gpu'[segments[s]].content = Spectrum(info[s])
        BY <3>3
      <3> QED
        BY <2>1, <2>2, <3>2, <3>4
    <2>3. CASE segments[t] # segments[s]
      <3>1. t # s /\ translated[t] /\ pc[t] = "ready" /\ segments[t] \in DOMAIN gpu
        BY <2>1, <2>3, <1>1, OthersUnchanged, HandlesOfEntry DEF IInv, Phases
      <3> QED
        BY <1>1, <2>1, <2>3, <3>1, TranslationIs DEF Contents, TranslatedOfShare
    <2> QED
      BY <2>2, <2>3
  <1>2. CASE ~TranslateFilter(s)
    <2>1. t # s
      BY <1>2 DEF ShareStep, Construct, LoadImpulseResponse, Reconnect, GetRawIR, GetSegments,
                  OwnBufferFails, RawIRFails, SegmentsFail, AllocationFails, Destroy,
                  Goto, IInv, TypeOK
    <2>2. /\ pc[t] = "ready" /\ translated[t]
          /\ info'[t] = info[t] /\ segments'[t] = segments[t]
      BY <2>1, OthersUnchanged
    <2>3. segments[t] # Null /\ segments[t] \in DOMAIN gpu
      BY <2>2, HandlesOfEntry DEF IInv, Phases
    <2>4. segments'[t] \in DOMAIN gpu'
      <3>1. Handles' /\ Ownership'
        BY DEF IInv
      <3> QED
        BY <2>2, <2>3, <3>1 DEF Handles, Ownership, Owned, Found
    <2> QED
      BY <1>2, <2>2, <2>3, <2>4, BlocksKept DEF Contents, TranslatedOfShare
  <1> QED
    BY <1>1, <1>2

(* Every reachable state: memory fits and is what its users mean it to be. *)
THEOREM ContentsInvariance == Spec => [](IInv /\ Contents)
  <1>1. Init => IInv /\ Contents
    BY InitIInv DEF Init, Contents, RawOfKey, SegmentsOfKey, StepsOfShare, TranslatedOfShare
  <1>2. IInv /\ Contents /\ [Next]_vars => IInv' /\ Contents'
    <2> SUFFICES ASSUME IInv, Contents, [Next]_vars PROVE IInv' /\ Contents'
      OBVIOUS
    <2>1. IInv'
      BY IInvStep
    <2>2. ASSUME NEW s \in Shares, ShareStep(s) PROVE Contents'
      BY <2>1, <2>2, EntryContentsStep, StepsOfShareStep, TranslatedStep DEF Contents
    <2>3. CASE UNCHANGED vars
      BY <2>1, <2>3 DEF vars, fields, Contents, RawOfKey, SegmentsOfKey, StepsOfShare,
                  TranslatedOfShare, Samples, Spectrum
    <2>4. CASE Next
      BY <2>1, <2>2, <2>4 DEF Next
    <2> QED
      BY <2>3, <2>4
  <1> QED
    BY <1>1, <1>2, PTL DEF Spec

(* The channel pointers of every processor stay inside the blocks, also in *)
(* those another processor allocated.                                      *)
THEOREM ChannelsInBounds == Spec => []PointersInBounds
  <1>1. IInv /\ Contents => PointersInBounds
    <2> SUFFICES ASSUME IInv, Contents, NEW s \in Shares
                 PROVE  LET L    == info[s].filterLength
                            last == channelCount[s] - 1
                        IN  /\ raw[s] # Null =>
                                 rawStep[s] * last + L * SampleBytes <= gpu[raw[s]].size
                            /\ segments[s] # Null =>
                                 segmentStep[s] * last + SegmentBytes(L)
                                   <= gpu[segments[s]].size
      BY DEF PointersInBounds
    <2> DEFINE L == info[s].filterLength
               n == channelCount[s]
    <2>1. CASE raw[s] = Null /\ segments[s] = Null
      BY <2>1
    <2>2. CASE raw[s] # Null \/ segments[s] # Null
      <3>1. pc[s] # "none" /\ info[s] \in Requestable
        BY <2>2 DEF IInv, Phases, Handles
      <3>2. /\ L \in Nat \ {0} /\ n \in Nat \ {0} /\ n = ChannelsOf(info[s])
        BY <3>1, RequestableType DEF Contents, StepsOfShare
      <3>3. /\ RawStep(L) \in Nat /\ SegmentStep(L) \in Nat
            /\ RawStep(L) >= L * SampleBytes /\ SegmentStep(L) >= SegmentBytes(L)
        BY <3>2, SizesType, StepsHoldChannel
      <3>4. /\ raw[s] # Null => rawStep[s] = RawStep(L) /\ gpu[raw[s]].size = RawStep(L) * n
            /\ segments[s] # Null =>
                 /\ segmentStep[s] = SegmentStep(L)
                 /\ gpu[segments[s]].size = SegmentStep(L) * n
        <4>1. ASSUME raw[s] # Null
              PROVE  gpu[raw[s]] = [size |-> RawStep(L) * n, content |-> Samples(info[s])]
          BY <3>2, <4>1, HandlesOfEntry, Zenon DEF Contents, RawOfKey
        <4>2. ASSUME segments[s] # Null
              PROVE  gpu[segments[s]].size = SegmentStep(L) * n
          BY <3>2, <4>2, HandlesOfEntry, Zenon DEF Contents, SegmentsOfKey
        <4> QED
          BY <4>1, <4>2 DEF Contents, StepsOfShare
      <3>5. \A step \in Nat : step * (n - 1) + step = step * n
        BY <3>2, SMT
      <3>6. SegmentBytes(L) \in Int /\ L * SampleBytes \in Int
        <4>1. SegmentCount(L) \in Nat \ {0}
          <5>1. 0 \in 0 .. FftLength
            BY FftLengthAssumption, SMT
          <5> QED
            BY <3>2, <5>1, GeometryTypes
        <4> QED
          BY <3>2, <4>1, FftLengthAssumption, SMT DEF SegmentBytes, SpectrumBytes, SampleBytes
      <3>7. \A step \in Nat, bytes \in Int :
              bytes <= step => step * (n - 1) + bytes <= step * n
        BY <3>2, <3>5, SMT
      <3> HIDE DEF L, n
      <3> QED
        BY <3>3, <3>4, <3>6, <3>7 DEF L, n
    <2> QED
      BY <2>1, <2>2
  <1> QED
    BY <1>1, ContentsInvariance, PTL

(* Every processor convolves with its own impulse response. *)
THEOREM ConvolvesWithOwn == Spec => []OwnImpulseResponse
  <1>1. IInv /\ Contents => OwnImpulseResponse
    <2> SUFFICES ASSUME IInv, Contents, NEW s \in Shares, raw[s] # Null
                 PROVE  gpu[raw[s]].content = Samples(info[s])
      BY DEF OwnImpulseResponse, Contents, TranslatedOfShare, Spectrum
    <2>1. gpu[raw[s]] = [size |-> RawStep(info[s].filterLength) * ChannelsOf(info[s]),
                         content |-> Samples(info[s])]
      BY HandlesOfEntry, Zenon DEF Contents, RawOfKey
    <2> QED
      BY <2>1
  <1> QED
    BY <1>1, ContentsInvariance, PTL
=============================================================================
