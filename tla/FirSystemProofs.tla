---------------------------- MODULE FirSystemProofs ----------------------------
(***************************************************************************)
(* For any number of processors, any length of queue and any responses:    *)
(* the processors use the cache of responses as it expects to be used, and *)
(* every chunk on the GPU finds its own filter there.                      *)
(***************************************************************************)
EXTENDS FirSystem, StaticIRShareProofs

ChunkType == [raw : Blocks \cup {Null}, segments : Blocks \cup {Null},
              info : Requestable \cup {Unloaded}, translate : BOOLEAN]

SystemType ==
  /\ recompute \in [Shares -> BOOLEAN]
  /\ queue \in [Shares -> Seq(ChunkType)]

(* The chunks of a processor have its current response, and only the first *)
(* one translates it.                                                      *)
Queued ==
  \A s \in Shares : \A i \in DOMAIN queue[s] :
    /\ pc[s] = "ready"
    /\ queue[s][i].raw = raw[s] /\ queue[s][i].segments = segments[s]
    /\ queue[s][i].info = info[s]
    /\ queue[s][i].translate => i = 1

(* The request to translate is with the host, or with the first chunk, or  *)
(* done.                                                                   *)
Pending ==
  \A s \in Shares : pc[s] = "ready" =>
    /\ recompute[s] => Drained(s)
    /\ ~translated[s] <=> recompute[s] \/ (~Drained(s) /\ queue[s][1].translate)

SystemInv == SystemType /\ Queued /\ Pending

-----------------------------------------------------------------------------
(* A queue that is not empty has a first chunk.                            *)
LEMMA FirstChunk ==
  ASSUME SystemInv, NEW s \in Shares, ~Drained(s)
  PROVE  /\ 1 \in DOMAIN queue[s] /\ Head(queue[s]) = queue[s][1]
         /\ queue[s][1] \in ChunkType
         /\ pc[s] = "ready"
         /\ queue[s][1].raw = raw[s] /\ queue[s][1].segments = segments[s]
  <1>1. queue[s] \in Seq(ChunkType) /\ queue[s] # <<>>
    BY DEF SystemInv, SystemType, Drained
  <1>2. 1 \in DOMAIN queue[s] /\ Head(queue[s]) = queue[s][1] /\ queue[s][1] \in ChunkType
    BY <1>1
  <1> QED
    BY <1>2 DEF SystemInv, Queued

(* A step of the system is a step of one share, or none of the cache's     *)
(* business.                                                               *)
LEMMA StepImplements ==
  ASSUME SystemInv, NEW s \in Shares, ProcessorStep(s)
  PROVE  ShareStep(s) \/ UNCHANGED vars
  <1>1. CASE TranslateChunk(s)
    <2>1. ~Drained(s) /\ Head(queue[s]).translate
      BY <1>1 DEF TranslateChunk
    <2>2. /\ pc[s] = "ready" /\ ~translated[s]
          /\ Head(queue[s]).raw = raw[s] /\ Head(queue[s]).segments = segments[s]
      BY <2>1, FirstChunk DEF SystemInv, Pending
    <2> QED
      BY <1>1, <2>2 DEF TranslateChunk, TranslateFilter, ShareStep
  <1>2. CASE CreateProcessor(s) \/ CreationFailed(s) \/ DeleteProcessor(s)
    BY <1>2 DEF CreateProcessor, CreationFailed, DeleteProcessor, ShareStep
  <1>3. CASE ChangeFilter(s) \/ UpdateFilterCoefficients(s)
    BY <1>3 DEF ChangeFilter, UpdateFilterCoefficients, ShareStep
  <1>4. CASE PrepareChunk(s) \/ FinishChunk(s)
    BY <1>4 DEF PrepareChunk, FinishChunk
  <1> QED
    BY <1>1, <1>2, <1>3, <1>4 DEF ProcessorStep

(* Nobody else's steps touch a processor or its queue.                     *)
LEMMA OthersKept ==
  ASSUME IInv, SystemInv, NEW s \in Shares, ProcessorStep(s), NEW t \in Shares, t # s
  PROVE  /\ pc'[t] = pc[t] /\ translated'[t] = translated[t]
         /\ info'[t] = info[t] /\ raw'[t] = raw[t] /\ segments'[t] = segments[t]
         /\ recompute'[t] = recompute[t] /\ queue'[t] = queue[t]
  <1>1. /\ pc'[t] = pc[t] /\ translated'[t] = translated[t]
        /\ info'[t] = info[t] /\ raw'[t] = raw[t] /\ segments'[t] = segments[t]
    <2>1. CASE UNCHANGED vars
      BY <2>1 DEF vars, fields
    <2> QED
      BY <2>1, StepImplements, OthersUnchanged
  <1>2. recompute'[t] = recompute[t] /\ queue'[t] = queue[t]
    BY DEF ProcessorStep, CreateProcessor, CreationFailed, DeleteProcessor, ChangeFilter,
           UpdateFilterCoefficients, RecomputeSet, PrepareChunk, TranslateChunk, FinishChunk,
           SystemInv, SystemType
  <1> QED
    BY <1>1, <1>2

(* What has to be shown of the processor that steps.                       *)
Own(s) ==
  /\ recompute[s] \in BOOLEAN /\ queue[s] \in Seq(ChunkType)
  /\ \A i \in DOMAIN queue[s] :
       /\ pc[s] = "ready"
       /\ queue[s][i].raw = raw[s] /\ queue[s][i].segments = segments[s]
       /\ queue[s][i].info = info[s]
       /\ queue[s][i].translate => i = 1
  /\ pc[s] = "ready" =>
       /\ recompute[s] => Drained(s)
       /\ ~translated[s] <=> recompute[s] \/ (~Drained(s) /\ queue[s][1].translate)

(* Calls of the engine and the host's own steps meet an empty queue.       *)
LEMMA HostStep ==
  ASSUME IInv, SystemInv, NEW s \in Shares,
         \/ CreateProcessor(s) \/ CreationFailed(s) \/ DeleteProcessor(s)
         \/ ChangeFilter(s) \/ UpdateFilterCoefficients(s)
  PROVE  Own(s)'
  <1>0. /\ pc \in [Shares -> PcLabels] /\ translated \in [Shares -> BOOLEAN]
        /\ recompute \in [Shares -> BOOLEAN] /\ queue \in [Shares -> Seq(ChunkType)]
    BY DEF IInv, TypeOK, SystemInv, SystemType
  <1>1. pc[s] # "ready" => queue[s] = <<>>
    BY FirstChunk DEF Drained
  <1>2. queue[s] = <<>> /\ queue' = queue
    BY <1>1 DEF CreateProcessor, Construct, CreationFailed, DeleteProcessor, DeletesNow,
                ChangeFilter, UpdateFilterCoefficients, GetSegments, GetRawIR,
                OwnBufferFails, RawIRFails, SegmentsFail, Drained
  <1>3. recompute'[s] \in BOOLEAN
    BY <1>0 DEF CreateProcessor, CreationFailed, DeleteProcessor, ChangeFilter,
                UpdateFilterCoefficients, RecomputeSet
  <1>4. pc'[s] = "ready" => recompute'[s] /\ ~translated'[s]
    <2>1. CASE GetSegments(s) /\ recompute' = RecomputeSet(s)
      BY <1>0, <2>1 DEF GetSegments, RecomputeSet
    <2>2. ASSUME NEW label, pc' = [pc EXCEPT ![s] = label], label # "ready"
          PROVE  pc'[s] # "ready"
      BY <1>0, <2>2
    <2>3. CASE \E ctor \in CtorInfos : Construct(s, ctor)
      BY <2>2, <2>3 DEF Construct, Goto
    <2>4. CASE Destroy(s)
      BY <2>2, <2>4 DEF Destroy, Goto
    <2>5. CASE Reconnect(s) \/ \E index \in Choices : LoadImpulseResponse(s, index)
      BY <2>2, <2>5, Zenon DEF Reconnect, LoadImpulseResponse, Goto
    <2>6. CASE GetRawIR(s) \/ OwnBufferFails(s) \/ RawIRFails(s) \/ SegmentsFail(s)
      BY <2>2, <2>6, Zenon
         DEF GetRawIR, OwnBufferFails, RawIRFails, SegmentsFail, AllocationFails, Goto
    <2> QED
      BY <2>1, <2>3, <2>4, <2>5, <2>6 DEF CreateProcessor, CreationFailed, DeleteProcessor,
           ChangeFilter, UpdateFilterCoefficients
  <1> QED
    BY <1>0, <1>2, <1>3, <1>4 DEF Own, Drained

(* A chunk is appended with the request to translate, if there is one; ... *)
LEMMA PrepareStep ==
  ASSUME IInv, SystemInv, NEW s \in Shares, PrepareChunk(s)
  PROVE  Own(s)'
  <1> DEFINE q == queue[s]
  <1>1. /\ q \in Seq(ChunkType) /\ Chunk(s) \in ChunkType
        /\ queue'[s] = Append(q, Chunk(s)) /\ recompute'[s] = FALSE
        /\ UNCHANGED <<pc, raw, segments, info, translated>> /\ pc[s] = "ready"
    BY DEF PrepareChunk, Chunk, ChunkType, SystemInv, SystemType, IInv, TypeOK, vars, fields
  <1>2. /\ queue'[s] \in Seq(ChunkType) /\ queue'[s] # <<>>
        /\ DOMAIN queue'[s] = DOMAIN q \cup {Len(q) + 1}
        /\ \A i \in DOMAIN q : queue'[s][i] = q[i]
        /\ queue'[s][Len(q) + 1] = Chunk(s)
        /\ q = <<>> => Len(q) + 1 = 1
        /\ q # <<>> => 1 \in DOMAIN q
    BY <1>1
  <1>3. Chunk(s).raw = raw[s] /\ Chunk(s).segments = segments[s] /\ Chunk(s).info = info[s]
        /\ Chunk(s).translate = recompute[s]
    BY DEF Chunk
  <1>4. \A i \in DOMAIN q : q[i].raw = raw[s] /\ q[i].segments = segments[s]
                            /\ q[i].info = info[s] /\ (q[i].translate => i = 1)
    BY DEF SystemInv, Queued
  <1>5. /\ recompute[s] => q = <<>>
        /\ ~translated[s] <=> recompute[s] \/ (q # <<>> /\ q[1].translate)
    BY <1>1 DEF SystemInv, Pending, Drained
  <1> HIDE DEF q
  <1>6. \A i \in DOMAIN queue'[s] :
       /\ queue'[s][i].raw = raw[s] /\ queue'[s][i].segments = segments[s]
       /\ queue'[s][i].info = info[s]
       /\ queue'[s][i].translate => i = 1
    BY <1>2, <1>3, <1>4, <1>5
  <1>7. ~translated[s] <=> queue'[s][1].translate
    BY <1>2, <1>3, <1>5
  <1> QED
    BY <1>1, <1>2, <1>6, <1>7 DEF Own, Drained

(* ... runs, ...                                                           *)
LEMMA TranslateStep ==
  ASSUME IInv, SystemInv, NEW s \in Shares, TranslateChunk(s)
  PROVE  Own(s)'
  <1> DEFINE q == queue[s]
             d == [q[1] EXCEPT !.translate = FALSE]
  <1>1. /\ q \in Seq(ChunkType) /\ 1 \in DOMAIN q /\ q[1] \in ChunkType
        /\ pc[s] = "ready" /\ q[1].translate
    BY FirstChunk DEF TranslateChunk, SystemInv, SystemType
  <1>2. ~recompute[s]
    BY <1>1 DEF SystemInv, Pending, Drained
  <1>3. /\ queue'[s] = [q EXCEPT ![1] = d]
        /\ recompute' = recompute /\ translated'[s] = TRUE
        /\ UNCHANGED <<pc, raw, segments, info>>
    BY <1>1 DEF TranslateChunk, SystemInv, SystemType, IInv, TypeOK, fields
  <1>4. /\ d \in ChunkType /\ d.translate = FALSE
        /\ d.raw = q[1].raw /\ d.segments = q[1].segments /\ d.info = q[1].info
    BY <1>1 DEF ChunkType
  <1>5. \A i \in DOMAIN q : q[i].raw = raw[s] /\ q[i].segments = segments[s]
                            /\ q[i].info = info[s] /\ (q[i].translate => i = 1)
    BY DEF SystemInv, Queued
  <1> HIDE DEF d, q
  <1>6. /\ queue'[s] \in Seq(ChunkType) /\ DOMAIN queue'[s] = DOMAIN q
        /\ queue'[s][1] = d /\ \A i \in DOMAIN q : i # 1 => queue'[s][i] = q[i]
    BY <1>1, <1>3, <1>4
  <1>7. \A i \in DOMAIN queue'[s] :
       /\ queue'[s][i].raw = raw[s] /\ queue'[s][i].segments = segments[s]
       /\ queue'[s][i].info = info[s]
       /\ queue'[s][i].translate => i = 1
    BY <1>1, <1>4, <1>5, <1>6
  <1>8. recompute'[s] = FALSE /\ translated'[s] = TRUE /\ ~queue'[s][1].translate
    BY <1>2, <1>3, <1>4, <1>6 DEF SystemInv, SystemType
  <1> QED
    BY <1>1, <1>3, <1>6, <1>7, <1>8 DEF Own, Drained

(* ... and leaves the queue, whose next chunk translates nothing.          *)
LEMMA FinishStep ==
  ASSUME IInv, SystemInv, NEW s \in Shares, FinishChunk(s)
  PROVE  Own(s)'
  <1> DEFINE q == queue[s]
  <1>1. /\ q \in Seq(ChunkType) /\ 1 \in DOMAIN q /\ q # <<>>
        /\ pc[s] = "ready" /\ ~q[1].translate
    BY FirstChunk DEF FinishChunk, SystemInv, SystemType, Drained
  <1>2. ~recompute[s] /\ translated[s]
    BY <1>1 DEF SystemInv, Pending, Drained, IInv, TypeOK
  <1>3. /\ queue'[s] = Tail(q)
        /\ recompute' = recompute /\ UNCHANGED <<pc, raw, segments, info, translated>>
    BY DEF FinishChunk, SystemInv, SystemType, vars, fields
  <1>4. \A i \in DOMAIN q : q[i].raw = raw[s] /\ q[i].segments = segments[s]
                            /\ q[i].info = info[s] /\ (q[i].translate => i = 1)
    BY DEF SystemInv, Queued
  <1> HIDE DEF q
  <1>5. /\ queue'[s] \in Seq(ChunkType)
        /\ \A i \in DOMAIN queue'[s] :
             i + 1 \in DOMAIN q /\ queue'[s][i] = q[i + 1] /\ i \in Nat \ {0}
    BY <1>1, <1>3
  <1>6. \A i \in DOMAIN queue'[s] :
       /\ queue'[s][i].raw = raw[s] /\ queue'[s][i].segments = segments[s]
       /\ queue'[s][i].info = info[s]
       /\ ~queue'[s][i].translate
    BY <1>4, <1>5
  <1>7. queue'[s] # <<>> => 1 \in DOMAIN queue'[s]
    BY <1>5
  <1> QED
    BY <1>1, <1>2, <1>3, <1>5, <1>6, <1>7 DEF Own, Drained, SystemInv, SystemType

(* The invariant is inductive.                                             *)
LEMMA SystemInvStep == IInv /\ SystemInv /\ [SystemNext]_systemVars => SystemInv'
  <1> SUFFICES ASSUME IInv, SystemInv, [SystemNext]_systemVars PROVE SystemInv'
    OBVIOUS
  <1>1. ASSUME NEW s \in Shares, ProcessorStep(s) PROVE SystemInv'
    <2>1. Own(s)'
      BY <1>1, HostStep, PrepareStep, TranslateStep, FinishStep DEF ProcessorStep
    <2>2. /\ recompute' \in [Shares -> BOOLEAN]
          /\ DOMAIN queue' = Shares /\ queue' = [t \in Shares |-> queue'[t]]
      BY <1>1 DEF ProcessorStep, CreateProcessor, CreationFailed, DeleteProcessor,
           ChangeFilter, UpdateFilterCoefficients, RecomputeSet, PrepareChunk, TranslateChunk,
           FinishChunk, SystemInv, SystemType
    <2>3. ASSUME NEW t \in Shares PROVE Own(t)'
      <3>1. CASE t # s
        BY <1>1, <3>1, OthersKept DEF Own, SystemInv, SystemType, Queued, Pending, Drained
      <3> QED
        BY <2>1, <3>1
    <2> QED
      BY <2>2, <2>3 DEF Own, SystemInv, SystemType, Queued, Pending, Drained
  <1>2. CASE UNCHANGED systemVars
    BY <1>2 DEF systemVars, vars, fields, SystemInv, SystemType, Queued, Pending, Drained
  <1> QED
    BY <1>1, <1>2 DEF SystemNext

(* Every reachable state satisfies the invariants of the cache and of the  *)
(* queues.                                                                 *)
THEOREM SystemInvariance == SystemSpec => [](IInv /\ SystemInv)
  <1>1. SystemInit => IInv /\ SystemInv
    BY InitIInv DEF SystemInit, Init, SystemInv, SystemType, Queued, Pending, Drained
  <1>2. IInv /\ SystemInv /\ [SystemNext]_systemVars => IInv' /\ SystemInv'
    <2>1. SystemInv /\ [SystemNext]_systemVars => [Next]_vars
      BY StepImplements DEF SystemNext, Next, systemVars
    <2> QED
      BY <2>1, IInvStep, SystemInvStep
  <1> QED
    BY <1>1, <1>2, PTL DEF SystemSpec

(* The processors, the engine's queues and the GPU together use the cache  *)
(* only as StaticIRShare lets them.                                        *)
THEOREM SystemRefinement == SystemSpec => UsesCacheAsSpecified
  <1>1. SystemInit => Init
    BY DEF SystemInit
  <1>2. SystemInv /\ [SystemNext]_systemVars => [Next]_vars
    BY StepImplements DEF SystemNext, Next, systemVars
  <1> QED
    BY <1>1, <1>2, SystemInvariance, PTL DEF SystemSpec, UsesCacheAsSpecified, Spec

(* No processor frees, reallocates or overwrites what a chunk of another   *)
(* one was prepared with.                                                  *)
THEOREM ChunksKeepTheirFilter == SystemSpec => []ChunksFindTheirFilter
  <1>1. IInv /\ Contents /\ SystemInv => ChunksFindTheirFilter
    <2> SUFFICES ASSUME IInv, Contents, SystemInv, NEW s \in Shares, NEW i \in DOMAIN queue[s]
                 PROVE  /\ {queue[s][i].raw, queue[s][i].segments} \subseteq DOMAIN gpu
                        /\ gpu[queue[s][i].raw].content = Samples(queue[s][i].info)
      BY DEF ChunksFindTheirFilter
    <2>1. /\ pc[s] = "ready"
          /\ queue[s][i].raw = raw[s] /\ queue[s][i].segments = segments[s]
          /\ queue[s][i].info = info[s]
      BY DEF SystemInv, Queued
    <2>2. raw[s] # Null /\ segments[s] # Null
      BY <2>1 DEF IInv, Phases
    <2>3. gpu[raw[s]] = [size |-> RawStep(info[s].filterLength) * ChannelsOf(info[s]),
                         content |-> Samples(info[s])]
      BY <2>2, HandlesOfEntry, Zenon DEF Contents, RawOfKey
    <2>4. gpu[raw[s]].content = Samples(info[s])
      BY <2>3
    <2> QED
      BY <2>1, <2>2, <2>4, HandlesOfEntry
  <1>2. SystemSpec => [](IInv /\ Contents)
    BY SystemRefinement, ContentsInvariance, PTL DEF UsesCacheAsSpecified
  <1> QED
    BY <1>1, <1>2, SystemInvariance, PTL

(* A chunk never convolves with memory its filter was not translated into. *)
THEOREM ChunksGetTheirSpectrum == SystemSpec => []ChunksFindTheirSpectrum
  <1>1. IInv /\ Contents /\ SystemInv => ChunksFindTheirSpectrum
    <2> SUFFICES ASSUME IInv, Contents, SystemInv, NEW s \in Shares,
                        ~Drained(s), ~Head(queue[s]).translate
                 PROVE  gpu[Head(queue[s]).segments].content = Spectrum(Head(queue[s]).info)
      BY DEF ChunksFindTheirSpectrum, Spectrum
    <2>1. /\ pc[s] = "ready" /\ Head(queue[s]) = queue[s][1]
          /\ queue[s][1].segments = segments[s] /\ queue[s][1].info = info[s]
      BY FirstChunk DEF SystemInv, Queued
    <2>2. translated[s]
      BY <2>1 DEF SystemInv, Pending, IInv, TypeOK
    <2> QED
      BY <2>1, <2>2 DEF Contents, TranslatedOfShare
  <1>2. SystemSpec => [](IInv /\ Contents)
    BY SystemRefinement, ContentsInvariance, PTL DEF UsesCacheAsSpecified
  <1> QED
    BY <1>1, <1>2, SystemInvariance, PTL
=============================================================================
