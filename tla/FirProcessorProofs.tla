-------------------------- MODULE FirProcessorProofs --------------------------
(* The host's promises to the device hold for every set of ports, filters, *)
(* messages and lengths of transform.                                      *)
EXTENDS FirProcessor, FirGeometryProofs

(* Every response a user can ask for has a key and a length.               *)
LEMMA RequestedType ==
  ASSUME NEW m \in Choices \cup LastChoices
  PROVE  Requested(m) \in Key /\ Requested(m).filterLength \in Nat \ {0}
<1> m \in Int
  BY ProcessorAssumption
<1>1. CASE m < 0
  <2>1. -m \in Nat \ {0} /\ (-m) \div 2 \in Int /\ NoIndex \in Int
    BY <1>1, SMT DEF NoIndex
  <2> QED
    BY <1>1, <2>1 DEF Requested, Info, Key
<1>2. CASE ~(m < 0)
  <2>1. m \in DOMAIN StoreLength
    <3>1. m \in Nat
      BY <1>2, SMT
    <3> QED
      BY <3>1, ProcessorAssumption
  <2>2. StoreLength[m] \in Nat \ {0}
    BY <2>1, StoreAssumption
  <2>3. StoreLength[m] \in Int /\ -1 \in Int
    BY <2>2, SMT
  <2> QED
    BY <1>2, <2>2, <2>3 DEF Requested, Info, Key
<1> QED
  BY <1>1, <1>2

-----------------------------------------------------------------------------
(* The inductive invariant                                                 *)

(* What the fields of UpdateFilterCoefficients are for.                    *)
Current == coefficients = CoefficientsFor(info.filterLength, outputPort)

(* The buffers never shrink, so they hold what the filter needs now.       *)
Sized ==
  /\ InputSegmentsBytes(info.filterLength, outputPort.channels) <= buffers.inputSegments
  /\ OverlapBytes(info.filterLength, outputPort.channels) <= buffers.overlap

(* Unless the next chunk translates the filter, the last translation was   *)
(* for what the next chunk will run with.                                  *)
Silenced == recomputeFilter \/ translated = Setup

BlueprintOf(p) ==
  [numCalls |-> NumCalls(p.capacity, GrainFor(p.capacity)), blockCount |-> p.channels]

(* The blueprint is that of the port, and the engine has it unless a       *)
(* rebuild is due.                                                         *)
Blueprints ==
  /\ Supported(inputPort) => blueprintData = BlueprintOf(inputPort)
  /\ phase = "ready" => ~changed
  /\ ~changed => blueprint = blueprintData

Host  == TypeOK /\ Current /\ Sized /\ Silenced /\ OutputMirrorsInput /\ Blueprints
Chunk == LaunchAsDeviceExpects /\ ReinitBeforeUse /\ BuffersFit
IInv  == Host /\ Chunk

CoefficientsType ==
  [grain : 0 .. FftLength, channels : 1 .. MaxChannels,
   firSamples : 1 .. FftLength, inputSize : Nat \ {0},
   segments : Nat \ {0}, overlap : 1 .. 2 * FftLength]

(* Coefficients are in range for every filter and every buffer.            *)
LEMMA CoefficientsTyped ==
  ASSUME NEW L \in Nat \ {0}, NEW out, out.channels \in 1 .. MaxChannels, out.capacity \in Nat
  PROVE  CoefficientsFor(L, out) \in CoefficientsType
<1> DEFINE grain == GrainFor(out.capacity)
<1>1. grain \in 0 .. FftLength
  BY FftLengthAssumption, SMT DEF GrainFor, AtMost
<1>2. /\ FirSamplesPerSegment(L) \in 1 .. FftLength
      /\ InputSizePerIteration(L, grain) \in FftLength .. 2 * FftLength - 1
      /\ SegmentCount(L) \in Nat \ {0}
      /\ OverlapLength(L) \in 1 .. 2 * FftLength
  BY <1>1, GeometryTypes
<1>3. InputSizePerIteration(L, grain) \in Nat \ {0}
  BY <1>2, FftLengthAssumption, SMT
<1> QED
  BY <1>1, <1>2, <1>3 DEF CoefficientsFor, CoefficientsType

(* The sizes of the buffers are numbers.                                   *)
LEMMA BytesType ==
  ASSUME NEW L \in Nat \ {0}, NEW channels \in Nat
  PROVE  InputSegmentsBytes(L, channels) \in Nat /\ OverlapBytes(L, channels) \in Nat
<1>1. SegmentCount(L) \in Nat /\ OverlapLength(L) \in Nat /\ FftLength \in Nat
  BY GeometryTypes, FftLengthAssumption, SMT
<1> QED
  BY <1>1, SMT DEF InputSegmentsBytes, OverlapBytes, SpectrumBytes, SampleBytes

(* UpdateFilterCoefficients brings all fields up to date, forced whenever  *)
(* the filter is another one, and lets the next chunk translate the filter *)
(* unless nothing changed.                                                 *)
LEMMA Updated ==
  ASSUME TypeOK, NEW L \in Nat \ {0}, NEW out, NEW force \in BOOLEAN,
         out.channels \in 1 .. MaxChannels, out.capacity \in Nat,
         UpdateFilterCoefficients(L, out, force),
         force \/ (L = info.filterLength /\ Current /\ Sized)
  PROVE  /\ coefficients' = CoefficientsFor(L, out)
         /\ coefficients' \in CoefficientsType
         /\ buffers' \in [inputSegments : Nat, overlap : Nat]
         /\ InputSegmentsBytes(L, out.channels) <= buffers'.inputSegments
         /\ OverlapBytes(L, out.channels) <= buffers'.overlap
         /\ \/ recomputeFilter' = TRUE
            \/ ~force /\ UNCHANGED <<coefficients, buffers, recomputeFilter>>
<1>1. CoefficientsFor(L, out) \in CoefficientsType
  BY CoefficientsTyped
<1>2. CASE Outdated(out, force)
  <2>1. /\ coefficients' = CoefficientsFor(L, out)
        /\ buffers' = Grown(buffers, L, out.channels)
        /\ recomputeFilter' = TRUE
    BY <1>2 DEF UpdateFilterCoefficients, RecomputeAfter
  <2>2. /\ InputSegmentsBytes(L, out.channels) \in Nat
        /\ OverlapBytes(L, out.channels) \in Nat
    <3>1. out.channels \in Nat
      BY ProcessorAssumption, SMT
    <3> QED
      BY <3>1, BytesType
  <2>3. buffers.inputSegments \in Nat /\ buffers.overlap \in Nat
    BY DEF TypeOK
  <2>4. /\ buffers'.inputSegments
             = AtLeast(buffers.inputSegments, InputSegmentsBytes(L, out.channels))
        /\ buffers'.overlap = AtLeast(buffers.overlap, OverlapBytes(L, out.channels))
    BY <2>1, Zenon DEF Grown
  <2>5. /\ buffers'.inputSegments \in Nat /\ buffers'.overlap \in Nat
        /\ InputSegmentsBytes(L, out.channels) <= buffers'.inputSegments
        /\ OverlapBytes(L, out.channels) <= buffers'.overlap
    BY <2>2, <2>3, <2>4, SMT DEF AtLeast
  <2>6. buffers' \in [inputSegments : Nat, overlap : Nat]
    BY <2>1, <2>5 DEF Grown
  <2> QED
    BY <1>1, <2>1, <2>5, <2>6
<1>3. CASE ~Outdated(out, force)
  <2>1. UNCHANGED <<coefficients, buffers, recomputeFilter>> /\ ~force
    BY <1>3 DEF UpdateFilterCoefficients, Outdated
  <2>2. /\ coefficients.grain = GrainFor(out.capacity)
        /\ coefficients.channels = out.channels
    BY <1>3 DEF Outdated
  <2>3. out.channels = outputPort.channels /\ GrainFor(out.capacity) = GrainFor(outputPort.capacity)
    BY <2>1, <2>2 DEF Current, CoefficientsFor
  <2>4. coefficients' = CoefficientsFor(L, out)
    BY <2>1, <2>3 DEF Current, CoefficientsFor
  <2> QED
    BY <1>1, <2>1, <2>3, <2>4 DEF Sized, TypeOK
<1> QED
  BY <1>2, <1>3

-----------------------------------------------------------------------------
(* Calls that change the filter or the port                                *)

(* SetData keeps the fields in step with the filter it loads.              *)
LEMMA SetDataStep ==
  ASSUME Host, NEW m \in Choices \cup {Nothing}, SetDataEffect(m),
         UNCHANGED <<port, translated>>
  PROVE  /\ info' \in Key /\ info'.filterLength > 0
         /\ oldChoice' \in Int /\ requested' \in Int /\ recomputeFilter' \in BOOLEAN
         /\ coefficients' \in CoefficientsType
         /\ buffers' \in [inputSegments : Nat, overlap : Nat]
         /\ Current' /\ Sized' /\ Silenced'
<1>1. requested' \in Int
  BY ProcessorAssumption DEF SetDataEffect, Host, TypeOK
<1>2. CASE m = Nothing \/ m = oldChoice
  <2>1. UNCHANGED <<filter, port, translated>>
    BY <1>2 DEF SetDataEffect
  <2> QED
    BY <1>1, <2>1 DEF Host, TypeOK, CoefficientsType, Current, Sized, Silenced, Setup,
                      filter, port
<1>3. CASE ~(m = Nothing \/ m = oldChoice)
  <2>1. /\ info' = AfterLoad(info, m)
        /\ UpdateFilterCoefficients(info'.filterLength, outputPort, TRUE)
        /\ oldChoice' = m
    BY <1>3 DEF SetDataEffect, NextOldChoice
  <2>2. Requested(m) \in Key /\ Requested(m).filterLength \in Nat \ {0}
    BY <1>3, RequestedType
  <2>3. info \in Key /\ info.filterLength \in Nat \ {0}
    BY SMT DEF Host, TypeOK, Key
  <2>4. info' \in Key /\ info'.filterLength \in Nat \ {0}
    BY <2>1, <2>2, <2>3 DEF AfterLoad
  <2>5. TypeOK /\ outputPort.channels \in 1 .. MaxChannels /\ outputPort.capacity \in Nat
    BY DEF Host, TypeOK
  <2>6. /\ coefficients' = CoefficientsFor(info'.filterLength, outputPort)
        /\ coefficients' \in CoefficientsType
        /\ buffers' \in [inputSegments : Nat, overlap : Nat]
        /\ InputSegmentsBytes(info'.filterLength, outputPort.channels)
             <= buffers'.inputSegments
        /\ OverlapBytes(info'.filterLength, outputPort.channels) <= buffers'.overlap
        /\ recomputeFilter' = TRUE
    BY <2>1, <2>4, <2>5, Updated
  <2>7. outputPort' = outputPort /\ oldChoice' \in Int
    BY <1>3, <2>1, ProcessorAssumption DEF port
  <2>8. info'.filterLength > 0
    BY <2>4, SMT
  <2> QED
    BY <1>1, <2>4, <2>6, <2>7, <2>8 DEF Current, Sized, Silenced
<1> QED
  BY <1>2, <1>3

(* A supported port is adopted as a whole, and the engine learns of a      *)
(* blueprint that is no longer the one it has.                             *)
LEMMA AdoptStep ==
  ASSUME Host, NEW p \in Ports, Supported(p), NEW asked \in BOOLEAN, AdoptPort(p, asked),
         inputPort' = p, UNCHANGED <<translated, blueprint, requested, phase>>,
         phase = "ready" =>
           /\ ~asked /\ Supported(inputPort)
           /\ p.capacity = inputPort.capacity /\ p.channels = inputPort.channels
  PROVE  Host'
<1>1. /\ UpdateFilterCoefficients(info.filterLength, p, FALSE)
      /\ outputPort' = OutputFor(p)
      /\ blueprintData' = BlueprintDataFor(p)
      /\ changed' = ChangedAfter(asked)
      /\ info' = info /\ oldChoice' = oldChoice
  BY DEF AdoptPort
<1>2. /\ p.channels \in 1 .. MaxChannels /\ p.capacity \in Nat \ {0} /\ p.size \in Nat
      /\ p.channels \in Nat \ {0}
  <2>1. p.channels \in Nat \ {0} /\ p.channels <= MaxChannels
    BY ProcessorAssumption DEF Supported
  <2>2. p.capacity \in Nat \ {0} /\ p.size \in Nat
    BY ProcessorAssumption
  <2> QED
    BY <2>1, <2>2, ProcessorAssumption, SMT
<1>3. TypeOK /\ Current /\ Sized /\ Silenced /\ Blueprints
  BY DEF Host
<1>4. info.filterLength \in Nat \ {0}
  BY <1>3, SMT DEF TypeOK, Key
<1>5. /\ coefficients' = CoefficientsFor(info.filterLength, p)
      /\ coefficients' \in CoefficientsType
      /\ buffers' \in [inputSegments : Nat, overlap : Nat]
      /\ InputSegmentsBytes(info.filterLength, p.channels) <= buffers'.inputSegments
      /\ OverlapBytes(info.filterLength, p.channels) <= buffers'.overlap
      /\ \/ recomputeFilter' = TRUE
         \/ UNCHANGED <<coefficients, buffers, recomputeFilter>>
  BY <1>1, <1>2, <1>3, <1>4, Updated
<1>6. coefficients'.grain = GrainFor(p.capacity) /\ coefficients'.channels = p.channels
  BY <1>5 DEF CoefficientsFor
<1>7. outputPort' = [channels |-> p.channels, capacity |-> p.capacity, size |-> p.size,
                     grain |-> GrainFor(p.capacity), isProduced |-> TRUE]
  BY <1>1, <1>6 DEF OutputFor
<1>8. GrainFor(p.capacity) \in 1 .. FftLength
  BY <1>2, FftLengthAssumption, SMT DEF GrainFor, AtMost
<1>9. blueprintData' = BlueprintOf(p)
  BY <1>1, <1>6 DEF BlueprintDataFor, BlueprintOf
<1>10. NumCalls(p.capacity, GrainFor(p.capacity)) \in Nat \ {0}
  <2>1. GrainFor(p.capacity) \in Nat \ {0}
    BY <1>8, FftLengthAssumption, SMT
  <2> QED
    BY <1>2, <2>1, DivUpCovers DEF NumCalls
<1>11. TypeOK'
  <2>1. outputPort' \in [channels : 1 .. MaxChannels, capacity : Nat, size : Nat,
                         grain : 0 .. FftLength, isProduced : BOOLEAN]
    <3>1. GrainFor(p.capacity) \in 0 .. FftLength /\ p.capacity \in Nat
      BY <1>2, <1>8, FftLengthAssumption, SMT
    <3> QED
      BY <1>2, <1>7, <3>1
  <2>2. blueprintData' \in [numCalls : Nat \ {0}, blockCount : 1 .. MaxChannels]
    BY <1>2, <1>9, <1>10 DEF BlueprintOf
  <2>3. changed' \in BOOLEAN /\ recomputeFilter' \in BOOLEAN
    BY <1>1, <1>3, <1>5 DEF ChangedAfter, TypeOK
  <2> QED
    BY <1>1, <1>3, <1>5, <2>1, <2>2, <2>3 DEF TypeOK, CoefficientsType
<1>12. Current' /\ Sized'
  BY <1>1, <1>5, <1>7 DEF Current, CoefficientsFor, Sized
<1>13. Silenced'
  BY <1>1, <1>3, <1>5 DEF Silenced, Setup
<1>14. OutputMirrorsInput'
  BY <1>7 DEF OutputMirrorsInput, Supported
<1>15. Blueprints'
  <2>1. changed' <=> (changed \/ asked \/ blueprintData' # blueprintData)
    BY <1>1, <1>3 DEF ChangedAfter, TypeOK
  <2>2. phase = "ready" => blueprintData' = blueprintData
    BY <1>3, <1>9 DEF Blueprints, BlueprintOf
  <2> QED
    BY <1>3, <1>9, <2>1, <2>2 DEF Blueprints
<1> QED
  BY <1>11, <1>12, <1>13, <1>14, <1>15 DEF Host

(* Without a usable input the output port is silent but keeps its size,    *)
(* and the filter its fields.                                              *)
LEMMA DisconnectStep ==
  ASSUME Host, DisconnectEffect, inputPort' \in Ports \cup {Nothing}, ~Supported(inputPort'),
         UNCHANGED <<translated, blueprint, requested, phase>>
  PROVE  Host'
<1>1. /\ outputPort' = [channels |-> outputPort.channels, capacity |-> outputPort.capacity,
                        size |-> 0, grain |-> coefficients.grain, isProduced |-> FALSE]
      /\ UNCHANGED <<info, oldChoice, recomputeFilter, coefficients, buffers>>
      /\ UNCHANGED <<changed, blueprintData>>
  BY DEF DisconnectEffect, filter
<1>2. TypeOK'
  <2>1. coefficients.grain \in 0 .. FftLength /\ outputPort.channels \in 1 .. MaxChannels
        /\ outputPort.capacity \in Nat
    BY DEF Host, TypeOK
  <2>2. outputPort' \in [channels : 1 .. MaxChannels, capacity : Nat, size : Nat,
                         grain : 0 .. FftLength, isProduced : BOOLEAN]
    BY <1>1, <2>1
  <2> QED
    BY <1>1, <2>2 DEF Host, TypeOK
<1>3. Current' /\ Sized' /\ Silenced'
  BY <1>1 DEF Host, Current, CoefficientsFor, Sized, Silenced, Setup
<1>4. OutputMirrorsInput'
  BY <1>1 DEF OutputMirrorsInput
<1>5. Blueprints'
  BY <1>1 DEF Host, Blueprints
<1> QED
  BY <1>2, <1>3, <1>4, <1>5 DEF Host

(* Flags tell the truth: without a relevant one nothing of the port has    *)
(* changed, and a change of its samples alone asks for no rebuild.         *)
LEMMA FlagsTell ==
  ASSUME NEW p \in Ports, NEW q \in Ports, NEW flags \in FlagsOfChange(p, q)
  PROVE  /\ Relevant(flags) = {} => p = q
         /\ p.capacity = q.capacity /\ p.channels = q.channels
              => flags \cap RebuildFlags = {}
<1> DEFINE different == {FlagOf(a) : a \in {a \in DOMAIN p : p[a] # q[a]}}
<1>1. /\ p \in [regular32 : BOOLEAN, channels : Nat \ {0}, capacity : Nat \ {0}, size : Nat]
      /\ q \in [regular32 : BOOLEAN, channels : Nat \ {0}, capacity : Nat \ {0}, size : Nat]
  BY ProcessorAssumption
<1>2. DOMAIN p = {"regular32", "channels", "capacity", "size"}
  BY <1>1
<1>3. flags = {"eReset"} \/ flags = different \/ flags = different \cup IgnoredFlags
  BY DEF FlagsOfChange
<1>4. /\ p.regular32 # q.regular32 => "eTypeChanged" \in different
      /\ p.channels # q.channels => "eChannelCountChanged" \in different
      /\ p.capacity # q.capacity => "eCapacityChanged" \in different
      /\ p.size # q.size => "eSizeChanged" \in different
  BY <1>2 DEF FlagOf
<1>5. /\ "eChannelCountChanged" \in different => p.channels # q.channels
      /\ "eCapacityChanged" \in different => p.capacity # q.capacity
  BY <1>2 DEF FlagOf
<1> HIDE DEF different
<1>6. ASSUME Relevant(flags) = {} PROVE p = q
  <2>1. /\ p.regular32 = q.regular32 /\ p.channels = q.channels
        /\ p.capacity = q.capacity /\ p.size = q.size
    BY <1>3, <1>4, <1>6 DEF Relevant, IgnoredFlags
  <2> QED
    BY <1>1, <2>1
<1>7. ASSUME p.capacity = q.capacity, p.channels = q.channels
      PROVE  flags \cap RebuildFlags = {}
  BY <1>3, <1>5, <1>7 DEF RebuildFlags, IgnoredFlags
<1> QED
  BY <1>6, <1>7

-----------------------------------------------------------------------------
(* Chunks                                                                  *)

(* Where a call of init may begin lies inside an iteration.                *)
LEMMA OffsetInIteration ==
  ASSUME NEW L \in Nat \ {0}, NEW grain \in 1 .. FftLength,
         NEW offset \in InitOffsets(L, grain, Rands) \cup {0}
  PROVE  offset < InputSizePerIteration(L, grain)
<1>1. InputSizePerIteration(L, grain) \in Nat \ {0}
  <2>1. grain \in 0 .. FftLength
    BY FftLengthAssumption, SMT
  <2>2. InputSizePerIteration(L, grain) \in FftLength .. 2 * FftLength - 1
    BY <2>1, GeometryTypes
  <2> QED
    BY <2>2, FftLengthAssumption, SMT
<1>2. CASE offset = 0
  BY <1>1, <1>2, SMT
<1>3. CASE offset # 0
  <2>1. offset \in {(grain * r) % InputSizePerIteration(L, grain) : r \in Rands}
    BY <1>3 DEF InitOffsets
  <2>2. PICK r \in Rands : offset = (grain * r) % InputSizePerIteration(L, grain)
    BY <2>1
  <2>3. r \in Nat /\ grain \in Nat
    BY ProcessorAssumption, FftLengthAssumption, SMT
  <2>4. grain * r \in Nat
    BY <2>3, SMT
  <2> QED
    BY <1>1, <2>2, <2>4, SMT
<1> QED
  BY <1>2, <1>3

(* A chunk that is prepared from fields in step with the port is what the  *)
(* device expects.                                                         *)
LEMMA PrepareChunkStep ==
  ASSUME Host, PrepareChunk
  PROVE  IInv'
<1>1. PICK offset \in OffsetsNow :
        chunk' = [parameters |-> Parameters(offset),
                  responses  |-> coefficients.channels,
                  blocks     |-> blueprint.blockCount,
                  port       |-> inputPort,
                  setup      |-> Setup]
  BY DEF PrepareChunk
<1>2. /\ phase = "ready" /\ Supported(inputPort)
      /\ translated' = IF recomputeFilter THEN Setup ELSE translated
      /\ recomputeFilter' = FALSE
      /\ UNCHANGED <<info, oldChoice, coefficients, buffers, changed, port, engine>>
  BY DEF PrepareChunk
<1>3. TypeOK /\ Current /\ Sized /\ Silenced /\ OutputMirrorsInput /\ Blueprints
  BY DEF Host
<1>4. translated' = Setup
  BY <1>2, <1>3 DEF Silenced
<1>5. Host'
  <2>1. TypeOK'
    BY <1>2, <1>3 DEF TypeOK, port, engine
  <2>2. Current' /\ Sized' /\ OutputMirrorsInput' /\ Blueprints'
    BY <1>2, <1>3 DEF Current, CoefficientsFor, Sized, OutputMirrorsInput, Blueprints, port, engine
  <2>3. Silenced'
    BY <1>2, <1>4 DEF Silenced, Setup
  <2> QED
    BY <2>1, <2>2, <2>3 DEF Host
<1>6. chunk'.setup = Setup /\ chunk'.parameters = Parameters(offset)
      /\ chunk'.port = inputPort /\ chunk'.responses = coefficients.channels
      /\ chunk'.blocks = blueprint.blockCount
  BY <1>1
<1>7. ReinitBeforeUse'
  BY <1>4, <1>6 DEF ReinitBeforeUse
<1> DEFINE L == info.filterLength
           grain == GrainFor(inputPort.capacity)
<1>8. blueprint = BlueprintOf(inputPort)
  BY <1>2, <1>3 DEF Blueprints
<1>9. /\ outputPort.channels = inputPort.channels
      /\ outputPort.capacity = inputPort.capacity
      /\ outputPort.size = inputPort.size
  BY <1>2, <1>3 DEF OutputMirrorsInput
<1>10. /\ coefficients.grain = grain
       /\ coefficients.channels = inputPort.channels
       /\ coefficients.firSamples = FirSamplesPerSegment(L)
       /\ coefficients.inputSize = InputSizePerIteration(L, grain)
       /\ coefficients.segments = SegmentCount(L)
       /\ coefficients.overlap = OverlapLength(L)
  BY <1>3, <1>9 DEF Current, CoefficientsFor
<1>11. chunk'.blocks = inputPort.channels /\ chunk'.responses = inputPort.channels
  BY <1>6, <1>8, <1>10 DEF BlueprintOf
<1>12. L \in Nat \ {0}
  BY <1>3, SMT DEF TypeOK, Key
<1>13. LaunchAsDeviceExpects'
  <2> DEFINE expected == LaunchParameters(L, inputPort.capacity, inputPort.size)
  <2>1. \A field \in DOMAIN expected
             \ {"filter_length_to_translate_init", "init_buffer_offset"} :
          Parameters(offset)[field] = expected[field]
    BY <1>8, <1>9, <1>10 DEF Parameters, LaunchParameters, BlueprintOf
  <2>2. Parameters(offset).filter_length_to_translate_init \in {0, L}
    BY DEF Parameters
  <2>3. Parameters(offset).init_buffer_offset < Parameters(offset).input_samples_per_iteration
    <3>1. offset \in InitOffsets(L, grain, Rands) \cup {0}
      BY <1>10 DEF OffsetsNow
    <3>2. grain \in 1 .. FftLength
      <4>1. inputPort.capacity \in Nat \ {0}
        BY <1>2, <1>3, ProcessorAssumption DEF TypeOK, Supported
      <4> QED
        BY <4>1, FftLengthAssumption, SMT DEF GrainFor, AtMost
    <3>3. offset < InputSizePerIteration(L, grain)
      BY <1>12, <3>1, <3>2, OffsetInIteration
    <3> QED
      BY <1>10, <3>3 DEF Parameters
  <2>4. chunk'.setup.response.filterLength = L
    BY <1>6 DEF Setup
  <2> QED
    BY <1>6, <1>11, <2>1, <2>2, <2>3, <2>4 DEF LaunchAsDeviceExpects
<1>14. BuffersFit'
  <2>1. /\ InputSegmentsBytes(L, inputPort.channels) <= buffers.inputSegments
        /\ OverlapBytes(L, inputPort.channels) <= buffers.overlap
    BY <1>3, <1>9 DEF Sized
  <2>2. /\ Parameters(offset).segments_count = SegmentCount(L)
        /\ Parameters(offset).overlap_length = OverlapLength(L)
        /\ Setup.buffers = buffers
    BY <1>10 DEF Parameters, Setup
  <2> QED
    BY <1>6, <1>11, <2>1, <2>2 DEF BuffersFit, InputSegmentsBytes, OverlapBytes
<1> QED
  BY <1>5, <1>7, <1>13, <1>14 DEF IInv, Chunk

-----------------------------------------------------------------------------
(* The invariant and what follows from it                                  *)

(* The constructor leaves fields, buffers and port in step.                *)
LEMMA InitIInv == Init => IInv
<1> SUFFICES ASSUME Init PROVE IInv
  OBVIOUS
<1> DEFINE out == [channels |-> 1, capacity |-> 0, size |-> 0, grain |-> 0,
                   isProduced |-> FALSE]
<1>1. /\ requested \in LastChoices
      /\ info = AfterLoad(Info(NoIndex, CtorInfo[1], CtorInfo[2]), requested)
      /\ oldChoice = 0 /\ changed = TRUE /\ recomputeFilter = TRUE
      /\ outputPort = out
      /\ coefficients = CoefficientsFor(info.filterLength, outputPort)
      /\ buffers = Grown([inputSegments |-> 0, overlap |-> 0], info.filterLength, 1)
      /\ blueprintData = [numCalls |-> 1, blockCount |-> 1]
      /\ phase = "idle" /\ inputPort = Nothing /\ blueprint = Nothing
      /\ chunk = Nothing /\ translated = Nothing
  BY DEF Init
<1>2. info \in Key /\ info.filterLength \in Nat \ {0}
  <2>1. CtorInfo[1] \in Nat \ {0} /\ CtorInfo[2] \in Nat
    BY ProcessorAssumption
  <2>2. /\ Info(NoIndex, CtorInfo[1], CtorInfo[2]) \in Key
        /\ Info(NoIndex, CtorInfo[1], CtorInfo[2]).filterLength \in Nat \ {0}
    BY <2>1, SMT DEF Info, Key, NoIndex
  <2>3. Requested(requested) \in Key /\ Requested(requested).filterLength \in Nat \ {0}
    BY <1>1, RequestedType
  <2> QED
    BY <1>1, <2>2, <2>3 DEF AfterLoad
<1>3. out.channels \in 1 .. MaxChannels /\ out.capacity \in Nat
  BY ProcessorAssumption, SMT
<1>4. coefficients \in CoefficientsType
  BY <1>1, <1>2, <1>3, CoefficientsTyped
<1>5. /\ buffers \in [inputSegments : Nat, overlap : Nat]
      /\ InputSegmentsBytes(info.filterLength, 1) <= buffers.inputSegments
      /\ OverlapBytes(info.filterLength, 1) <= buffers.overlap
  <2>1. /\ InputSegmentsBytes(info.filterLength, 1) \in Nat
        /\ OverlapBytes(info.filterLength, 1) \in Nat
    BY <1>2, BytesType, 1 \in Nat
  <2>2. /\ AtLeast(0, InputSegmentsBytes(info.filterLength, 1)) \in Nat
        /\ AtLeast(0, OverlapBytes(info.filterLength, 1)) \in Nat
        /\ InputSegmentsBytes(info.filterLength, 1)
             <= AtLeast(0, InputSegmentsBytes(info.filterLength, 1))
        /\ OverlapBytes(info.filterLength, 1)
             <= AtLeast(0, OverlapBytes(info.filterLength, 1))
    BY <2>1, SMT DEF AtLeast
  <2>3. buffers = [inputSegments |-> AtLeast(0, InputSegmentsBytes(info.filterLength, 1)),
                   overlap |-> AtLeast(0, OverlapBytes(info.filterLength, 1))]
    BY <1>1 DEF Grown
  <2> QED
    BY <2>2, <2>3
<1>6. TypeOK
  <2>1. outputPort \in [channels : 1 .. MaxChannels, capacity : Nat, size : Nat,
                        grain : 0 .. FftLength, isProduced : BOOLEAN]
    <3>1. 1 \in 1 .. MaxChannels /\ 0 \in 0 .. FftLength
      BY ProcessorAssumption, FftLengthAssumption, SMT
    <3> QED
      BY <1>1, <3>1
  <2>2. blueprintData \in [numCalls : Nat \ {0}, blockCount : 1 .. MaxChannels]
    BY <1>1, <1>3, 1 \in Nat \ {0}
  <2>3. info.filterLength > 0 /\ requested \in Int
    BY <1>1, <1>2, ProcessorAssumption, SMT
  <2> QED
    BY <1>1, <1>2, <1>4, <1>5, <2>1, <2>2, <2>3 DEF TypeOK, CoefficientsType
<1>7. Current /\ Sized /\ Silenced /\ OutputMirrorsInput /\ Blueprints
  <2>1. ~Supported(inputPort)
    BY <1>1 DEF Supported
  <2> QED
    BY <1>1, <1>5, <2>1
       DEF Current, Sized, Silenced, OutputMirrorsInput, Blueprints
<1>8. Chunk
  BY <1>1 DEF Chunk, LaunchAsDeviceExpects, ReinitBeforeUse, BuffersFit
<1> QED
  BY <1>6, <1>7, <1>8 DEF IInv, Host

(* A step that prepares no chunk leaves what is true of the last one.      *)
LEMMA ChunkKept ==
  ASSUME Chunk, UNCHANGED chunks
  PROVE  Chunk'
BY DEF Chunk, LaunchAsDeviceExpects, ReinitBeforeUse, BuffersFit, chunks

(* Every call of the engine and of the user keeps the invariant.           *)
LEMMA IInvStep == IInv /\ [Next]_vars => IInv'
<1> SUFFICES ASSUME IInv, [Next]_vars PROVE IInv'
  OBVIOUS
<1> USE DEF IInv
<1>1. CASE UNCHANGED vars
  BY <1>1 DEF Host, TypeOK, Current, CoefficientsFor, Sized, Silenced, Setup,
              OutputMirrorsInput, Blueprints, Chunk, LaunchAsDeviceExpects,
              ReinitBeforeUse, BuffersFit, vars, filter, port, engine, chunks
<1>2. ASSUME NEW m \in Choices, SetData(m) PROVE IInv'
  <2>1. /\ SetDataEffect(m)
        /\ UNCHANGED <<changed, port, phase, inputPort, blueprint, chunks>>
    BY <1>2 DEF SetData
  <2>2. /\ info' \in Key /\ info'.filterLength > 0
        /\ oldChoice' \in Int /\ requested' \in Int /\ recomputeFilter' \in BOOLEAN
        /\ coefficients' \in CoefficientsType
        /\ buffers' \in [inputSegments : Nat, overlap : Nat]
        /\ Current' /\ Sized' /\ Silenced'
    BY <2>1, SetDataStep DEF chunks
  <2>3. TypeOK'
    BY <2>1, <2>2 DEF Host, TypeOK, CoefficientsType, port
  <2>4. OutputMirrorsInput' /\ Blueprints'
    BY <2>1 DEF Host, OutputMirrorsInput, Blueprints, port
  <2> QED
    BY <2>1, <2>2, <2>3, <2>4, ChunkKept DEF Host
<1>3. ASSUME NEW m \in Choices \cup {Nothing}, PrepareForProcess(m) PROVE IInv'
  <2>1. /\ SetDataEffect(m)
        /\ phase' = IF changed THEN "rebuild" ELSE "ready"
        /\ UNCHANGED <<changed, port, inputPort, blueprint, chunks>>
    BY <1>3 DEF PrepareForProcess
  <2>2. /\ info' \in Key /\ info'.filterLength > 0
        /\ oldChoice' \in Int /\ requested' \in Int /\ recomputeFilter' \in BOOLEAN
        /\ coefficients' \in CoefficientsType
        /\ buffers' \in [inputSegments : Nat, overlap : Nat]
        /\ Current' /\ Sized' /\ Silenced'
    BY <2>1, SetDataStep DEF chunks
  <2>3. TypeOK'
    BY <2>1, <2>2 DEF Host, TypeOK, CoefficientsType, port
  <2>4. OutputMirrorsInput' /\ Blueprints'
    BY <2>1 DEF Host, OutputMirrorsInput, Blueprints, port
  <2> QED
    BY <2>1, <2>2, <2>3, <2>4, ChunkKept DEF Host
<1>4. CASE OnBlueprintRebuild
  <2>1. /\ changed' = FALSE /\ blueprint' = blueprintData /\ phase' = "ready"
        /\ UNCHANGED <<filter, port, inputPort, requested, chunks>>
    BY <1>4 DEF OnBlueprintRebuild
  <2>2. Host'
    BY <2>1 DEF Host, TypeOK, Current, CoefficientsFor, Sized, Silenced, Setup,
                OutputMirrorsInput, Blueprints, filter, port, chunks
  <2> QED
    BY <2>1, <2>2, ChunkKept
<1>5. CASE PrepareChunk
  BY <1>5, PrepareChunkStep
<1>6. CASE EndOfLaunch
  <2>1. /\ phase' = "idle"
        /\ UNCHANGED <<filter, changed, port, inputPort, blueprint, requested, chunks>>
    BY <1>6 DEF EndOfLaunch
  <2>2. Host'
    BY <2>1 DEF Host, TypeOK, Current, CoefficientsFor, Sized, Silenced, Setup,
                OutputMirrorsInput, Blueprints, filter, port, chunks
  <2> QED
    BY <2>1, <2>2, ChunkKept
<1>7. ASSUME NEW p \in Ports, Connect(p) PROVE IInv'
  <2>1. Host'
    BY <1>7, AdoptStep DEF Connect, chunks
  <2> QED
    BY <1>7, <2>1, ChunkKept DEF Connect
<1>8. CASE Disconnect
  <2>1. ~Supported(inputPort')
    BY <1>8 DEF Disconnect, Supported
  <2>2. Host'
    BY <1>8, <2>1, DisconnectStep DEF Disconnect, chunks
  <2> QED
    BY <1>8, <2>2, ChunkKept DEF Disconnect
<1>9. ASSUME NEW p \in Ports, InputPortUpdated(p) PROVE IInv'
  <2>1. /\ inputPort # Nothing
        /\ phase = "ready" => p = [inputPort EXCEPT !.size = p.size]
        /\ inputPort' = p
        /\ UNCHANGED <<phase, blueprint, requested, chunks>>
    BY <1>9 DEF InputPortUpdated
  <2>2. PICK flags \in FlagsOfChange(inputPort, p) :
          \/ /\ ~Supported(p)
             /\ DisconnectEffect
          \/ /\ Supported(p) /\ Relevant(flags) = {}
             /\ UNCHANGED <<filter, changed, port>>
          \/ /\ Supported(p) /\ Relevant(flags) # {}
             /\ AdoptPort(p, flags \cap RebuildFlags # {})
             /\ announced' = AnnouncedFor(flags)
    BY <1>9 DEF InputPortUpdated
  <2>3. inputPort \in Ports
    BY <2>1 DEF Host, TypeOK
  <2>4. Chunk'
    BY <2>1, ChunkKept
  <2>5. CASE ~Supported(p) /\ DisconnectEffect
    BY <2>1, <2>4, <2>5, DisconnectStep DEF chunks
  <2>6. CASE Supported(p) /\ Relevant(flags) = {} /\ UNCHANGED <<filter, changed, port>>
    <3>1. inputPort = p
      BY <2>2, <2>3, <2>6, FlagsTell
    <3>2. Host'
      BY <2>1, <2>6, <3>1 DEF Host, TypeOK, Current, CoefficientsFor, Sized, Silenced, Setup,
                  OutputMirrorsInput, Blueprints, filter, port, chunks
    <3> QED
      BY <2>4, <3>2
  <2>7. CASE Supported(p) /\ AdoptPort(p, flags \cap RebuildFlags # {})
    <3>1. ASSUME phase = "ready"
          PROVE  /\ Supported(inputPort)
                 /\ p.capacity = inputPort.capacity /\ p.channels = inputPort.channels
                 /\ ~(flags \cap RebuildFlags # {})
      <4>1. /\ p.capacity = inputPort.capacity /\ p.channels = inputPort.channels
            /\ p.regular32 = inputPort.regular32
        <5>1. inputPort \in [regular32 : BOOLEAN, channels : Nat \ {0},
                             capacity : Nat \ {0}, size : Nat]
          BY <2>3, ProcessorAssumption
        <5> QED
          BY <2>1, <3>1, <5>1
      <4>2. flags \cap RebuildFlags = {}
        BY <2>2, <2>3, <4>1, FlagsTell
      <4> QED
        BY <2>1, <2>7, <4>1, <4>2 DEF Supported
    <3>2. (flags \cap RebuildFlags # {}) \in BOOLEAN
      OBVIOUS
    <3>3. Host'
      BY <2>1, <2>7, <3>1, <3>2, AdoptStep DEF chunks
    <3> QED
      BY <2>4, <3>3
  <2> QED
    BY <2>2, <2>5, <2>6, <2>7
<1> QED
  BY <1>1, <1>2, <1>3, <1>4, <1>5, <1>6, <1>7, <1>8, <1>9 DEF Next

(* Every reachable state satisfies the inductive invariant.                *)
THEOREM Invariance == Spec => []IInv
BY InitIInv, IInvStep, PTL DEF Spec

(* All fields of the host stay in their ranges.                            *)
THEOREM TypeCorrect == Spec => []TypeOK
<1>1. IInv => TypeOK
  BY DEF IInv, Host
<1> QED
  BY <1>1, Invariance, PTL

(* Every chunk is launched with the parameters of its filter and its       *)
(* buffer.                                                                 *)
THEOREM LaunchesAreAsExpected == Spec => []LaunchAsDeviceExpects
<1>1. IInv => LaunchAsDeviceExpects
  BY DEF IInv, Chunk
<1> QED
  BY <1>1, Invariance, PTL

(* No chunk runs on a history or a spectrum of another filter or geometry. *)
THEOREM NeverStale == Spec => []ReinitBeforeUse
<1>1. IInv => ReinitBeforeUse
  BY DEF IInv, Chunk
<1> QED
  BY <1>1, Invariance, PTL

(* Launched blocks stay inside the processor's own buffers.                *)
THEOREM BuffersAlwaysFit == Spec => []BuffersFit
<1>1. IInv => BuffersFit
  BY DEF IInv, Chunk
<1> QED
  BY <1>1, Invariance, PTL

(* Chunks are prepared under the current blueprint only.                   *)
THEOREM BlueprintsStayFresh == Spec => []BlueprintFresh
<1>1. IInv => BlueprintFresh
  BY DEF IInv, Host, Blueprints, BlueprintFresh
<1> QED
  BY <1>1, Invariance, PTL

(* The output port follows the input port.                                 *)
THEOREM OutputFollows == Spec => []OutputMirrorsInput
<1>1. IInv => OutputMirrorsInput
  BY DEF IInv, Host
<1> QED
  BY <1>1, Invariance, PTL
-----------------------------------------------------------------------------
(* The user's choice and the next processor                                *)

(* A processor constructed for the first response loads what the user asks *)
(* for next, and some generated response for choice -1; m_old_choice       *)
(* starts at the first response (SetData, FirProcessor.cpp).               *)
THEOREM ChoicesHonoured ==
  ASSUME LastChoices \subseteq {0}
  PROVE  Spec => []ChoiceHonoured
<1> DEFINE Inv == /\ requested = oldChoice /\ oldChoice \in Int
                  /\ oldChoice = NoIndex => info.filterLoadIndex = NoIndex
                  /\ oldChoice # NoIndex => info = Requested(oldChoice)
<1>1. Init => Inv
  <2> SUFFICES ASSUME Init PROVE Inv
    OBVIOUS
  <2>1. requested = 0 /\ oldChoice = 0
    BY DEF Init
  <2>2. info = AfterLoad(Info(NoIndex, CtorInfo[1], CtorInfo[2]), 0)
    BY <2>1 DEF Init
  <2>3. Info(NoIndex, CtorInfo[1], CtorInfo[2]).filterLoadIndex # 0
    BY DEF Info, NoIndex
  <2>4. 0 # NoIndex
    BY DEF NoIndex
  <2> QED
    BY <2>1, <2>2, <2>3, <2>4 DEF AfterLoad
<1>2. Inv /\ [Next]_vars => Inv'
  <2> SUFFICES ASSUME Inv, [Next]_vars PROVE Inv'
    OBVIOUS
  <2>1. ASSUME UNCHANGED <<info, oldChoice, requested>> PROVE Inv'
    BY <2>1
  <2>2. ASSUME NEW m \in Choices \cup {Nothing}, SetDataEffect(m) PROVE Inv'
    <3>1. CASE m = Nothing \/ m = oldChoice
      BY <2>2, <3>1 DEF SetDataEffect, filter
    <3>2. CASE ~(m = Nothing \/ m = oldChoice)
      <4>1. requested' = m /\ oldChoice' = m /\ info' = AfterLoad(info, m)
        BY <2>2, <3>2 DEF SetDataEffect, NextOldChoice
      <4>2. m \in Int
        BY <3>2, ProcessorAssumption
      <4>3. m = NoIndex \/ info.filterLoadIndex # m
        <5>1. info.filterLoadIndex \in {NoIndex, oldChoice}
          BY DEF Requested, Info
        <5> QED
          BY <3>2, <4>2, <5>1
      <4>4. CASE m = NoIndex
        <5>1. info'.filterLoadIndex = NoIndex
          BY <4>1, <4>3, <4>4, SMT DEF AfterLoad, Requested, Info, NoIndex
        <5> QED
          BY <4>1, <4>2, <4>4, <5>1
      <4>5. CASE m # NoIndex
        <5>1. info.filterLoadIndex # m
          BY <4>3, <4>5
        <5> QED
          BY <4>1, <4>2, <4>5, <5>1 DEF AfterLoad
      <4> QED
        BY <4>4, <4>5
    <3> QED
      BY <3>1, <3>2
  <2> QED
    BY <2>1, <2>2
       DEF Next, SetData, PrepareForProcess, OnBlueprintRebuild, PrepareChunk, EndOfLaunch,
           Connect, Disconnect, InputPortUpdated, AdoptPort, DisconnectEffect,
           filter, engine, vars
<1>3. Inv => ChoiceHonoured
  BY DEF ChoiceHonoured
<1> QED
  BY <1>1, <1>2, <1>3, PTL DEF Spec

(* The flags announced for an adopted port cover what is different in it.  *)
LEMMA AnnouncedCovers ==
  ASSUME NEW p \in Ports, NEW q \in Ports, NEW flags \in FlagsOfChange(p, q),
         NEW attribute \in {"channels", "capacity", "size"}, p[attribute] # q[attribute]
  PROVE  AnnouncedFor(flags) \cap {"eReset", FlagOf(attribute)} # {}
<1> DEFINE different == {FlagOf(a) : a \in {a \in DOMAIN p : p[a] # q[a]}}
<1>1. p \in [regular32 : BOOLEAN, channels : Nat \ {0}, capacity : Nat \ {0}, size : Nat]
  BY ProcessorAssumption
<1>2. FlagOf(attribute) \in different
  BY <1>1
<1>3. FlagOf(attribute) \notin IgnoredFlags
  BY DEF FlagOf, IgnoredFlags
<1>4. flags = {"eReset"} \/ flags = different \/ flags = different \cup IgnoredFlags
  BY DEF FlagsOfChange
<1> HIDE DEF different
<1>5. flags = {"eReset"} \/ FlagOf(attribute) \in flags
  BY <1>2, <1>4
<1> QED
  BY <1>3, <1>5 DEF AnnouncedFor, Relevant

(* The next processor is told of every change of the buffer it reads.      *)
THEOREM ChangesAreAnnounced == Spec => ChangesAnnounced
<1> DEFINE Announced ==
      Supported(inputPort) /\ Supported(inputPort') =>
        \A attribute \in {"channels", "capacity", "size"} :
          outputPort'[attribute] # outputPort[attribute] =>
            announced' \cap {"eReset", FlagOf(attribute)} # {}
<1>1. IInv /\ [Next]_vars => [Announced]_vars
  <2> SUFFICES ASSUME IInv, Next PROVE Announced
    OBVIOUS
  <2>1. ASSUME outputPort' = outputPort PROVE Announced
    BY <2>1
  <2>2. ASSUME NEW p \in Ports, Connect(p) PROVE Announced
    BY <2>2 DEF Connect, Supported
  <2>3. CASE Disconnect
    BY <2>3 DEF Disconnect, Supported
  <2>4. ASSUME NEW p \in Ports, InputPortUpdated(p) PROVE Announced
    <3> SUFFICES ASSUME Supported(inputPort), Supported(inputPort'),
                        NEW attribute \in {"channels", "capacity", "size"},
                        outputPort'[attribute] # outputPort[attribute]
                 PROVE  announced' \cap {"eReset", FlagOf(attribute)} # {}
      OBVIOUS
    <3>1. inputPort' = p /\ inputPort \in Ports
      BY <2>4 DEF InputPortUpdated, IInv, Host, TypeOK
    <3>2. PICK flags \in FlagsOfChange(inputPort, p) :
            \/ UNCHANGED port
            \/ AdoptPort(p, flags \cap RebuildFlags # {}) /\ announced' = AnnouncedFor(flags)
      BY <2>4, <3>1 DEF InputPortUpdated
    <3>3. /\ AdoptPort(p, flags \cap RebuildFlags # {})
          /\ announced' = AnnouncedFor(flags)
      BY <3>2 DEF port
    <3>4. outputPort'[attribute] = p[attribute]
      BY <3>3 DEF AdoptPort, OutputFor
    <3>5. outputPort[attribute] = inputPort[attribute]
      BY DEF IInv, Host, OutputMirrorsInput
    <3> QED
      BY <3>1, <3>3, <3>4, <3>5, AnnouncedCovers
  <2> QED
    BY <2>1, <2>2, <2>3, <2>4
       DEF Next, SetData, PrepareForProcess, OnBlueprintRebuild, PrepareChunk, EndOfLaunch, port
<1> QED
  BY <1>1, Invariance, PTL DEF Spec, ChangesAnnounced
=============================================================================
