----------------------------- MODULE FirProcessor -----------------------------
(***************************************************************************)
(* The host side of a processor: FirProcessor.  The engine connects its    *)
(* input port, tells it of changes of that port, hands it user data, and   *)
(* prepares launches: PrepareForProcess, the rebuild of the blueprint when *)
(* that asks for one, and PrepareChunk for every chunk.  An action is one  *)
(* such call; the engine makes them one at a time.                         *)
(*                                                                         *)
(* Sizes of buffers are counted in samples: Connect and InputPortUpdated   *)
(* accept ports of 32 bit samples only.                                    *)
(***************************************************************************)
EXTENDS FirGeometry, IRInfo

CONSTANTS
  MaxChannels,   \* MAX_CHANNELS
  CtorInfo,      \* <<filter_length, filter_index>> of the construction data
  LastChoices,   \* last_choice of the construction data
  Choices,       \* ir_index of the user's messages
  Ports,         \* what the output port this one is connected to may look like
  Rands,         \* values of rand()
  Nothing        \* no port, chunk, message or blueprint

ASSUME ProcessorAssumption ==
  /\ MaxChannels \in Nat \ {0}
  /\ CtorInfo \in (Nat \ {0}) \X Nat
  /\ LastChoices \subseteq Int /\ LastChoices \cap Nat \subseteq DOMAIN StoreLength
  /\ Choices \subseteq Int /\ Choices \cap Nat \subseteq DOMAIN StoreLength
  /\ Ports \subseteq [regular32 : BOOLEAN, channels : Nat \ {0},
                      capacity : Nat \ {0}, size : Nat]
  /\ \A p \in Ports : p.size <= p.capacity
  /\ Rands \subseteq Nat
  /\ Nothing \notin Ports /\ Nothing \notin Choices

VARIABLES
  info,             \* the response m_current_ir_filter has loaded
  oldChoice,        \* m_old_choice
  changed,          \* m_changed
  recomputeFilter,  \* m_recompute_filter
  coefficients,     \* the fields UpdateFilterCoefficients computes
  buffers,          \* samples in m_fourier_input_segments and m_overlap
  outputPort,       \* the PortInfo of m_output_port
  announced,        \* flags of its last Changed
  blueprintData,    \* m_proc_data and m_gpu_task: num_calls and block_count
  (* The engine and the user: *)
  phase,            \* idle, rebuild or ready, of the launch being prepared
  inputPort,        \* the port connected
  blueprint,        \* the blueprint last handed out
  requested,        \* the response last asked for
  (* The chunks: *)
  chunk,            \* the last one prepared
  translated        \* what the last one that translated the filter was for

filter == <<info, oldChoice, recomputeFilter, coefficients, buffers>>
port   == <<outputPort, announced, blueprintData>>
engine == <<phase, inputPort, blueprint, requested>>
chunks == <<chunk, translated>>
vars   == <<filter, changed, port, engine, chunks>>

-----------------------------------------------------------------------------
(* UpdateFilterCoefficients, for an output port and a filter.              *)

CoefficientsFor(L, out) ==
  LET grain == GrainFor(out.capacity)
  IN  [grain      |-> grain,
       channels   |-> out.channels,
       firSamples |-> FirSamplesPerSegment(L),
       inputSize  |-> InputSizePerIteration(L, grain),
       segments   |-> SegmentCount(L),
       overlap    |-> OverlapLength(L)]

(* Mutants: the change of one of the inputs goes unnoticed. *)
OutdatedByGrain(out, force)  == force \/ coefficients.grain # GrainFor(out.capacity)
OutdatedUnforced(out, force) ==
  coefficients.grain # GrainFor(out.capacity) \/ coefficients.channels # out.channels

Outdated(out, force) ==
  \/ force
  \/ coefficients.grain # GrainFor(out.capacity)
  \/ coefficients.channels # out.channels

(* The buffers of one processor in bytes, grown but never shrunk.          *)
GrownForOneChannel(old, L, channels) ==   \* mutant
  [inputSegments |-> AtLeast(old.inputSegments, InputSegmentsBytes(L, 1)),
   overlap       |-> AtLeast(old.overlap, OverlapBytes(L, 1))]
Grown(old, L, channels) ==
  [inputSegments |-> AtLeast(old.inputSegments, InputSegmentsBytes(L, channels)),
   overlap       |-> AtLeast(old.overlap, OverlapBytes(L, channels))]

RecomputeIfForced(force) == recomputeFilter \/ force   \* mutant
RecomputeAfter(force) == TRUE

UpdateFilterCoefficients(L, out, force) ==
  IF Outdated(out, force)
  THEN /\ coefficients' = CoefficientsFor(L, out)
       /\ buffers' = Grown(buffers, L, out.channels)
       /\ recomputeFilter' = RecomputeAfter(force)
  ELSE UNCHANGED <<coefficients, buffers, recomputeFilter>>

-----------------------------------------------------------------------------
(* SetData: a message of the user; Nothing is one the processor rejects.   *)

OldChoiceKept(message) == oldChoice   \* mutant
NextOldChoice(message) == message

SetDataEffect(message) ==
  /\ requested' = IF message = Nothing THEN requested ELSE message
  /\ IF message = Nothing \/ message = oldChoice
     THEN UNCHANGED filter
     ELSE /\ info' = AfterLoad(info, message)
          /\ UpdateFilterCoefficients(info'.filterLength, outputPort, TRUE)
          /\ oldChoice' = NextOldChoice(message)

SetData(message) ==
  /\ message # Nothing
  /\ SetDataEffect(message)
  /\ UNCHANGED <<changed, port, phase, inputPort, blueprint, chunks>>

PrepareForProcess(message) ==
  /\ phase = "idle"
  /\ SetDataEffect(message)
  /\ phase' = IF changed THEN "rebuild" ELSE "ready"
  /\ UNCHANGED <<changed, port, inputPort, blueprint, chunks>>

OnBlueprintRebuild ==
  /\ phase = "rebuild"
  /\ changed' = FALSE
  /\ blueprint' = blueprintData
  /\ phase' = "ready"
  /\ UNCHANGED <<filter, port, inputPort, requested, chunks>>

EndOfLaunch ==
  /\ phase = "ready"
  /\ phase' = "idle"
  /\ UNCHANGED <<filter, changed, port, inputPort, blueprint, requested, chunks>>
-----------------------------------------------------------------------------
(* The input port.                                                         *)

Supported(p) == p # Nothing /\ p.regular32 /\ p.channels <= MaxChannels

(* The output port for an input port, with the grain of this processor.    *)
OutputFor(p) ==
  [channels |-> p.channels, capacity |-> p.capacity, size |-> p.size,
   grain |-> coefficients'.grain, isProduced |-> TRUE]

BlueprintDataFor(p) ==
  [numCalls |-> NumCalls(p.capacity, coefficients'.grain),
   blockCount |-> coefficients'.channels]

(* m_changed, after num_calls and block_count were compared.               *)
ChangedByCalls(asked) ==   \* mutant
  changed \/ asked \/ blueprintData'.numCalls # blueprintData.numCalls
ChangedAfter(asked) ==
  changed \/ asked \/ blueprintData' # blueprintData

(* What Connect and InputPortUpdated do with a port they support.          *)
AdoptPort(p, asked) ==
  /\ UpdateFilterCoefficients(info.filterLength, p, FALSE)
  /\ outputPort' = OutputFor(p)
  /\ blueprintData' = BlueprintDataFor(p)
  /\ changed' = ChangedAfter(asked)
  /\ UNCHANGED <<info, oldChoice>>

DisconnectEffect ==
  /\ outputPort' = [channels |-> outputPort.channels, capacity |-> outputPort.capacity,
                    size |-> 0, grain |-> coefficients.grain, isProduced |-> FALSE]
  /\ announced' = {"eReset"}
  /\ UNCHANGED <<filter, changed, blueprintData>>

Connect(p) ==
  /\ phase = "idle" /\ inputPort = Nothing
  /\ Supported(p)
  /\ AdoptPort(p, FALSE)
  /\ announced' = {"eReset"}
  /\ inputPort' = p
  /\ UNCHANGED <<phase, blueprint, requested, chunks>>

Disconnect ==
  /\ phase = "idle" /\ inputPort # Nothing
  /\ DisconnectEffect
  /\ inputPort' = Nothing
  /\ UNCHANGED <<phase, blueprint, requested, chunks>>

(* The flags of a change from port p to port q: each attribute that is     *)
(* different, perhaps more; or a reset, for everything.                    *)
IgnoredFlags == {"eGrainChanged", "eTransferToCpuChanged", "eProduceInfoChanged"}
RebuildFlags == {"eCapacityChanged", "eChannelCountChanged"}

FlagOf(attribute) ==
  CASE attribute = "regular32" -> "eTypeChanged"
    [] attribute = "channels"  -> "eChannelCountChanged"
    [] attribute = "capacity"  -> "eCapacityChanged"
    [] attribute = "size"      -> "eSizeChanged"

FlagsOfChange(p, q) ==
  LET different == {FlagOf(a) : a \in {a \in DOMAIN p : p[a] # q[a]}}
  IN  {{"eReset"}} \cup {different \cup more : more \in {{}, IgnoredFlags}}

RelevantRebuild(flags) == flags \cap RebuildFlags   \* mutant
Relevant(flags) == flags \ IgnoredFlags

AnnouncedRebuild(flags) == flags \cap RebuildFlags   \* mutant
AnnouncedFor(flags) ==
  IF flags \in {{"eReset"}, {"eTypeChanged"}} THEN {"eReset"} ELSE Relevant(flags)

(* The capacity and the channels stay as they are while chunks are being   *)
(* prepared; the samples in the buffer are read anew for every chunk.      *)
InputPortUpdated(p) ==
  /\ inputPort # Nothing
  /\ phase = "ready" => p = [inputPort EXCEPT !.size = p.size]
  /\ inputPort' = p
  /\ \E flags \in FlagsOfChange(inputPort, p) :
       \/ /\ ~Supported(p)
          /\ DisconnectEffect
       \/ /\ Supported(p) /\ Relevant(flags) = {}
          /\ UNCHANGED <<filter, changed, port>>
       \/ /\ Supported(p) /\ Relevant(flags) # {}
          /\ AdoptPort(p, flags \cap RebuildFlags # {})
          /\ announced' = AnnouncedFor(flags)
  /\ UNCHANGED <<phase, blueprint, requested, chunks>>

-----------------------------------------------------------------------------
(* PrepareChunk: the parameters of the next chunk.                         *)

(* What a chunk runs with that the device's history depends on.            *)
Setup == [response |-> info, coefficients |-> coefficients, buffers |-> buffers]

Parameters(offset) ==
  [segments_count              |-> coefficients.segments,
   input_samples_per_iteration |-> coefficients.inputSize,
   fir_samples_per_iteration   |-> coefficients.firSamples,
   overlap_length              |-> coefficients.overlap,
   input_length                |-> outputPort.size,
   grain                       |-> coefficients.grain,
   filter_length_to_translate_init |-> IF recomputeFilter THEN info.filterLength ELSE 0,
   init_buffer_offset          |-> offset,
   num_calls                   |-> blueprint.numCalls]

OffsetsNow ==
  IF recomputeFilter THEN InitOffsets(info.filterLength, coefficients.grain, Rands)
  ELSE {0}

PrepareChunk ==
  /\ phase = "ready"
  /\ Supported(inputPort)
  /\ \E offset \in OffsetsNow :
       chunk' = [parameters |-> Parameters(offset),
                 responses  |-> coefficients.channels,
                 blocks     |-> blueprint.blockCount,
                 port       |-> inputPort,
                 setup      |-> Setup]
  /\ translated' = IF recomputeFilter THEN Setup ELSE translated
  /\ recomputeFilter' = FALSE
  /\ UNCHANGED <<info, oldChoice, coefficients, buffers, changed, port, engine>>

-----------------------------------------------------------------------------
(* The constructor. *)
Init ==
  /\ requested \in LastChoices
  /\ info = AfterLoad(Info(NoIndex, CtorInfo[1], CtorInfo[2]), requested)
  /\ oldChoice = 0
  /\ changed = TRUE
  /\ recomputeFilter = TRUE
  /\ outputPort = [channels |-> 1, capacity |-> 0, size |-> 0, grain |-> 0,
                   isProduced |-> FALSE]
  /\ announced = {}
  /\ coefficients = CoefficientsFor(info.filterLength, outputPort)
  /\ buffers = Grown([inputSegments |-> 0, overlap |-> 0], info.filterLength, 1)
  /\ blueprintData = [numCalls |-> 1, blockCount |-> 1]
  /\ phase = "idle" /\ inputPort = Nothing /\ blueprint = Nothing
  /\ chunk = Nothing /\ translated = Nothing

Next ==
  \/ \E message \in Choices : SetData(message)
  \/ \E message \in Choices \cup {Nothing} : PrepareForProcess(message)
  \/ OnBlueprintRebuild
  \/ PrepareChunk
  \/ EndOfLaunch
  \/ \E p \in Ports : Connect(p) \/ InputPortUpdated(p)
  \/ Disconnect

Spec == Init /\ [][Next]_vars

-----------------------------------------------------------------------------
(* Properties                                                              *)

(* Every field keeps its type, and its range: grains fit the transform.    *)
TypeOK ==
  /\ info \in Key /\ info.filterLength > 0
  /\ oldChoice \in Int /\ requested \in Int
  /\ changed \in BOOLEAN /\ recomputeFilter \in BOOLEAN
  /\ coefficients \in [grain : 0 .. FftLength, channels : 1 .. MaxChannels,
                       firSamples : 1 .. FftLength, inputSize : Nat \ {0},
                       segments : Nat \ {0}, overlap : 1 .. 2 * FftLength]
  /\ buffers \in [inputSegments : Nat, overlap : Nat]
  /\ outputPort \in [channels : 1 .. MaxChannels, capacity : Nat, size : Nat,
                     grain : 0 .. FftLength, isProduced : BOOLEAN]
  /\ blueprintData \in [numCalls : Nat \ {0}, blockCount : 1 .. MaxChannels]
  /\ phase \in {"idle", "rebuild", "ready"}
  /\ inputPort \in Ports \cup {Nothing}

(* Every chunk is launched with the parameters its filter and its buffer   *)
(* call for, and one block for every channel, although the host keeps      *)
(* them in fields and the engine in a blueprint, all updated only when     *)
(* something seemed to change.                                             *)
LaunchAsDeviceExpects ==
  chunk # Nothing =>
    LET L == chunk.setup.response.filterLength
        p == chunk.parameters
        expected == LaunchParameters(L, chunk.port.capacity, chunk.port.size)
    IN  /\ \A field \in DOMAIN expected
                \ {"filter_length_to_translate_init", "init_buffer_offset"} :
             p[field] = expected[field]
        /\ p.filter_length_to_translate_init \in {0, L}
        /\ p.init_buffer_offset < p.input_samples_per_iteration
        /\ chunk.blocks = chunk.port.channels
        /\ chunk.responses = chunk.port.channels

(* A chunk runs on a filter, a geometry and buffers that are those of the  *)
(* last chunk that translated the filter and silenced the history: any     *)
(* change of them since then makes the next chunk do so.                   *)
ReinitBeforeUse == chunk # Nothing => translated = chunk.setup

(* The part of the two buffers each launched block works in lies inside    *)
(* them.                                                                   *)
BuffersFit ==
  chunk # Nothing =>
    /\ chunk.parameters.segments_count * FftLength * chunk.blocks * SpectrumBytes
         <= chunk.setup.buffers.inputSegments
    /\ chunk.parameters.overlap_length * chunk.blocks * SampleBytes
         <= chunk.setup.buffers.overlap

(* The engine works from the current blueprint whenever chunks are         *)
(* prepared: no change of it goes without a rebuild.                       *)
BlueprintFresh == phase = "ready" => blueprint = blueprintData

(* The output port tells the next processor what this one makes of its     *)
(* input: the same buffer while it is usable, and nothing otherwise.       *)
OutputMirrorsInput ==
  IF Supported(inputPort)
  THEN outputPort = [channels |-> inputPort.channels, capacity |-> inputPort.capacity,
                     size |-> inputPort.size, grain |-> GrainFor(inputPort.capacity),
                     isProduced |-> TRUE]
  ELSE outputPort.size = 0 /\ ~outputPort.isProduced

(* While the input stays usable, no change of the output port's buffer is  *)
(* kept from the next processor: the flags it is told cover the change.    *)
ChangesAnnounced ==
  [][Supported(inputPort) /\ Supported(inputPort') =>
       \A attribute \in {"channels", "capacity", "size"} :
         outputPort'[attribute] # outputPort[attribute] =>
           announced' \cap {"eReset", FlagOf(attribute)} # {}]_vars

(* "process the provided user-data": the processor has loaded the response *)
(* last asked for, at construction or by a message since.  Choice -1 is    *)
(* apart: LoadImpulseResponse takes it for the index of any generated      *)
(* response and keeps the one it has, so the user gets a generated         *)
(* response, but not always the one -1 stands for.                         *)
ChoiceHonoured ==
  IF requested = NoIndex THEN info.filterLoadIndex = NoIndex ELSE info = Requested(requested)

(* The same without the exception.  The code breaks it: a message -1 that  *)
(* follows another negative choice, or a generated response of the         *)
(* constructor, changes nothing.                                           *)
EveryChoiceHonoured == info = Requested(requested)
=============================================================================
