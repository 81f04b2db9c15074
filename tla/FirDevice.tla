------------------------------ MODULE FirDevice ------------------------------
(***************************************************************************)
(* The device: FirProcessorDevice convolves the input of every channel     *)
(* with the filter, in segments, across calls and chunks of any size.      *)
(*                                                                         *)
(* A launch processes one chunk by params.num_calls calls, one after the   *)
(* other; in a call one block of threads per channel works through the     *)
(* grain, and the blocks interleave.  An action is one processInternal, or *)
(* the init of one block, and is atomic: its threads synchronise and       *)
(* share nothing with another block but the memory modelled here.          *)
(*                                                                         *)
(* A spectrum is written as the 2 * FftLength samples it is the transform  *)
(* of, so adding spectra adds samples, and multiplying two of them and     *)
(* transforming back is their circular convolution.                        *)
(*                                                                         *)
(* Nothing on this path depends on a sample's value, and every step is     *)
(* linear in the input and in the filter.  So the input of a stream is a   *)
(* single unit sample, in any one channel at any one time, the filter has  *)
(* a single unit tap, and the output must be a unit sample that much later.*)
(* All other streams and filters are sums of these.                        *)
(***************************************************************************)
EXTENDS FirGeometry, FiniteSetsExt

CONSTANTS
  Channels,     \* channels of the stream, one block each
  Configs,      \* the filters and buffers: length, capacity and size
  ImpulseTimes, \* when the unit sample may come
  Rands,        \* values of rand() on the host
  MaxTime,      \* bound on the length of a stream
  MaxInits      \* bound on the number of streams

(* A buffer may be filled in part; the calls come from its capacity.       *)
ASSUME ConfigsAssumption ==
  /\ Channels \in Nat \ {0}
  /\ \A c \in Configs :
       /\ c \in [length : Nat \ {0}, capacity : Nat \ {0}, size : Nat \ {0}]
       /\ c.size <= c.capacity
  /\ ImpulseTimes \subseteq Nat /\ Rands \subseteq Nat
  /\ MaxTime \in Nat /\ MaxInits \in Nat

VARIABLES
  params,       \* fir::ProcessorParameter and the blueprint of this launch
  config,       \* the configuration they come from
  call,         \* context.call()
  pc,           \* per block: idle, begin, first, loop
  cursor,
  segmentOffset,        \* _segmentOffset
  segmentZeroSamples,   \* _segmentZeroSamples
  fourierInputSegments, \* the ring of input spectra, all channels in one buffer
  overlap,              \* likewise
  responses,    \* fourier_impulse_response_segments, per channel
  start,        \* stream time of the first sample of this chunk
  impulse,      \* <<channel, stream time>> of the unit sample
  tap,          \* index of the unit tap
  output,       \* per channel: what the chunk has written so far
  inits         \* streams begun

device == <<segmentOffset, segmentZeroSamples, fourierInputSegments, overlap, responses>>
stream == <<params, config, start, impulse, tap, inits>>
vars   == <<stream, call, pc, cursor, device, output>>

Blocks == 0 .. Channels - 1

-----------------------------------------------------------------------------
(* Signals: what a transform of 2 * FftLength points sees.                 *)

Points  == 0 .. 2 * FftLength - 1
Silence == [n \in Points |-> 0]

Plus(a, b) == [n \in Points |-> a[n] + b[n]]

Convolved(a, b) ==
  LET support == {m \in Points : a[m] # 0}
  IN  [n \in Points |->
         MapThenSumSet(LAMBDA m : a[m] * b[(n - m) % (2 * FftLength)], support)]

(* loadInputToSharedChecked: samples are loaded in pairs at even positions, *)
(* and a pair that is not wholly inside the piece is left zero.            *)
LoadChecked(piece, size, offset) ==
  [n \in Points |->
     LET id == n - (n % 2)
     IN  IF id >= offset /\ id < offset + size - 1 THEN piece[n - offset] ELSE 0]

-----------------------------------------------------------------------------
(* The parameters the host passes for a configuration.                     *)

ParametersFor(c) == LaunchParameters(c.length, c.capacity, c.size)

OffsetsFor(c) == InitOffsets(c.length, GrainFor(c.capacity), Rands)

MaxOver(f(_)) == Max({f(c) : c \in Configs})

-----------------------------------------------------------------------------
Init ==
  /\ config \in Configs
  /\ params = ParametersFor(config)
  /\ call = 0 /\ start = 0 /\ inits = 0
  /\ pc = [b \in Blocks |-> "idle"]
  /\ cursor = [b \in Blocks |-> 0]
  /\ segmentOffset = [b \in Blocks |-> 0]
  /\ segmentZeroSamples = [b \in Blocks |-> 0]
  /\ fourierInputSegments =
       [i \in 0 .. Channels * MaxOver(LAMBDA c : SegmentCount(c.length)) - 1 |-> Silence]
  /\ overlap = [i \in 0 .. Channels * MaxOver(LAMBDA c : OverlapLength(c.length)) - 1 |-> 0]
  /\ responses = [b \in Blocks |-> <<>>]
  /\ impulse = <<0, 0>> /\ tap = 0
  /\ output = [b \in Blocks |-> <<>>]

Idle == \A b \in Blocks : pc[b] = "idle"

BeginLaunch ==
  /\ Idle
  /\ call' = 0
  /\ pc' = [b \in Blocks |-> "begin"]
  /\ output' = [b \in Blocks |-> [i \in {} |-> 0]]
  /\ UNCHANGED <<cursor, device>>

(* A launch whose parameters ask the device to translate the filter: the   *)
(* first, and the first after any change of filter or buffers.             *)
LaunchInit(c) ==
  /\ BeginLaunch
  /\ inits < MaxInits
  /\ config' = c
  /\ \E offset \in OffsetsFor(c) :
       params' = [ParametersFor(c) EXCEPT !.filter_length_to_translate_init = c.length,
                                          !.init_buffer_offset = offset]
  /\ inits' = inits + 1
  /\ start' = 0
  /\ impulse' \in Blocks \X ImpulseTimes
  /\ tap' \in 0 .. c.length - 1

(* A launch for the next chunk of the same stream.  Neither the number of  *)
(* samples in the buffer nor its capacity beyond the grain restarts it.    *)
LaunchNext(c) ==
  /\ BeginLaunch
  /\ inits > 0
  /\ c.length = config.length
  /\ GrainFor(c.capacity) = params.grain
  /\ start + params.input_length + c.size <= MaxTime
  /\ config' = c
  /\ params' = ParametersFor(c)
  /\ start' = start + params.input_length
  /\ UNCHANGED <<impulse, tap, inits>>

-----------------------------------------------------------------------------
(* The samples of this chunk, and of the filter. *)
InputSample(b, i) == IF impulse = <<b, start + i>> THEN 1 ELSE 0
FilterSample(i)   == IF i = tap THEN 1 ELSE 0

(* Every block has its part of the two buffers that all blocks share.      *)
SegmentBase(b) == params.segments_count * b

OverlapBase(b) == params.overlap_length * b

InitSegment(i) ==
  LET offset == i * params.fir_samples_per_iteration
      size   == AtMost(params.fir_samples_per_iteration,
                       params.filter_length_to_translate_init - offset)
  IN  LoadChecked([n \in 0 .. size - 1 |-> FilterSample(offset + n)], size, 0)

SilencedOverlapNever(b) == overlap   \* mutant
SilencedOverlap(b) ==
  [j \in DOMAIN overlap |->
     IF j - OverlapBase(b) \in 0 .. params.overlap_length - 1 THEN 0 ELSE overlap[j]]

SilencedSegments(b) ==
  [j \in DOMAIN fourierInputSegments |->
     IF j - SegmentBase(b) \in 0 .. params.segments_count - 1 THEN Silence
     ELSE fourierInputSegments[j]]

(* init(context, params): translate the filter, silence the input history. *)
InitFilter(b) ==
  /\ pc[b] = "begin"
  /\ pc' = [pc EXCEPT ![b] = "first"]
  /\ IF params.filter_length_to_translate_init # 0 /\ call = 0
     THEN /\ segmentZeroSamples' = [segmentZeroSamples EXCEPT ![b] =
               params.init_buffer_offset % params.input_samples_per_iteration]
          /\ responses' = [responses EXCEPT ![b] =
               [i \in 0 .. DivUp(params.filter_length_to_translate_init,
                                 params.fir_samples_per_iteration) - 1 |-> InitSegment(i)]]
          /\ fourierInputSegments' = SilencedSegments(b)
          /\ overlap' = SilencedOverlap(b)
          /\ UNCHANGED segmentOffset
     ELSE UNCHANGED device
  /\ UNCHANGED <<stream, call, cursor, output>>

-----------------------------------------------------------------------------
(* processInternal of block b on the piece of the chunk that starts at     *)
(* sample from.                                                            *)

(* The spectra of the older input, each filtered by its later segment of   *)
(* the impulse response.                                                   *)
Ring(b, i) ==
  fourierInputSegments[SegmentBase(b)
                       + ((segmentOffset[b] + i) % params.segments_count)]

History(b) ==
  MapThenFoldSet(Plus, Silence,
                 LAMBDA i : Convolved(Ring(b, i), responses[b][i]),
                 LAMBDA S : CHOOSE i \in S : TRUE,
                 1 .. params.segments_count - 1)

Completes(b, size) ==
  segmentZeroSamples[b] + size = params.input_samples_per_iteration

(* The iteration begins with this piece and does not end with it, so the   *)
(* history, which the later pieces do not add, goes to the overlap.        *)
OpensNever(b, size) == FALSE   \* mutant
Opens(b, size) ==
  /\ segmentZeroSamples[b] = 0
  /\ params.segments_count > 1
  /\ size # params.input_samples_per_iteration

(* The input segment of the iteration, with this piece in its place.       *)
SegmentWith(b, loaded) ==
  IF segmentZeroSamples[b] = 0 THEN loaded
  ELSE Plus(fourierInputSegments[SegmentBase(b) + segmentOffset[b]], loaded)

(* The ring moves on when an iteration is complete. *)
OffsetBelow(b) == segmentOffset[b] - 1   \* mutants: no wrapping around
OffsetAbove(b) == segmentOffset[b] + 1
NextOffset(b) ==
  (segmentOffset[b] - 1 + params.segments_count) % params.segments_count

ProcessInternal(b, from, size) ==
  LET zero     == segmentZeroSamples[b]
      loaded   == LoadChecked([n \in 0 .. size - 1 |-> InputSample(b, from + n)],
                              size, zero)
      history  == IF zero = 0 THEN History(b) ELSE Silence
      segment  == SegmentWith(b, loaded)
      result   == Plus(history, Convolved(segment, responses[b][0]))
      (* overlap[i], with the history beyond this piece added to it once   *)
      Over(i)  == overlap[OverlapBase(b) + i]
                  + IF Opens(b, size) /\ i >= size THEN history[i] ELSE 0
      (* what the iteration leaves for the next one                        *)
      Left(i)  == LET n == i + params.input_samples_per_iteration
                  IN  (IF n < params.overlap_length THEN Over(n) ELSE 0)
                      + (IF n \in Points THEN result[n] ELSE 0)
  IN  /\ fourierInputSegments' =
           IF zero # 0 \/ params.segments_count > 1
                       \/ size # params.input_samples_per_iteration
           THEN [fourierInputSegments EXCEPT
                   ![SegmentBase(b) + segmentOffset[b]] = segment]
           ELSE fourierInputSegments
      /\ overlap' = [j \in DOMAIN overlap |->
           LET i == j - OverlapBase(b)
           IN  IF i \in 0 .. params.overlap_length - 1
               THEN IF Completes(b, size) THEN Left(i) ELSE Over(i)
               ELSE overlap[j]]
      /\ segmentOffset' =
           IF Completes(b, size)
           THEN [segmentOffset EXCEPT ![b] = NextOffset(b)]
           ELSE segmentOffset
      /\ segmentZeroSamples' = [segmentZeroSamples EXCEPT ![b] =
           Remainder(zero + size, params.input_samples_per_iteration)]
      /\ output' = [output EXCEPT ![b] =
           [i \in DOMAIN @ \cup from .. from + size - 1 |->
              IF i \notin from .. from + size - 1 THEN @[i]
              ELSE result[zero + i - from]
                   + IF zero + i - from < params.overlap_length
                     THEN Over(zero + i - from) ELSE 0]]
      /\ UNCHANGED responses

-----------------------------------------------------------------------------
(* process: fill up the iteration the last call left open, ...             *)

CallOffsetNone == 0   \* mutant
CallOffset == call * params.grain

Remaining == params.input_length - call * params.grain

FirstPiece(b) ==
  AtMost(Remaining,
         AtMost(params.grain, params.input_samples_per_iteration - segmentZeroSamples[b]))

ProcessFirst(b) ==
  /\ pc[b] = "first"
  /\ pc' = [pc EXCEPT ![b] = "loop"]
  /\ IF segmentZeroSamples[b] # 0
     THEN /\ ProcessInternal(b, CallOffset, FirstPiece(b))
          /\ cursor' = [cursor EXCEPT ![b] = FirstPiece(b)]
     ELSE /\ cursor' = [cursor EXCEPT ![b] = 0]
          /\ UNCHANGED <<device, output>>
  /\ UNCHANGED <<stream, call>>

(* ... then process the rest of the grain in iterations.                   *)
LoopPieceIgnoringCursor(b) ==   \* mutant
  AtMost(AtMost(Remaining, params.grain), params.input_samples_per_iteration)
LoopPiece(b) ==
  AtMost(AtMost(Remaining, params.grain) - cursor[b], params.input_samples_per_iteration)

AdvanceByPiece(b) == LoopPiece(b)   \* mutant
Advance(b) == params.input_samples_per_iteration

ProcessLoop(b) ==
  /\ pc[b] = "loop"
  /\ cursor[b] < params.grain
  /\ ProcessInternal(b, CallOffset + cursor[b], LoopPiece(b))
  /\ cursor' = [cursor EXCEPT ![b] = @ + Advance(b)]
  /\ UNCHANGED <<stream, call, pc>>

(* The next call starts when all blocks have left this one.                *)
CallDone == \A b \in Blocks : pc[b] = "loop" /\ cursor[b] >= params.grain

EndCall ==
  /\ CallDone
  /\ IF call + 1 < params.num_calls
     THEN call' = call + 1 /\ pc' = [b \in Blocks |-> "begin"]
     ELSE call' = call /\ pc' = [b \in Blocks |-> "idle"]
  /\ UNCHANGED <<stream, cursor, device, output>>

-----------------------------------------------------------------------------
BlockStep(b) == InitFilter(b) \/ ProcessFirst(b) \/ ProcessLoop(b)

Next ==
  \/ \E c \in Configs : LaunchInit(c) \/ LaunchNext(c)
  \/ EndCall
  \/ \E b \in Blocks : BlockStep(b)

Spec == Init /\ [][Next]_vars

(* The GPU runs every block of a launched call, and then the next call.    *)
Fairness == WF_vars(EndCall) /\ \A b \in Blocks : WF_vars(BlockStep(b))

FairSpec == Spec /\ Fairness

-----------------------------------------------------------------------------
(* Properties                                                              *)

(* Samples of the stream the blocks have consumed before this chunk's      *)
(* sample i.                                                               *)
StreamTime(i) == start + i

Signals == [Points -> Nat]

(* Every variable keeps its type; spectra have one value per point.        *)
TypeOK ==
  /\ config \in Configs
  /\ call \in 0 .. params.num_calls - 1
  /\ pc \in [Blocks -> {"idle", "begin", "first", "loop"}]
  /\ cursor \in [Blocks -> Nat]
  /\ segmentOffset \in [Blocks -> Nat]
  /\ segmentZeroSamples \in [Blocks -> Nat]
  /\ \A i \in DOMAIN fourierInputSegments : fourierInputSegments[i] \in Signals
  /\ \A i \in DOMAIN overlap : overlap[i] \in Nat
  /\ \A b \in Blocks : \A i \in DOMAIN responses[b] : responses[b][i] \in Signals
  /\ start \in Nat /\ inits \in 0 .. MaxInits
  /\ impulse \in Blocks \X Nat /\ tap \in Nat

(* What a linear filter makes of this stream, in channel b at time t.      *)
Expected(b, t) == IF <<b, t>> = <<impulse[1], impulse[2] + tap>> THEN 1 ELSE 0

(* The output of every chunk is the convolution of the whole stream so far *)
(* with the filter, however the stream is cut into chunks, calls, pieces   *)
(* and iterations, and nothing of one channel is heard in another.         *)
OutputIsConvolution ==
  inits > 0 /\ Idle =>
    \A b \in Blocks :
      output[b] = [i \in 0 .. params.input_length - 1 |-> Expected(b, StreamTime(i))]

(* A sample of the output is written once: its calls and pieces neither    *)
(* overlap nor go back.                                                    *)
WrittenOnce ==
  [][~Idle => \A b \in Blocks : \A i \in DOMAIN output[b] :
                i \in DOMAIN output'[b] /\ output'[b][i] = output[b][i]]_vars

(* The place of a block in its iteration, _segmentZeroSamples, "samples as *)
(* overlaps from last iteration", is the time of the stream: pieces that   *)
(* only fill up an iteration are neither skipped nor counted twice, and    *)
(* none takes the block back.  One does if a chunk ends before its last    *)
(* call begins (MCFirDeviceShortChunk.cfg).                                *)
PositionIsStreamTime ==
  inits > 0 /\ Idle =>
    \E offset \in OffsetsFor(config) : \A b \in Blocks :
      segmentZeroSamples[b] =
        (offset + StreamTime(params.input_length)) % params.input_samples_per_iteration

(* _segmentOffset "points to the last input segment": a segment of the     *)
(* ring of this block, in every piece it processes.                        *)
OffsetInRing ==
  \A b \in Blocks :
    pc[b] \in {"first", "loop"} => segmentOffset[b] < params.segments_count

(* Every launched chunk is processed to its end. *)
LaunchCompletes == ~Idle ~> Idle

(* What one block does with its input, seen from outside; the translation  *)
(* of the filter belongs to its launch.                                    *)
Translates == params.filter_length_to_translate_init # 0 /\ call = 0

Pieces(b) ==
  INSTANCE FirPieces WITH
    call   <- IF inits = 0 THEN params.num_calls ELSE call,
    phase  <- IF pc[b] = "begin" THEN "first" ELSE pc[b],
    cursor <- IF pc[b] = "loop" THEN cursor[b] ELSE 0,
    segmentOffset <- segmentOffset[b],
    segmentZeroSamples <- IF pc[b] = "begin" /\ Translates
                          THEN params.init_buffer_offset
                                 % params.input_samples_per_iteration
                          ELSE segmentZeroSamples[b]

(* Every block takes its pieces one by one, whatever the others do.        *)
BlocksTakePieces ==
  /\ \A b \in Blocks : Pieces(b)!Init
  /\ [][\A b \in Blocks : UNCHANGED Pieces(b)!vars \/ Pieces(b)!Next]_vars
=============================================================================
