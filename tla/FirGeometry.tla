----------------------------- MODULE FirGeometry -----------------------------
(***************************************************************************)
(* The arithmetic by which the host splits a filter into segments, the     *)
(* input into iterations and a buffer into calls.  It is evaluated in      *)
(* FirProcessor::UpdateFilterCoefficients and FirProcessor::Connect, its   *)
(* results travel to the device in fir::ProcessorParameter, and the sizes  *)
(* of all GPU buffers are products of it.                                  *)
(*                                                                         *)
(* FftLength is FftParameters::config::fft_length (2048, or 1024 on Mac);  *)
(* every transform has twice that many points.                             *)
(***************************************************************************)
EXTENDS Integers

CONSTANT FftLength

ASSUME FftLengthAssumption ==
  /\ FftLength \in Nat \ {0}
  /\ FftLength % 4 = 0

DivUp(a, b) == (a + b - 1) \div b
Align(a, b) == DivUp(a, b) * b

AtMost(a, b)  == IF a <= b THEN a ELSE b
AtLeast(a, b) == IF a >= b THEN a ELSE b

(* The device's a % b of two ints, which takes the sign of a.              *)
Remainder(a, b) == IF a >= 0 THEN a % b ELSE -((-a) % b)

FftLengthQuarter == FftLength \div 4
SampleBytes      == 4
SpectrumBytes    == 8     \* one complex bin

-----------------------------------------------------------------------------
(* L is the length of the current filter, grain the samples of one call.   *)

GrainUnbounded(samples) == samples   \* mutant
GrainFor(samples) == AtMost(samples, FftLength)

FirSamplesPerSegment(L) == IF L < FftLength THEN L ELSE FftLength

InputSizePerIteration(L, grain) ==
  IF L < FftLength THEN AtLeast(grain, 2 * FftLength - L) ELSE FftLength

SegmentCount(L) == DivUp(L, FirSamplesPerSegment(L))

OverlapLength(L) == AtMost(L, 2 * FftLength)

NumCalls(samples, grain) == DivUp(samples, grain)

(* Short grains start at a random place in the iteration, so that not all  *)
(* processors complete their iterations in the same launch.  The product   *)
(* is a uint32; its wrapping only makes another number of a random one.    *)
InitOffsets(L, grain, rands) ==
  IF grain < FftLengthQuarter
  THEN {(grain * r) % InputSizePerIteration(L, grain) : r \in rands}
  ELSE {0}

(* What the device is told with a chunk that translates no filter, for a   *)
(* buffer of capacity samples with size samples in it.                     *)
LaunchParameters(L, capacity, size) ==
  LET grain == GrainFor(capacity)
  IN  [segments_count              |-> SegmentCount(L),
       input_samples_per_iteration |-> InputSizePerIteration(L, grain),
       fir_samples_per_iteration   |-> FirSamplesPerSegment(L),
       overlap_length              |-> OverlapLength(L),
       input_length                |-> size,
       grain                       |-> grain,
       filter_length_to_translate_init |-> 0,
       init_buffer_offset          |-> 0,
       num_calls                   |-> NumCalls(capacity, grain)]

(* Bytes of the buffers that belong to one processor ...                   *)
InputSegmentsBytes(L, channels) ==
  SegmentCount(L) * FftLength * channels * SpectrumBytes

OverlapBytes(L, channels) == OverlapLength(L) * channels * SampleBytes

(* ... and of one channel of the two that processors share.                *)
RawStep(L)      == Align(L * SampleBytes, 128)
SegmentBytes(L) == SegmentCount(L) * FftLength * SpectrumBytes
SegmentStep(L)  == Align(SegmentBytes(L), 128)
=============================================================================
