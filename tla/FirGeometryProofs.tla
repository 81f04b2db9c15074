-------------------------- MODULE FirGeometryProofs --------------------------
(* What the device relies on in the host's arithmetic, for every length of *)
(* filter, every buffer and every length of transform.                     *)
EXTENDS FirGeometry, TLAPS

(* Division rounds up: the last of DivUp(a, b) pieces of b is not empty,   *)
(* and together they hold a.                                               *)
LEMMA DivUpCovers ==
  ASSUME NEW a \in Nat \ {0}, NEW b \in Nat \ {0}
  PROVE  /\ DivUp(a, b) \in Nat \ {0}
         /\ DivUp(a, b) * b >= a
         /\ (DivUp(a, b) - 1) * b < a
<1> DEFINE q == DivUp(a, b)
           r == (a + b - 1) % b
<1>1. q \in Int /\ r \in 0 .. b - 1 /\ a + b - 1 = b * q + r
  BY SMT DEF DivUp
<1> HIDE DEF q, r
<1>2. q >= 1
  BY <1>1, SMT
<1>3. q * b = b * q /\ (q - 1) * b = b * q - b
  BY <1>1, SMT
<1> QED
  BY <1>1, <1>2, <1>3, SMT DEF q

(* The samples of an iteration that are there are never negative, and of   *)
(* those the device's remainder is the usual one.                          *)
LEMMA RemainderOfNat ==
  ASSUME NEW a \in Nat, NEW b \in Nat \ {0}
  PROVE  Remainder(a, b) = a % b
  BY SMT DEF Remainder

LEMMA RemainderIsInt ==
  ASSUME NEW a \in Int, NEW b \in Nat \ {0}
  PROVE  Remainder(a, b) \in Int
<1>1. CASE a >= 0
  BY <1>1, SMT DEF Remainder
<1>2. CASE a < 0
  <2>1. -a \in Nat /\ ~(a >= 0)
    BY <1>2, SMT
  <2>2. (-a) % b \in Int
    BY <2>1, SMT
  <2> QED
    BY <2>1, <2>2, SMT DEF Remainder
<1> QED
  BY <1>1, <1>2, SMT

(* Every length of filter gives segments, iterations and overlaps of sizes *)
(* the device can work with.                                               *)
LEMMA GeometryTypes ==
  ASSUME NEW L \in Nat \ {0}, NEW grain \in 0 .. FftLength
  PROVE  /\ FirSamplesPerSegment(L) \in 1 .. FftLength
         /\ InputSizePerIteration(L, grain) \in FftLength .. 2 * FftLength - 1
         /\ SegmentCount(L) \in Nat \ {0}
         /\ OverlapLength(L) \in 1 .. 2 * FftLength
<1>1. FirSamplesPerSegment(L) \in 1 .. FftLength
  BY FftLengthAssumption, SMT DEF FirSamplesPerSegment
<1>2. InputSizePerIteration(L, grain) \in FftLength .. 2 * FftLength - 1
  BY FftLengthAssumption, SMT DEF InputSizePerIteration, AtLeast
<1>3. SegmentCount(L) \in Nat \ {0}
  BY <1>1, DivUpCovers, SMT DEF SegmentCount
<1>4. OverlapLength(L) \in 1 .. 2 * FftLength
  BY FftLengthAssumption, SMT DEF OverlapLength, AtMost
<1> QED
  BY <1>1, <1>2, <1>3, <1>4

(* Circular convolution does not wrap around: an iteration of the input    *)
(* and a segment of the filter always fill the transform exactly.  The     *)
(* grain never makes the iteration longer, whatever the max in             *)
(* UpdateFilterCoefficients suggests.                                      *)
THEOREM NoAliasing ==
  ASSUME NEW L \in Nat \ {0}, NEW grain \in 0 .. FftLength
  PROVE  InputSizePerIteration(L, grain) + FirSamplesPerSegment(L) = 2 * FftLength
  BY FftLengthAssumption, SMT DEF InputSizePerIteration, FirSamplesPerSegment, AtLeast

(* init(context, params) translates exactly segments_count segments: they  *)
(* hold the whole filter and none of them is empty.                        *)
THEOREM SegmentsCoverFilter ==
  ASSUME NEW L \in Nat \ {0}
  PROVE  /\ SegmentCount(L) * FirSamplesPerSegment(L) >= L
         /\ (SegmentCount(L) - 1) * FirSamplesPerSegment(L) < L
<1>1. FirSamplesPerSegment(L) \in Nat \ {0}
  BY FftLengthAssumption, SMT DEF FirSamplesPerSegment
<1> QED
  BY <1>1, DivUpCovers DEF SegmentCount

(* The calls of a launch reach the end of the buffer, and the last begins  *)
(* inside it.                                                              *)
THEOREM CallsCoverBuffer ==
  ASSUME NEW capacity \in Nat \ {0}
  PROVE  LET grain == GrainFor(capacity)
         IN  /\ NumCalls(capacity, grain) * grain >= capacity
             /\ (NumCalls(capacity, grain) - 1) * grain < capacity
<1>1. GrainFor(capacity) \in Nat \ {0}
  BY FftLengthAssumption, SMT DEF GrainFor, AtMost
<1> QED
  BY <1>1, DivUpCovers DEF NumCalls

(* A call never holds more than one iteration, and what an iteration and a *)
(* segment make beyond the samples it returns fits the overlap.            *)
THEOREM GrainFitsIteration ==
  ASSUME NEW L \in Nat \ {0}, NEW capacity \in Nat \ {0}
  PROVE  LET grain == GrainFor(capacity)
         IN  /\ grain <= InputSizePerIteration(L, grain)
             /\ 2 * FftLength - InputSizePerIteration(L, grain) <= OverlapLength(L)
  BY FftLengthAssumption, SMT
     DEF GrainFor, InputSizePerIteration, OverlapLength, AtMost, AtLeast

(* Every channel has room and is aligned: its spectra lie inside its part  *)
(* of the shared segments, its samples inside its part of the raw response,*)
(* both parts begin at a multiple of 128 bytes, and less than one alignment*)
(* of each is left unused (FirProcessor.cpp).                              *)
THEOREM StepsHoldChannel ==
  ASSUME NEW L \in Nat \ {0}
  PROVE  /\ SegmentStep(L) >= SegmentBytes(L)
         /\ SegmentStep(L) < SegmentBytes(L) + 128
         /\ SegmentStep(L) % 128 = 0
         /\ RawStep(L) >= L * SampleBytes
         /\ RawStep(L) < L * SampleBytes + 128
         /\ RawStep(L) % 128 = 0
<1>1. SegmentBytes(L) \in Nat \ {0}
  <2>1. SegmentCount(L) \in Nat \ {0} /\ FftLength \in Nat \ {0}
    BY GeometryTypes, FftLengthAssumption, SMT
  <2> QED
    BY <2>1, SMT DEF SegmentBytes, SpectrumBytes
<1>2. L * SampleBytes \in Nat \ {0}
  BY SMT DEF SampleBytes
<1>3. ASSUME NEW bytes \in Nat \ {0}
      PROVE  /\ Align(bytes, 128) >= bytes /\ Align(bytes, 128) < bytes + 128
             /\ Align(bytes, 128) % 128 = 0
  <2>1. /\ DivUp(bytes, 128) \in Nat \ {0}
        /\ DivUp(bytes, 128) * 128 >= bytes /\ (DivUp(bytes, 128) - 1) * 128 < bytes
    BY DivUpCovers, 128 \in Nat \ {0}
  <2> QED
    BY <2>1, SMT DEF Align
<1> QED
  BY <1>1, <1>2, <1>3 DEF SegmentStep, RawStep
=============================================================================
