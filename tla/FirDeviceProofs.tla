---------------------------- MODULE FirDeviceProofs ----------------------------
(***************************************************************************)
(* The device, for any filters, buffers and numbers of channels.           *)
(*                                                                         *)
(* First where it is: its position in the iteration is the time of the     *)
(* stream, its pieces are portions of the input, its offset stays in the   *)
(* ring, and it writes every sample once.  Then what it makes of its       *)
(* input: spectra are sums of pulses, a piece keeps what the block         *)
(* remembers of its stream, and so the output is the convolution.          *)
(*                                                                         *)
(* Each theorem names the launches for which it holds; for others the code *)
(* does otherwise.                                                         *)
(***************************************************************************)
EXTENDS FirDevice, FirGeometryProofs, FiniteSetTheorems, WellFoundedInduction

ReachLastCall ==
  \A c \in Configs :
    LET grain == GrainFor(c.capacity)
    IN  c.size > (NumCalls(c.capacity, grain) - 1) * grain

EqualSegments ==
  \A c, d \in Configs : SegmentCount(c.length) = SegmentCount(d.length)

-----------------------------------------------------------------------------
(* The inductive invariant                                                 *)

(* The parameters of a launch are those of its configuration.              *)
Launched ==
  /\ config \in Configs
  /\ params.segments_count = SegmentCount(config.length)
  /\ params.grain = GrainFor(config.capacity)
  /\ params.input_samples_per_iteration = InputSizePerIteration(config.length, params.grain)
  /\ params.input_length = config.size
  /\ params.num_calls = NumCalls(config.capacity, params.grain)
  /\ start \in Nat /\ call \in 0 .. params.num_calls - 1
  /\ params.filter_length_to_translate_init # 0 =>
       start = 0 /\ params.init_buffer_offset \in OffsetsFor(config)

(* After time samples of a stream that began at origin, the block is in    *)
(* the iteration that holds that sample.                                   *)
Located(origin, b, time) ==
  /\ segmentZeroSamples[b] \in 0 .. params.input_samples_per_iteration - 1
  /\ \E q \in Nat : origin + time =
       q * params.input_samples_per_iteration + segmentZeroSamples[b]

Present == AtMost(Remaining, params.grain)

(* Where block b is.  In the loop it has consumed cursor samples or, after *)
(* the last piece, all that are present.                                   *)
BlockAt(origin, b) ==
  /\ pc[b] = "idle" /\ inits > 0 => Located(origin, b, start + params.input_length)
  /\ pc[b] = "begin" =>
       IF Translates THEN origin = params.init_buffer_offset
       ELSE Located(origin, b, start + CallOffset)
  /\ pc[b] = "first" => Located(origin, b, start + CallOffset)
  /\ pc[b] = "loop" =>
       /\ cursor[b] \in Nat
       /\ Located(origin, b, start + CallOffset + AtMost(cursor[b], Present))
       /\ cursor[b] < params.grain =>
            cursor[b] <= Present /\ (segmentZeroSamples[b] = 0 \/ cursor[b] = Present)

Positions == inits > 0 =>
  \E origin \in OffsetsFor(config) : \A b \in Blocks : BlockAt(origin, b)

(* Blocks are idle, or none of them is.                                    *)
Together ==
  /\ pc \in [Blocks -> {"idle", "begin", "first", "loop"}]
  /\ inits \in Nat
  /\ segmentZeroSamples \in [Blocks -> Int] /\ cursor \in [Blocks -> Int]
  /\ \A b, d \in Blocks : pc[b] = "idle" => pc[d] = "idle"
  /\ inits = 0 => Idle

IInv == Launched /\ Together /\ Positions

-----------------------------------------------------------------------------
(* Arithmetic                                                              *)

LEMMA ModAtMost ==
  ASSUME NEW m \in Nat \ {0}, NEW a \in 0 .. m
  PROVE  a % m = IF a = m THEN 0 ELSE a
<1>1. CASE a = m
  <2> DEFINE q == a \div m
             r == a % m
  <2>1. q \in Int /\ r \in 0 .. m - 1 /\ a = m * q + r
    BY SMT
  <2> HIDE DEF q, r
  <2>2. q = 1
    <3>1. CASE q <= 0
      BY <1>1, <2>1, <3>1, m * q <= 0, SMT
    <3>2. CASE q >= 2
      BY <1>1, <2>1, <3>2, m * q >= m * 2, SMT
    <3> QED
      BY <2>1, <3>1, <3>2, SMT
  <2> QED
    BY <1>1, <2>1, <2>2, SMT DEF r
<1>2. CASE a # m
  BY <1>2, SMT
<1> QED
  BY <1>1, <1>2

(* A position is determined by the time.                                   *)
LEMMA ModUnique ==
  ASSUME NEW m \in Nat \ {0}, NEW q \in Nat, NEW z \in 0 .. m - 1
  PROVE  (q * m + z) % m = z
<1> DEFINE x == q * m + z
           d == x \div m
           r == x % m
<1>1. x \in Nat
  BY SMT
<1>2. d \in Int /\ r \in 0 .. m - 1 /\ x = m * d + r
  BY <1>1, SMT
<1> HIDE DEF d, r
<1>3. m * (q - d) = r - z
  BY <1>2, SMT
<1>4. CASE q - d >= 1
  BY <1>2, <1>3, <1>4, m * (q - d) >= m, SMT
<1>5. CASE q - d <= -1
  BY <1>2, <1>3, <1>5, m * (q - d) <= -m, SMT
<1>6. CASE q = d
  BY <1>3, <1>2, <1>6, SMT DEF r
<1> QED
  BY <1>2, <1>4, <1>5, <1>6, SMT

(* A piece moves the position as far as the time.                          *)
LEMMA PieceMoves ==
  ASSUME NEW m \in Nat \ {0}, NEW z \in 0 .. m - 1, NEW p \in Nat, z + p <= m,
         NEW x \in Int, \E q \in Nat : x = q * m + z
  PROVE  /\ (z + p) % m \in 0 .. m - 1
         /\ \E q \in Nat : x + p = q * m + ((z + p) % m)
<1> DEFINE y == (z + p) % m
<1>1. y = IF z + p = m THEN 0 ELSE z + p
  <2>1. z + p \in 0 .. m
    BY SMT
  <2> QED
    BY <2>1, ModAtMost
<1> HIDE DEF y
<1>2. PICK q \in Nat : x = q * m + z
  OBVIOUS
<1>3. (q + 1) * m = q * m + m
  BY SMT
<1>4. CASE z + p = m
  <2>1. x + p = (q + 1) * m + y /\ q + 1 \in Nat /\ y \in 0 .. m - 1
    BY <1>1, <1>2, <1>3, <1>4, SMT
  <2> QED
    BY <2>1 DEF y
<1>5. CASE z + p # m
  <2>1. x + p = q * m + y /\ y \in 0 .. m - 1
    BY <1>1, <1>2, <1>5, SMT
  <2> QED
    BY <2>1 DEF y
<1> QED
  BY <1>4, <1>5

-----------------------------------------------------------------------------
(* What the parameters of a launch amount to.                              *)
LEMMA LaunchedTypes ==
  ASSUME Launched
  PROVE  /\ params.grain \in Nat \ {0}
         /\ params.input_samples_per_iteration \in Nat \ {0}
         /\ params.grain <= params.input_samples_per_iteration
         /\ params.segments_count \in Nat \ {0}
         /\ params.num_calls \in Nat \ {0} /\ params.input_length \in Nat \ {0}
         /\ call \in Nat /\ start \in Nat /\ CallOffset \in Nat
<1> DEFINE L == config.length
           capacity == config.capacity
<1>1. L \in Nat \ {0} /\ capacity \in Nat \ {0} /\ config.size \in Nat \ {0}
  BY ConfigsAssumption DEF Launched
<1>2. params.grain \in 1 .. FftLength
  BY <1>1, FftLengthAssumption, SMT DEF Launched, GrainFor, AtMost
<1>3. /\ params.input_samples_per_iteration \in Nat \ {0}
      /\ params.segments_count \in Nat \ {0}
  <2>1. /\ InputSizePerIteration(L, params.grain) \in FftLength .. 2 * FftLength - 1
        /\ SegmentCount(L) \in Nat \ {0}
    <3>1. params.grain \in 0 .. FftLength
      BY <1>2, FftLengthAssumption
    <3> QED
      BY <1>1, <3>1, GeometryTypes
  <2> QED
    BY <2>1, FftLengthAssumption, SMT DEF Launched
<1>4. params.grain <= params.input_samples_per_iteration
  BY <1>1, GrainFitsIteration DEF Launched
<1>5. params.num_calls \in Nat \ {0}
  BY <1>1, <1>2, DivUpCovers, SMT DEF Launched, NumCalls
<1>6. call \in Nat /\ CallOffset \in Nat
  BY <1>2, <1>5, SMT DEF Launched, CallOffset
<1> QED
  BY <1>1, <1>2, <1>3, <1>4, <1>5, <1>6, SMT DEF Launched

(* The calls of a launch divide the chunk: each begins inside it, and the  *)
(* last one reaches its end.                                               *)
LEMMA CallsDivideChunk ==
  ASSUME Launched, ReachLastCall
  PROVE  /\ CallOffset < params.input_length
         /\ call + 1 < params.num_calls => CallOffset + params.grain < params.input_length
         /\ call + 1 = params.num_calls => params.input_length <= CallOffset + params.grain
<1> DEFINE g == params.grain
           n == params.num_calls
           len == params.input_length
<1>1. g \in Nat \ {0} /\ n \in Nat \ {0} /\ len \in Nat \ {0} /\ call \in 0 .. n - 1
  BY LaunchedTypes DEF Launched
<1>2. len > (n - 1) * g
  BY DEF Launched, ReachLastCall
<1>3. n * g >= len
  <2>1. config.capacity \in Nat \ {0} /\ len <= config.capacity
    BY ConfigsAssumption DEF Launched
  <2>2. n * g >= config.capacity
    BY <2>1, CallsCoverBuffer DEF Launched
  <2> QED
    BY <1>1, <2>1, <2>2, SMT
<1>4. CallOffset = call * g
  BY DEF CallOffset
<1> HIDE DEF g, n, len
<1>5. call * g <= (n - 1) * g
  BY <1>1, SMT
<1>6. call + 1 < n => (call + 1) * g <= (n - 1) * g
  BY <1>1, SMT
<1>7. (call + 1) * g = call * g + g
  BY <1>1, SMT
<1> QED
  BY <1>1, <1>2, <1>3, <1>4, <1>5, <1>6, <1>7, SMT DEF g, n, len

(* A stream begins at a place in its first iteration.                      *)
LEMMA OriginInIteration ==
  ASSUME Launched, NEW origin \in OffsetsFor(config)
  PROVE  origin \in 0 .. params.input_samples_per_iteration - 1
<1>1. params.grain \in Nat \ {0} /\ params.input_samples_per_iteration \in Nat \ {0}
  BY LaunchedTypes
<1>2. \A r \in Rands : params.grain * r \in Nat
  BY <1>1, ConfigsAssumption, SMT
<1>3. \A r \in Rands : (params.grain * r) % params.input_samples_per_iteration
                         \in 0 .. params.input_samples_per_iteration - 1
  BY <1>1, <1>2, SMT
<1> QED
  BY <1>1, <1>3, SMT DEF Launched, OffsetsFor, InitOffsets

-----------------------------------------------------------------------------
(* Of what a piece does, the position is all that counts here.             *)
LEMMA PositionOfPiece ==
  ASSUME NEW b \in Blocks, NEW from, NEW size, ProcessInternal(b, from, size)
  PROVE  /\ segmentZeroSamples' = [segmentZeroSamples EXCEPT ![b] =
              Remainder(segmentZeroSamples[b] + size, params.input_samples_per_iteration)]
         /\ segmentOffset' = IF Completes(b, size)
              THEN [segmentOffset EXCEPT ![b] = NextOffset(b)] ELSE segmentOffset
  BY DEF ProcessInternal

(* A piece that is not negative moves it forward.                          *)
LEMMA PositionOfPortion ==
  ASSUME NEW b \in Blocks, NEW from, NEW size \in Nat, ProcessInternal(b, from, size),
         segmentZeroSamples[b] \in Nat, params.input_samples_per_iteration \in Nat \ {0}
  PROVE  segmentZeroSamples' = [segmentZeroSamples EXCEPT ![b] =
           (segmentZeroSamples[b] + size) % params.input_samples_per_iteration]
<1>1. segmentZeroSamples[b] + size \in Nat
  BY SMT
<1> QED
  BY <1>1, PositionOfPiece, RemainderOfNat

(* A block that moves leaves the others where they are.                    *)
LEMMA OneBlockMoves ==
  ASSUME IInv, NEW b \in Blocks, pc[b] # "idle", UNCHANGED <<stream, call>>,
         NEW p \in {"first", "loop"}, pc' = [pc EXCEPT ![b] = p],
         NEW c \in Int, cursor' = [cursor EXCEPT ![b] = c],
         NEW z \in Int, segmentZeroSamples' = [segmentZeroSamples EXCEPT ![b] = z],
         \A origin \in OffsetsFor(config) : BlockAt(origin, b) => BlockAt(origin, b)'
  PROVE  IInv'
<1>1. Launched'
  BY DEF IInv, Launched, stream, OffsetsFor
<1>2. Together'
  <2>1. \A d \in Blocks : pc[d] # "idle" /\ pc'[d] # "idle"
    BY DEF IInv, Together
  <2>2. inits # 0
    BY <2>1 DEF IInv, Together, Idle
  <2> QED
    BY <2>1, <2>2 DEF IInv, Together, stream, Idle
<1>3. ASSUME NEW origin \in OffsetsFor(config), NEW d \in Blocks, d # b, BlockAt(origin, d)
      PROVE  BlockAt(origin, d)'
  <2>1. pc'[d] = pc[d] /\ cursor'[d] = cursor[d]
        /\ segmentZeroSamples'[d] = segmentZeroSamples[d]
    BY <1>3 DEF IInv, Together
  <2> QED
    BY <1>3, <2>1 DEF BlockAt, Located, Translates, CallOffset, Present, Remaining, stream
<1>4. Positions'
  BY <1>3 DEF IInv, Positions, stream, OffsetsFor
<1> QED
  BY <1>1, <1>2, <1>4 DEF IInv

LEMMA InitPositions == Init => IInv
<1> SUFFICES ASSUME Init PROVE IInv
  OBVIOUS
<1>1. config \in Configs /\ config.length \in Nat \ {0}
      /\ config.capacity \in Nat \ {0} /\ params = ParametersFor(config)
  BY ConfigsAssumption DEF Init
<1>2. GrainFor(config.capacity) \in Nat \ {0}
  BY <1>1, FftLengthAssumption, SMT DEF GrainFor, AtMost
<1>3. NumCalls(config.capacity, GrainFor(config.capacity)) \in Nat \ {0}
  BY <1>1, <1>2, DivUpCovers DEF NumCalls
<1>4. Launched
  BY <1>1, <1>3, SMT DEF Init, Launched, ParametersFor, LaunchParameters
<1>5. Together /\ Positions
  BY DEF Init, Together, Positions, Idle
<1> QED
  BY <1>4, <1>5 DEF IInv

LEMMA LaunchInitPositions ==
  ASSUME IInv, NEW c \in Configs, LaunchInit(c)
  PROVE  IInv'
<1>1. c.length \in Nat \ {0} /\ c.capacity \in Nat \ {0}
  BY ConfigsAssumption
<1>2. GrainFor(c.capacity) \in Nat \ {0}
  BY <1>1, FftLengthAssumption, SMT DEF GrainFor, AtMost
<1>3. NumCalls(c.capacity, GrainFor(c.capacity)) \in Nat \ {0}
  BY <1>1, <1>2, DivUpCovers DEF NumCalls
<1>4. PICK offset \in OffsetsFor(c) :
        params' = [ParametersFor(c) EXCEPT !.filter_length_to_translate_init = c.length,
                                           !.init_buffer_offset = offset]
  BY DEF LaunchInit
<1>5. config' = c /\ call' = 0 /\ start' = 0 /\ inits' = inits + 1
      /\ pc' = [b \in Blocks |-> "begin"]
      /\ segmentZeroSamples' = segmentZeroSamples /\ cursor' = cursor
  BY DEF LaunchInit, BeginLaunch, device
<1>6. params'.filter_length_to_translate_init # 0 /\ params'.init_buffer_offset = offset
  BY <1>1, <1>4 DEF ParametersFor, LaunchParameters
<1>7. Launched'
  BY <1>3, <1>4, <1>5, SMT DEF Launched, ParametersFor, LaunchParameters, OffsetsFor
<1>8. Together'
  BY <1>5, SMT DEF IInv, Together, Idle
<1>9. Positions'
  BY <1>5, <1>6 DEF Positions, BlockAt, Translates, OffsetsFor
<1> QED
  BY <1>7, <1>8, <1>9 DEF IInv

LEMMA LaunchNextPositions ==
  ASSUME IInv, NEW c \in Configs, LaunchNext(c)
  PROVE  IInv'
<1>1. c.length \in Nat \ {0} /\ c.capacity \in Nat \ {0} /\ c.size \in Nat \ {0}
  BY ConfigsAssumption
<1>2. GrainFor(c.capacity) \in Nat \ {0}
  BY <1>1, FftLengthAssumption, SMT DEF GrainFor, AtMost
<1>3. NumCalls(c.capacity, GrainFor(c.capacity)) \in Nat \ {0}
  BY <1>1, <1>2, DivUpCovers DEF NumCalls
<1>4. config' = c /\ params' = ParametersFor(c) /\ call' = 0
      /\ start' = start + params.input_length /\ inits' = inits /\ inits > 0
      /\ pc' = [b \in Blocks |-> "begin"] /\ Idle
      /\ segmentZeroSamples' = segmentZeroSamples /\ cursor' = cursor
  BY DEF LaunchNext, BeginLaunch, device
<1>5. params'.grain = params.grain /\ OffsetsFor(c) = OffsetsFor(config)
      /\ params'.input_samples_per_iteration = params.input_samples_per_iteration
      /\ params'.filter_length_to_translate_init = 0
  BY <1>4 DEF LaunchNext, IInv, Launched, OffsetsFor, ParametersFor, LaunchParameters
<1>6. start \in Nat /\ params.input_length \in Nat /\ params.grain \in Nat
  BY LaunchedTypes DEF IInv
<1>7. Launched'
  BY <1>3, <1>4, <1>6, SMT DEF Launched, ParametersFor, LaunchParameters
<1>8. Together'
  BY <1>4, SMT DEF IInv, Together, Idle
<1>9. start' + CallOffset' = start + params.input_length
  BY <1>4, <1>5, <1>6, SMT DEF CallOffset
<1>10. ASSUME NEW origin, NEW b \in Blocks, BlockAt(origin, b)
       PROVE  BlockAt(origin, b)'
  BY <1>4, <1>5, <1>9, <1>10 DEF BlockAt, Located, Translates, Idle
<1>11. OffsetsFor(config)' = OffsetsFor(config)
  BY <1>4, <1>5 DEF OffsetsFor
<1>12. Positions'
  BY <1>4, <1>10, <1>11 DEF IInv, Positions
<1> QED
  BY <1>7, <1>8, <1>12 DEF IInv

(* A block that is not idle runs a launch of some stream.                  *)
LEMMA OriginOfRunning ==
  ASSUME IInv, NEW b \in Blocks, pc[b] # "idle"
  PROVE  \E origin \in OffsetsFor(config) : \A d \in Blocks : BlockAt(origin, d)
  <1>1. inits > 0
    BY SMT DEF IInv, Together, Idle
  <1> QED
    BY <1>1 DEF IInv, Positions

LEMMA InitFilterPositions ==
  ASSUME IInv, NEW b \in Blocks, InitFilter(b)
  PROVE  IInv'
<1> DEFINE m == params.input_samples_per_iteration
           z == IF Translates THEN params.init_buffer_offset % m ELSE segmentZeroSamples[b]
<1>1. pc[b] = "begin" /\ pc' = [pc EXCEPT ![b] = "first"] /\ UNCHANGED <<stream, call>>
      /\ cursor' = cursor
  BY DEF InitFilter
<1>2. segmentZeroSamples' = [segmentZeroSamples EXCEPT ![b] = z]
  BY DEF InitFilter, Translates, device, IInv, Together
<1>3. cursor' = [cursor EXCEPT ![b] = cursor[b]] /\ cursor[b] \in Int
      /\ segmentZeroSamples[b] \in Int
  BY <1>1 DEF IInv, Together
<1>4. Launched /\ m \in Nat \ {0} /\ params.grain \in Nat /\ start \in Nat /\ call \in Nat
  BY LaunchedTypes DEF IInv
<1>5. Translates => /\ start + CallOffset = 0
                    /\ params.init_buffer_offset \in 0 .. m - 1
                    /\ z = params.init_buffer_offset
  <2> SUFFICES ASSUME Translates PROVE /\ start + CallOffset = 0
                    /\ params.init_buffer_offset \in 0 .. m - 1
                    /\ z = params.init_buffer_offset
    OBVIOUS
  <2>1. start = 0 /\ call = 0 /\ params.init_buffer_offset \in OffsetsFor(config)
    BY <1>4 DEF Launched, Translates
  <2>2. params.init_buffer_offset \in 0 .. m - 1
    BY <1>4, <2>1, OriginInIteration
  <2>3. start + CallOffset = 0
    BY <1>4, <2>1, SMT DEF CallOffset
  <2> QED
    BY <1>4, <2>2, <2>3, SMT
<1>6. z \in Int
  BY <1>3, <1>5, SMT
<1>7. ASSUME NEW origin \in OffsetsFor(config), BlockAt(origin, b)
      PROVE  BlockAt(origin, b)'
  <2>1. pc'[b] = "first" /\ segmentZeroSamples'[b] = z
        /\ params' = params /\ start' = start /\ CallOffset' = CallOffset
    BY <1>1, <1>2 DEF IInv, Together, stream, CallOffset
  <2>2. CASE Translates
    <3>1. origin = params.init_buffer_offset
      BY <1>1, <1>7, <2>2 DEF BlockAt
    <3>2. start + CallOffset = 0 /\ z = origin /\ origin \in 0 .. m - 1
      BY <1>5, <2>2, <3>1
    <3>3. origin + (start + CallOffset) = 0 * m + z
      BY <1>4, <3>2, SMT
    <3>4. Located(origin, b, start + CallOffset)'
      BY <2>1, <3>2, <3>3 DEF Located
    <3> QED
      BY <2>1, <3>4 DEF BlockAt
  <2>3. CASE ~Translates
    <3>1. Located(origin, b, start + CallOffset) /\ z = segmentZeroSamples[b]
      BY <1>1, <1>7, <2>3 DEF BlockAt
    <3>2. Located(origin, b, start + CallOffset)'
      BY <2>1, <3>1 DEF Located
    <3> QED
      BY <2>1, <3>2 DEF BlockAt
  <2> QED
    BY <2>2, <2>3
<1> QED
  BY <1>1, <1>2, <1>3, <1>6, <1>7, OneBlockMoves

(* Samples are present in every call.                                      *)
LEMMA PresentInCall ==
  ASSUME IInv, ReachLastCall
  PROVE  /\ Remaining \in Nat \ {0} /\ Present \in Nat \ {0} /\ Present <= params.grain
         /\ CallOffset + Remaining = params.input_length
<1>1. Launched /\ params.grain \in Nat \ {0} /\ params.input_length \in Nat \ {0}
      /\ CallOffset \in Nat /\ CallOffset < params.input_length
  BY LaunchedTypes, CallsDivideChunk DEF IInv
<1>2. Remaining = params.input_length - CallOffset
  BY DEF Remaining, CallOffset
<1> QED
  BY <1>1, <1>2, SMT DEF Present, AtMost

(* A piece ends in the iteration and in the samples it begins in; the first *)
(* one fills up its iteration or takes all there is.                       *)
LEMMA FirstPieceFits ==
  ASSUME IInv, ReachLastCall, NEW b \in Blocks, pc[b] = "first",
         NEW p, p = IF segmentZeroSamples[b] # 0 THEN FirstPiece(b) ELSE 0
  PROVE  /\ p \in Nat /\ p <= Present
         /\ segmentZeroSamples[b] \in 0 .. params.input_samples_per_iteration - 1
         /\ segmentZeroSamples[b] + p <= params.input_samples_per_iteration
         /\ segmentZeroSamples[b] # 0 =>
              p = Present \/ segmentZeroSamples[b] + p = params.input_samples_per_iteration
<1>1. PICK origin0 \in OffsetsFor(config) : BlockAt(origin0, b)
  BY OriginOfRunning
<1>2. /\ segmentZeroSamples[b] \in 0 .. params.input_samples_per_iteration - 1
      /\ params.input_samples_per_iteration \in Nat \ {0} /\ params.grain \in Nat \ {0}
      /\ params.grain <= params.input_samples_per_iteration
  BY <1>1, LaunchedTypes DEF IInv, BlockAt, Located
<1>3. Remaining \in Nat \ {0} /\ Present \in Nat \ {0} /\ Present <= params.grain
  BY PresentInCall
<1> QED
  BY <1>2, <1>3, SMT DEF FirstPiece, Present, AtMost

LEMMA LoopPieceFits ==
  ASSUME IInv, ReachLastCall, NEW b \in Blocks, pc[b] = "loop", cursor[b] < params.grain
  PROVE  /\ cursor[b] \in Nat /\ cursor[b] <= Present /\ LoopPiece(b) \in Nat
         /\ segmentZeroSamples[b] \in 0 .. params.input_samples_per_iteration - 1
         /\ segmentZeroSamples[b] = 0 \/ cursor[b] = Present
         /\ segmentZeroSamples[b] + LoopPiece(b) <= params.input_samples_per_iteration
         /\ LET c == cursor[b] + params.input_samples_per_iteration
            IN  /\ c \in Nat /\ c >= params.grain
                /\ AtMost(cursor[b], Present) = cursor[b]
                /\ AtMost(c, Present) = cursor[b] + LoopPiece(b)
<1>1. PICK origin0 \in OffsetsFor(config) : BlockAt(origin0, b)
  BY OriginOfRunning
<1>2. /\ segmentZeroSamples[b] \in 0 .. params.input_samples_per_iteration - 1
      /\ params.input_samples_per_iteration \in Nat \ {0} /\ params.grain \in Nat \ {0}
      /\ params.grain <= params.input_samples_per_iteration
  BY <1>1, LaunchedTypes DEF IInv, BlockAt, Located
<1>3. Remaining \in Nat \ {0} /\ Present \in Nat \ {0} /\ Present <= params.grain
  BY PresentInCall
<1>4. /\ cursor[b] \in Nat /\ cursor[b] <= Present
      /\ segmentZeroSamples[b] = 0 \/ cursor[b] = Present
  BY <1>1 DEF BlockAt
<1>5. LoopPiece(b) = AtMost(Present - cursor[b], params.input_samples_per_iteration)
  BY DEF LoopPiece, Present
<1> HIDE DEF LoopPiece
<1> QED
  BY <1>2, <1>3, <1>4, <1>5, SMT DEF AtMost

LEMMA ProcessFirstPositions ==
  ASSUME IInv, ReachLastCall, NEW b \in Blocks, ProcessFirst(b)
  PROVE  IInv'
<1> DEFINE m == params.input_samples_per_iteration
           zero == segmentZeroSamples[b]
           p == IF zero # 0 THEN FirstPiece(b) ELSE 0
           z == IF zero # 0 THEN (zero + p) % m ELSE zero
<1>1. pc[b] = "first" /\ pc' = [pc EXCEPT ![b] = "loop"] /\ UNCHANGED <<stream, call>>
  BY DEF ProcessFirst
<1>2. cursor' = [cursor EXCEPT ![b] = p]
  BY DEF ProcessFirst
<1>3. PICK origin0 \in OffsetsFor(config) : BlockAt(origin0, b)
  BY <1>1, OriginOfRunning
<1>4. zero \in 0 .. m - 1 /\ m \in Nat \ {0} /\ params.grain \in Nat \ {0}
      /\ params.grain <= m /\ start \in Nat /\ CallOffset \in Nat
  BY <1>1, <1>3, LaunchedTypes DEF IInv, BlockAt, Located
<1>5. Remaining \in Nat \ {0} /\ Present \in Nat \ {0} /\ Present <= params.grain
  BY PresentInCall
<1>6. /\ p \in Nat /\ p <= Present /\ zero + p <= m
      /\ zero # 0 => p = Present \/ zero + p = m
  BY <1>1, FirstPieceFits
<1>7. segmentZeroSamples' = [segmentZeroSamples EXCEPT ![b] = z]
  <2>1. CASE zero # 0
    <3>1. ProcessInternal(b, CallOffset, p) /\ zero \in Nat
      BY <1>4, <2>1, SMT DEF ProcessFirst
    <3> QED
      BY <1>4, <1>6, <2>1, <3>1, PositionOfPortion
  <2>2. CASE zero = 0
    BY <2>2 DEF ProcessFirst, device, IInv, Together
  <2> QED
    BY <2>1, <2>2
<1> HIDE DEF p
<1>8. z \in 0 .. m - 1 /\ (z = 0 \/ p = Present)
  <2>1. CASE zero # 0
    <3>1. zero + p \in 0 .. m
      BY <1>4, <1>6, SMT
    <3>2. (zero + p) % m = IF zero + p = m THEN 0 ELSE zero + p
      BY <1>4, <3>1, ModAtMost
    <3> QED
      BY <1>4, <1>6, <2>1, <3>2, SMT
  <2> QED
    BY <1>4, <2>1
<1>9. ASSUME NEW origin \in OffsetsFor(config), BlockAt(origin, b)
      PROVE  BlockAt(origin, b)'
  <2> DEFINE x == origin + (start + CallOffset)
  <2>1. /\ pc'[b] = "loop" /\ cursor'[b] = p /\ segmentZeroSamples'[b] = z
        /\ params' = params /\ start' = start /\ CallOffset' = CallOffset
        /\ Present' = Present
    BY <1>1, <1>2, <1>7 DEF IInv, Together, stream, CallOffset, Present, Remaining
  <2>2. AtMost(p, Present) = p
    BY <1>6 DEF AtMost
  <2>3. origin \in Int
    BY OriginInIteration DEF IInv
  <2>4. x \in Int /\ \E q \in Nat : x = q * m + zero
    BY <1>1, <1>4, <1>9, <2>3, SMT DEF BlockAt, Located
  <2>5. \E q \in Nat : x + p = q * m + z
    <3>1. CASE zero # 0
      <4>1. z = (zero + p) % m
        BY <3>1
      <4> HIDE DEF x
      <4>2. \E q \in Nat : x + p = q * m + ((zero + p) % m)
        BY <1>4, <1>6, <2>4, PieceMoves
      <4> QED
        BY <4>1, <4>2
    <3>2. CASE zero = 0
      <4>1. p = 0 /\ z = zero /\ x + p = x
        BY <2>4, <3>2, SMT DEF p
      <4> QED
        BY <2>4, <4>1
    <3> QED
      BY <3>1, <3>2
  <2>6. x + p = origin + (start + CallOffset + p)
    BY <1>4, <1>6, <2>3, SMT
  <2>7. Located(origin, b, start + CallOffset + AtMost(cursor[b], Present))'
    <3>1. start' + CallOffset' + AtMost(cursor'[b], Present') = start + CallOffset + p
      BY <2>1, <2>2
    <3> HIDE DEF x, z
    <3> QED
      BY <1>8, <2>1, <2>5, <2>6, <3>1 DEF Located
  <2> QED
    BY <1>6, <1>8, <2>1, <2>7 DEF BlockAt
<1>10. p \in Int /\ z \in Int
  BY <1>6, <1>8, SMT
<1> QED
  BY <1>1, <1>2, <1>7, <1>9, <1>10, OneBlockMoves

LEMMA ProcessLoopPositions ==
  ASSUME IInv, ReachLastCall, NEW b \in Blocks, ProcessLoop(b)
  PROVE  IInv'
<1> DEFINE m == params.input_samples_per_iteration
           zero == segmentZeroSamples[b]
           p == LoopPiece(b)
           z == (zero + p) % m
           c == cursor[b] + m
<1>1. pc[b] = "loop" /\ pc' = pc /\ UNCHANGED <<stream, call>> /\ cursor[b] < params.grain
  BY DEF ProcessLoop
<1>2. cursor' = [cursor EXCEPT ![b] = c]
  BY DEF ProcessLoop, Advance
<1>3. PICK origin0 \in OffsetsFor(config) : BlockAt(origin0, b)
  BY <1>1, OriginOfRunning
<1>4. zero \in 0 .. m - 1 /\ m \in Nat \ {0} /\ params.grain \in Nat \ {0}
      /\ params.grain <= m /\ start \in Nat /\ CallOffset \in Nat
  BY <1>1, <1>3, LaunchedTypes DEF IInv, BlockAt, Located
<1>5. Remaining \in Nat \ {0} /\ Present \in Nat \ {0} /\ Present <= params.grain
  BY PresentInCall
<1>6. cursor[b] \in Nat /\ cursor[b] <= Present /\ (zero = 0 \/ cursor[b] = Present)
  BY <1>1, LoopPieceFits
<1>7. /\ p \in Nat /\ zero + p <= m /\ c \in Nat /\ c >= params.grain
      /\ AtMost(cursor[b], Present) = cursor[b]
      /\ AtMost(c, Present) = cursor[b] + p
  BY <1>1, LoopPieceFits
<1>8. segmentZeroSamples' = [segmentZeroSamples EXCEPT ![b] = z]
  <2>1. ProcessInternal(b, CallOffset + cursor[b], p) /\ zero \in Nat
    BY <1>4, SMT DEF ProcessLoop
  <2> QED
    BY <1>4, <1>7, <2>1, PositionOfPortion
<1> HIDE DEF p
<1>9. ASSUME NEW origin \in OffsetsFor(config), BlockAt(origin, b)
       PROVE  BlockAt(origin, b)'
  <2> DEFINE x == origin + (start + CallOffset + cursor[b])
  <2>1. /\ pc'[b] = "loop" /\ cursor'[b] = c /\ segmentZeroSamples'[b] = z
        /\ params' = params /\ start' = start /\ CallOffset' = CallOffset
        /\ Present' = Present
    BY <1>1, <1>2, <1>8 DEF IInv, Together, stream, CallOffset, Present, Remaining
  <2>2. origin \in Int
    BY OriginInIteration DEF IInv
  <2>3. x \in Int /\ \E q \in Nat : x = q * m + zero
    BY <1>1, <1>4, <1>6, <1>7, <1>9, <2>2, SMT DEF BlockAt, Located
  <2>4. z \in 0 .. m - 1 /\ \E q \in Nat : x + p = q * m + z
    BY <1>4, <1>7, <2>3, PieceMoves
  <2>5. x + p = origin + (start + CallOffset + AtMost(c, Present))
    BY <1>4, <1>6, <1>7, <2>2, SMT
  <2>6. Located(origin, b, start + CallOffset + AtMost(cursor[b], Present))'
    <3> HIDE DEF x, z, c
    <3> QED
      BY <2>1, <2>4, <2>5 DEF Located
  <2>7. ~(cursor'[b] < params'.grain)
    BY <1>4, <1>7, <2>1, SMT
  <2> QED
    BY <1>7, <2>1, <2>6, <2>7 DEF BlockAt
<1>10. c \in Int /\ z \in Int
  BY <1>4, <1>7, SMT
<1>11. pc' = [pc EXCEPT ![b] = "loop"]
  BY <1>1 DEF IInv, Together
<1> QED
  BY <1>1, <1>2, <1>8, <1>9, <1>10, <1>11, OneBlockMoves

LEMMA EndCallPositions ==
  ASSUME IInv, ReachLastCall, EndCall
  PROVE  IInv'
<1>1. Launched /\ call \in 0 .. params.num_calls - 1 /\ params.num_calls \in Nat \ {0}
      /\ params.grain \in Nat \ {0} /\ params.input_length \in Nat
      /\ CallOffset \in Nat /\ start \in Nat
  BY LaunchedTypes DEF IInv, Launched
<1>2. /\ Remaining \in Nat \ {0} /\ Present \in Nat \ {0} /\ Present <= params.grain
      /\ CallOffset + Remaining = params.input_length
  BY PresentInCall
<1>3. CallDone /\ UNCHANGED <<stream, cursor, segmentZeroSamples>>
  BY DEF EndCall, device
<1>4. /\ params' = params /\ config' = config /\ start' = start /\ inits' = inits
      /\ cursor' = cursor /\ segmentZeroSamples' = segmentZeroSamples
  BY <1>3 DEF stream
<1>5. ASSUME NEW origin, NEW b \in Blocks, BlockAt(origin, b)
      PROVE  Located(origin, b, start + CallOffset + Present)
  <2>1. pc[b] = "loop" /\ cursor[b] >= params.grain
    BY <1>3 DEF CallDone
  <2>2. cursor[b] \in Nat
        /\ Located(origin, b, start + CallOffset + AtMost(cursor[b], Present))
    BY <1>5, <2>1 DEF BlockAt
  <2>3. AtMost(cursor[b], Present) = Present
    BY <1>1, <1>2, <2>1, <2>2, SMT DEF AtMost
  <2> QED
    BY <2>2, <2>3
<1>6. CASE call + 1 < params.num_calls
  <2>1. call' = call + 1 /\ pc' = [b \in Blocks |-> "begin"]
    BY <1>6 DEF EndCall
  <2>2. CallOffset' = CallOffset + params.grain
    <3>1. \A g \in Nat : (call + 1) * g = call * g + g
      BY <1>1, SMT
    <3> QED
      BY <1>1, <1>4, <2>1, <3>1 DEF CallOffset
  <2>3. Present = params.grain
    BY <1>1, <1>2, <1>6, CallsDivideChunk, SMT DEF Present, AtMost
  <2>4. ~Translates'
    BY <1>1, <2>1, SMT DEF Translates
  <2>5. start' + CallOffset' = start + CallOffset + Present
    BY <1>1, <1>4, <2>2, <2>3, SMT
  <2>6. ASSUME NEW origin, NEW b \in Blocks, BlockAt(origin, b)
        PROVE  BlockAt(origin, b)'
    <3>1. Located(origin, b, start + CallOffset + Present)
      BY <1>5, <2>6
    <3>2. Located(origin, b, start + CallOffset)'
      BY <1>4, <2>5, <3>1 DEF Located
    <3> QED
      BY <2>1, <2>4, <3>2 DEF BlockAt
  <2>7. Launched'
    BY <1>1, <1>4, <1>6, <2>1, SMT DEF Launched, OffsetsFor
  <2>8. Together'
    BY <1>4, <2>1, <1>3 DEF IInv, Together, Idle, CallDone
  <2> QED
    BY <1>4, <2>6, <2>7, <2>8 DEF IInv, Positions, OffsetsFor
<1>7. CASE ~(call + 1 < params.num_calls)
  <2>1. call' = call /\ pc' = [b \in Blocks |-> "idle"]
    BY <1>7 DEF EndCall
  <2>2. call + 1 = params.num_calls
    BY <1>1, <1>7, SMT
  <2>3. start + params.input_length = start + CallOffset + Present
    BY <1>1, <1>2, <2>2, CallsDivideChunk, SMT DEF Present, AtMost
  <2>4. ASSUME NEW origin, NEW b \in Blocks, BlockAt(origin, b)
        PROVE  BlockAt(origin, b)'
    <3>1. Located(origin, b, start + CallOffset + Present)
      BY <1>5, <2>4
    <3>2. Located(origin, b, start + params.input_length)'
      BY <1>4, <2>3, <3>1 DEF Located
    <3> QED
      BY <2>1, <3>2 DEF BlockAt
  <2>5. Launched'
    BY <1>1, <1>4, <2>1 DEF Launched, OffsetsFor
  <2>6. Together'
    BY <1>4, <2>1 DEF IInv, Together, Idle
  <2> QED
    BY <1>4, <2>4, <2>5, <2>6 DEF IInv, Positions, OffsetsFor
<1> QED
  BY <1>6, <1>7

LEMMA StepPositions ==
  ASSUME IInv, ReachLastCall, [Next]_vars
  PROVE  IInv'
<1>1. CASE \E c \in Configs : LaunchInit(c) \/ LaunchNext(c)
  BY <1>1, LaunchInitPositions, LaunchNextPositions
<1>2. CASE EndCall
  BY <1>2, EndCallPositions
<1>3. CASE \E b \in Blocks : BlockStep(b)
  BY <1>3, InitFilterPositions, ProcessFirstPositions, ProcessLoopPositions DEF BlockStep
<1>4. CASE UNCHANGED vars
  BY <1>4 DEF IInv, Launched, Together, Positions, BlockAt, Located, Idle, Translates,
     CallOffset, Present, Remaining, OffsetsFor, vars, stream, device
<1> QED
  BY <1>1, <1>2, <1>3, <1>4 DEF Next

THEOREM PositionInvariance ==
  ASSUME ReachLastCall
  PROVE  Spec => []IInv
<1>1. Init => IInv
  BY InitPositions
<1>2. IInv /\ [Next]_vars => IInv'
  BY StepPositions
<1> QED
  BY <1>1, <1>2, PTL DEF Spec

(* Whatever the filters and buffers, if chunks reach into their last call: *)
(* a block is where the samples it has been given put it                   *)
(* (_segmentZeroSamples, FirProcessor.cuh).                                *)
THEOREM PositionFollowsStream ==
  ASSUME ReachLastCall
  PROVE  Spec => []PositionIsStreamTime
<1>1. IInv => PositionIsStreamTime
  <2> SUFFICES ASSUME IInv, inits > 0, Idle
               PROVE  \E offset \in OffsetsFor(config) : \A b \in Blocks :
                        segmentZeroSamples[b] = (offset + StreamTime(params.input_length))
                                                  % params.input_samples_per_iteration
    BY DEF PositionIsStreamTime
  <2>1. PICK origin \in OffsetsFor(config) : \A b \in Blocks : BlockAt(origin, b)
    BY DEF IInv, Positions
  <2>2. ASSUME NEW b \in Blocks
        PROVE  segmentZeroSamples[b] = (origin + StreamTime(params.input_length))
                                         % params.input_samples_per_iteration
    <3>1. Located(origin, b, start + params.input_length)
      BY <2>1 DEF BlockAt, Idle
    <3> QED
      BY <3>1, ModUnique, LaunchedTypes DEF IInv, Located, StreamTime
  <2> QED
    BY <2>1, <2>2
<1> QED
  BY <1>1, PositionInvariance, PTL

-----------------------------------------------------------------------------
(* The offset stays in the ring when the number of segments never changes. *)

OffsetInv ==
  /\ config \in Configs /\ params.segments_count = SegmentCount(config.length)
  /\ segmentOffset \in [Blocks -> 0 .. params.segments_count - 1]

LEMMA SegmentsOfConfigs ==
  ASSUME NEW c \in Configs
  PROVE  SegmentCount(c.length) \in Nat \ {0}
<1>1. c.length \in Nat \ {0}
  BY ConfigsAssumption
<1>2. 0 \in 0 .. FftLength
  BY FftLengthAssumption, SMT
<1> QED
  BY <1>1, <1>2, GeometryTypes

LEMMA PieceKeepsOffset ==
  ASSUME OffsetInv, NEW b \in Blocks, UNCHANGED stream,
         segmentOffset' = segmentOffset
         \/ segmentOffset' = [segmentOffset EXCEPT ![b] = NextOffset(b)]
  PROVE  OffsetInv'
<1> DEFINE n == params.segments_count
<1>1. n \in Nat \ {0} /\ segmentOffset[b] \in 0 .. n - 1
  BY SegmentsOfConfigs DEF OffsetInv
<1>2. NextOffset(b) \in 0 .. n - 1
  <2>1. segmentOffset[b] - 1 + n \in Nat
    BY <1>1, SMT
  <2> QED
    BY <1>1, <2>1, SMT DEF NextOffset
<1> QED
  BY <1>2 DEF OffsetInv, stream

LEMMA OffsetInvariance ==
  ASSUME EqualSegments
  PROVE  Spec => []OffsetInv
<1>1. Init => OffsetInv
  <2> SUFFICES ASSUME Init PROVE OffsetInv
    OBVIOUS
  <2>1. config \in Configs /\ params.segments_count = SegmentCount(config.length)
    BY DEF Init, ParametersFor, LaunchParameters
  <2>2. 0 \in 0 .. params.segments_count - 1
    BY <2>1, SegmentsOfConfigs, SMT
  <2> QED
    BY <2>1, <2>2 DEF Init, OffsetInv
<1>2. ASSUME OffsetInv, [Next]_vars PROVE OffsetInv'
  <2>1. ASSUME NEW c \in Configs, LaunchInit(c) \/ LaunchNext(c) PROVE OffsetInv'
    <3>1. config' = c /\ segmentOffset' = segmentOffset
      BY <2>1 DEF LaunchInit, LaunchNext, BeginLaunch, device
    <3>2. params'.segments_count = SegmentCount(c.length)
      <4>1. CASE LaunchInit(c)
        <5>1. PICK offset : params' = [ParametersFor(c) EXCEPT
                 !.filter_length_to_translate_init = c.length, !.init_buffer_offset = offset]
          BY <4>1 DEF LaunchInit
        <5> QED
          BY <5>1 DEF ParametersFor, LaunchParameters
      <4>2. CASE LaunchNext(c)
        BY <4>2 DEF LaunchNext, ParametersFor, LaunchParameters
      <4> QED
        BY <2>1, <4>1, <4>2
    <3> QED
      BY <1>2, <3>1, <3>2 DEF OffsetInv, EqualSegments
  <2>2. CASE EndCall
    BY <1>2, <2>2 DEF EndCall, OffsetInv, stream, device
  <2>3. ASSUME NEW b \in Blocks, BlockStep(b) PROVE OffsetInv'
    <3>1. UNCHANGED stream
      BY <2>3 DEF BlockStep, InitFilter, ProcessFirst, ProcessLoop
    <3>2. CASE InitFilter(b)
      BY <1>2, <3>1, <3>2, PieceKeepsOffset DEF InitFilter, device
    <3>3. CASE ProcessFirst(b)
      BY <1>2, <3>1, <3>3, PieceKeepsOffset, PositionOfPiece DEF ProcessFirst, device
    <3>4. CASE ProcessLoop(b)
      BY <1>2, <3>1, <3>4, PieceKeepsOffset, PositionOfPiece DEF ProcessLoop
    <3> QED
      BY <2>3, <3>2, <3>3, <3>4 DEF BlockStep
  <2>4. CASE UNCHANGED vars
    BY <1>2, <2>4 DEF OffsetInv, vars, stream, device
  <2> QED
    BY <1>2, <2>1, <2>2, <2>3, <2>4 DEF Next
<1> QED
  BY <1>1, <1>2, PTL DEF Spec

(* With filters of equally many segments, every piece is put into a        *)
(* segment of the block's own ring (_segmentOffset, FirProcessor.cuh).     *)
THEOREM OffsetStaysInRing ==
  ASSUME EqualSegments
  PROVE  Spec => []OffsetInRing
<1>1. OffsetInv => OffsetInRing
  BY SegmentsOfConfigs, SMT DEF OffsetInv, OffsetInRing
<1> QED
  BY <1>1, OffsetInvariance, PTL

-----------------------------------------------------------------------------
(* What a block has written: everything up to its cursor.                  *)

Written(b, k) == DOMAIN output[b] = 0 .. k - 1

Extent(b) ==
  /\ pc[b] = "idle" /\ inits > 0 => Written(b, params.input_length)
  /\ pc[b] \in {"begin", "first"} => Written(b, CallOffset)
  /\ pc[b] = "loop" => Written(b, CallOffset + AtMost(cursor[b], Present))

Extents == output = [b \in Blocks |-> output[b]] /\ \A b \in Blocks : Extent(b)

LEMMA ExtentOfPiece ==
  ASSUME output = [b \in Blocks |-> output[b]], NEW b \in Blocks,
         NEW from \in Nat, NEW size \in Nat, Written(b, from), ProcessInternal(b, from, size)
  PROVE  /\ output' = [d \in Blocks |-> output'[d]]
         /\ \A d \in Blocks \ {b} : output'[d] = output[d]
         /\ Written(b, from + size)'
         /\ \A i \in DOMAIN output[b] : output'[b][i] = output[b][i]
<1>1. PICK R : output' = [output EXCEPT ![b] = R]
             /\ DOMAIN R = DOMAIN output[b] \cup from .. from + size - 1
             /\ \A i \in DOMAIN R : i \notin from .. from + size - 1 => R[i] = output[b][i]
  BY DEF ProcessInternal
<1>2. output'[b] = R /\ output' = [d \in Blocks |-> output'[d]]
      /\ \A d \in Blocks \ {b} : output'[d] = output[d]
  BY <1>1
<1>3. DOMAIN R = 0 .. from + size - 1
  BY <1>1, SMT DEF Written
<1> QED
  BY <1>1, <1>2, <1>3, SMT DEF Written

LEMMA StepExtents ==
  ASSUME IInv, Extents, ReachLastCall, [Next]_vars
  PROVE  /\ Extents'
         /\ ~Idle => \A b \in Blocks : \A i \in DOMAIN output[b] :
              i \in DOMAIN output'[b] /\ output'[b][i] = output[b][i]
<1>1. IInv'
  BY StepPositions
<1>2. /\ params.grain \in Nat \ {0} /\ CallOffset \in Nat /\ call \in Nat
      /\ Present \in Nat \ {0} /\ Present <= params.grain
      /\ CallOffset + Remaining = params.input_length
  BY LaunchedTypes, PresentInCall DEF IInv
<1>3. ASSUME NEW b \in Blocks, NEW from \in Nat, NEW size \in Nat, Written(b, from),
             ProcessInternal(b, from, size), UNCHANGED <<stream, call>>,
             pc' = [pc EXCEPT ![b] = "loop"], pc[b] # "idle",
             NEW c \in Int, cursor' = [cursor EXCEPT ![b] = c],
             from + size = CallOffset + AtMost(c, Present)
      PROVE  /\ Extents'
             /\ \A d \in Blocks : \A i \in DOMAIN output[d] :
                  i \in DOMAIN output'[d] /\ output'[d][i] = output[d][i]
  <2>1. /\ output' = [d \in Blocks |-> output'[d]]
        /\ \A d \in Blocks \ {b} : output'[d] = output[d]
        /\ Written(b, from + size)'
        /\ \A i \in DOMAIN output[b] : output'[b][i] = output[b][i]
    BY <1>3, ExtentOfPiece DEF Extents
  <2>2. CallOffset' = CallOffset /\ Present' = Present /\ params' = params /\ inits' = inits
    BY <1>3 DEF stream, CallOffset, Present, Remaining
  <2>3. pc'[b] = "loop" /\ cursor'[b] = c
    BY <1>3 DEF IInv, Together
  <2>4. Extent(b)'
    <3> DEFINE k == CallOffset + AtMost(c, Present)
    <3>1. CallOffset' + AtMost(cursor'[b], Present') = k
      BY <2>2, <2>3
    <3> HIDE DEF k
    <3>2. DOMAIN output'[b] = 0 .. k - 1
      <4>1. from + size = k
        BY <1>3 DEF k
      <4> QED
        BY <2>1, <4>1 DEF Written
    <3> QED
      BY <2>3, <3>1, <3>2 DEF Extent, Written
  <2>5. ASSUME NEW d \in Blocks \ {b} PROVE Extent(d)'
    <3>1. pc'[d] = pc[d] /\ cursor'[d] = cursor[d] /\ output'[d] = output[d]
      BY <1>3, <2>1 DEF IInv, Together
    <3> QED
      BY <2>2, <3>1 DEF Extents, Extent, Written
  <2>6. DOMAIN output[b] = 0 .. from - 1 /\ DOMAIN output'[b] = 0 .. from + size - 1
    BY <1>3, <2>1 DEF Written
  <2>7. \A i \in DOMAIN output[b] : i \in DOMAIN output'[b]
    BY <1>3, <2>6, SMT
  <2> QED
    BY <2>1, <2>4, <2>5, <2>7 DEF Extents
<1>4. CASE \E c \in Configs : LaunchInit(c) \/ LaunchNext(c)
  <2>1. /\ Idle /\ call' = 0 /\ pc' = [b \in Blocks |-> "begin"]
        /\ output' = [b \in Blocks |-> [i \in {} |-> 0]]
    BY <1>4 DEF LaunchInit, LaunchNext, BeginLaunch
  <2>2. CallOffset' = 0
    <3>1. config' \in Configs /\ params'.grain = GrainFor(config'.capacity)
      BY <1>1 DEF IInv, Launched
    <3>2. config'.capacity \in Nat \ {0}
      BY <3>1, ConfigsAssumption
    <3>3. params'.grain \in Nat
      BY <3>1, <3>2, FftLengthAssumption, SMT DEF GrainFor, AtMost
    <3> QED
      BY <2>1, <3>3, SMT DEF CallOffset
  <2>3. \A b \in Blocks : DOMAIN output'[b] = 0 .. 0 - 1
    BY <2>1, SMT
  <2>4. \A b \in Blocks : Extent(b)'
    BY <2>1, <2>2, <2>3 DEF Extent, Written
  <2> QED
    BY <2>1, <2>4 DEF Extents
<1>5. CASE EndCall
  <2>1. CallDone /\ UNCHANGED <<stream, cursor, output>>
    BY <1>5 DEF EndCall
  <2>2. params' = params /\ start' = start /\ inits' = inits /\ output' = output
    BY <2>1 DEF stream
  <2>3. ASSUME NEW b \in Blocks PROVE Written(b, CallOffset + Present)
    <3>1. pc[b] = "loop" /\ cursor[b] >= params.grain
      BY <2>1 DEF CallDone
    <3>2. cursor[b] \in Int /\ AtMost(cursor[b], Present) = Present
      BY <1>2, <3>1, SMT DEF IInv, Together, AtMost
    <3> QED
      BY <3>1, <3>2 DEF Extents, Extent
  <2>4. CASE call + 1 < params.num_calls
    <3>1. call' = call + 1 /\ pc' = [b \in Blocks |-> "begin"]
      BY <1>5, <2>4 DEF EndCall
    <3>2. CallOffset' = CallOffset + params.grain
      <4>1. \A g \in Nat : (call + 1) * g = call * g + g
        BY <1>2, SMT
      <4> QED
        BY <1>2, <2>2, <3>1, <4>1 DEF CallOffset
    <3>3. Present = params.grain
      <4>1. CallOffset + params.grain < params.input_length
        BY <2>4, CallsDivideChunk DEF IInv
      <4> QED
        BY <1>2, <4>1, PresentInCall, SMT DEF Present, AtMost
    <3>4. \A b \in Blocks : Extent(b)'
      BY <2>2, <2>3, <3>1, <3>2, <3>3 DEF Extent, Written
    <3> QED
      BY <2>2, <3>4 DEF Extents
  <2>5. CASE ~(call + 1 < params.num_calls)
    <3>1. pc' = [b \in Blocks |-> "idle"]
      BY <1>5, <2>5 DEF EndCall
    <3>2. CallOffset + Present = params.input_length
      <4>1. call + 1 = params.num_calls
        BY <2>5, LaunchedTypes, SMT DEF IInv, Launched
      <4>2. params.input_length <= CallOffset + params.grain
        BY <4>1, CallsDivideChunk DEF IInv
      <4> QED
        BY <1>2, <4>2, PresentInCall, SMT DEF Present, AtMost
    <3>3. \A b \in Blocks : Extent(b)'
      BY <2>2, <2>3, <3>1, <3>2 DEF Extent, Written
    <3> QED
      BY <2>2, <3>3 DEF Extents
  <2> QED
    BY <2>2, <2>4, <2>5 DEF Extents
<1>6. ASSUME NEW b \in Blocks, pc[b] # "idle", UNCHANGED <<stream, call, output>>,
             NEW p \in {"first", "loop"}, pc' = [pc EXCEPT ![b] = p],
             NEW c \in Int, cursor' = [cursor EXCEPT ![b] = c],
             Written(b, CallOffset), p = "loop" => c = 0
      PROVE  Extents'
  <2>1. /\ CallOffset' = CallOffset /\ Present' = Present /\ params' = params
        /\ inits' = inits /\ output' = output
    BY <1>6 DEF stream, CallOffset, Present, Remaining
  <2>2. pc'[b] = p /\ cursor'[b] = c
    BY <1>6 DEF IInv, Together
  <2>3. AtMost(0, Present) = 0 /\ CallOffset + 0 = CallOffset
    BY <1>2, SMT DEF AtMost
  <2>4. Extent(b)'
    BY <1>6, <2>1, <2>2, <2>3 DEF Extent, Written
  <2>5. ASSUME NEW d \in Blocks \ {b} PROVE Extent(d)'
    <3>1. pc'[d] = pc[d] /\ cursor'[d] = cursor[d]
      BY <1>6 DEF IInv, Together
    <3> QED
      BY <2>1, <3>1 DEF Extents, Extent, Written
  <2> QED
    BY <2>1, <2>4, <2>5 DEF Extents
<1>7. ASSUME NEW b \in Blocks, InitFilter(b) PROVE Extents' /\ output' = output
  <2>1. Written(b, CallOffset) /\ cursor[b] \in Int
        /\ cursor' = [cursor EXCEPT ![b] = cursor[b]]
    BY <1>7 DEF InitFilter, Extents, Extent, IInv, Together
  <2> QED
    BY <1>6, <1>7, <2>1 DEF InitFilter
<1>8. ASSUME NEW b \in Blocks, ProcessFirst(b)
      PROVE  /\ Extents'
             /\ \A d \in Blocks : \A i \in DOMAIN output[d] :
                  i \in DOMAIN output'[d] /\ output'[d][i] = output[d][i]
  <2>1. Written(b, CallOffset) /\ pc[b] = "first"
    BY <1>8 DEF ProcessFirst, Extents, Extent
  <2>2. CASE segmentZeroSamples[b] # 0
    <3>1. FirstPiece(b) \in Nat /\ FirstPiece(b) <= Present
      BY <2>1, <2>2, FirstPieceFits
    <3>2. CallOffset + FirstPiece(b) = CallOffset + AtMost(FirstPiece(b), Present)
      BY <3>1 DEF AtMost
    <3>3. /\ ProcessInternal(b, CallOffset, FirstPiece(b)) /\ UNCHANGED <<stream, call>>
          /\ pc' = [pc EXCEPT ![b] = "loop"]
          /\ cursor' = [cursor EXCEPT ![b] = FirstPiece(b)]
      BY <1>8, <2>2 DEF ProcessFirst
    <3>4. FirstPiece(b) \in Int /\ pc[b] # "idle"
      BY <2>1, <3>1
    <3> HIDE DEF CallOffset, FirstPiece
    <3> QED
      BY <1>2, <1>3, <2>1, <3>1, <3>2, <3>3, <3>4
  <2>3. CASE segmentZeroSamples[b] = 0
    <3>1. /\ UNCHANGED <<stream, call, output>> /\ pc' = [pc EXCEPT ![b] = "loop"]
          /\ cursor' = [cursor EXCEPT ![b] = 0]
      BY <1>8, <2>3 DEF ProcessFirst
    <3>2. Extents'
      BY <1>6, <2>1, <3>1, 0 \in Int
    <3> QED
      BY <3>1, <3>2
  <2> QED
    BY <2>2, <2>3
<1>9. ASSUME NEW b \in Blocks, ProcessLoop(b)
      PROVE  /\ Extents'
             /\ \A d \in Blocks : \A i \in DOMAIN output[d] :
                  i \in DOMAIN output'[d] /\ output'[d][i] = output[d][i]
  <2> DEFINE c == cursor[b] + params.input_samples_per_iteration
  <2>1. /\ pc[b] = "loop" /\ cursor[b] < params.grain /\ UNCHANGED <<stream, call, pc>>
        /\ ProcessInternal(b, CallOffset + cursor[b], LoopPiece(b))
        /\ cursor' = [cursor EXCEPT ![b] = c]
    BY <1>9 DEF ProcessLoop, Advance
  <2>2. /\ cursor[b] \in Nat /\ LoopPiece(b) \in Nat /\ c \in Nat
        /\ AtMost(cursor[b], Present) = cursor[b]
        /\ AtMost(c, Present) = cursor[b] + LoopPiece(b)
    BY <2>1, LoopPieceFits
  <2> HIDE DEF c
  <2>3. Written(b, CallOffset + cursor[b])
    BY <2>1, <2>2 DEF Extents, Extent
  <2>4. /\ CallOffset + cursor[b] \in Nat
        /\ (CallOffset + cursor[b]) + LoopPiece(b) = CallOffset + AtMost(c, Present)
    BY <1>2, <2>2, SMT
  <2>5. pc' = [pc EXCEPT ![b] = "loop"] /\ UNCHANGED <<stream, call>> /\ c \in Int
    BY <2>1, <2>2, SMT DEF IInv, Together
  <2>6. /\ Extents'
        /\ \A d \in Blocks : \A i \in DOMAIN output[d] :
             i \in DOMAIN output'[d] /\ output'[d][i] = output[d][i]
    BY <1>3, <2>1, <2>2, <2>3, <2>4, <2>5
  <2> QED
    BY <2>6
<1>10. CASE \E b \in Blocks : BlockStep(b)
  BY <1>7, <1>8, <1>9, <1>10 DEF BlockStep
<1>11. CASE UNCHANGED vars
  BY <1>11 DEF vars, stream, Extents, Extent, Written, CallOffset, Present, Remaining
<1> QED
  BY <1>4, <1>5, <1>10, <1>11 DEF Next, EndCall, LaunchInit, LaunchNext, BeginLaunch

LEMMA ExtentInvariance ==
  ASSUME ReachLastCall
  PROVE  Spec => []Extents
<1>1. Init => Extents
  BY DEF Init, Extents, Extent
<1>2. IInv /\ Extents /\ [Next]_vars => Extents'
  BY StepExtents
<1> QED
  BY <1>1, <1>2, PositionInvariance, PTL DEF Spec

(* A sample of the output is written once, by one piece of one call        *)
(* (process and processInternal, FirProcessor.cuh).                        *)
THEOREM SamplesWrittenOnce ==
  ASSUME ReachLastCall
  PROVE  Spec => WrittenOnce
<1>1. IInv /\ Extents /\ [Next]_vars =>
        [~Idle => \A b \in Blocks : \A i \in DOMAIN output[b] :
                    i \in DOMAIN output'[b] /\ output'[b][i] = output[b][i]]_vars
  BY StepExtents
<1> QED
  BY <1>1, ExtentInvariance, PositionInvariance, PTL DEF Spec, WrittenOnce

-----------------------------------------------------------------------------
(* Induction, for sets instead of operators.                               *)

LEMMA LeastNat ==
  ASSUME NEW T, T \subseteq Nat, T # {}
  PROVE  \E n \in T : \A k \in T : n <= k
<1> DEFINE R == OpToRel(<, Nat)
<1>1. IsWellFoundedOn(R, Nat)
  BY NatLessThanWellFounded
<1> HIDE DEF R
<1>2. PICK n \in T : \A k \in T : ~ (<<k, n>> \in R)
  BY <1>1, WFMin
<1>3. \A k \in T : ~ (k < n)
  BY <1>2 DEF R, OpToRel
<1> QED
  BY <1>3, SMT

LEMMA SubsetInduction ==
  ASSUME NEW S, IsFiniteSet(S), NEW Q, {} \in Q,
         \A s \in SUBSET S : s # {} /\ (\A x \in s : s \ {x} \in Q) => s \in Q
  PROVE  \A s \in SUBSET S : s \in Q
<1> SUFFICES ASSUME \E s \in SUBSET S : s \notin Q PROVE FALSE
  OBVIOUS
<1> DEFINE T == {Cardinality(s) : s \in {z \in SUBSET S : z \notin Q}}
<1>1. \A s \in SUBSET S : IsFiniteSet(s) /\ Cardinality(s) \in Nat
  BY FS_Subset, FS_CardinalityType
<1>2. PICK n \in T : \A k \in T : n <= k
  <2>1. T \subseteq Nat /\ T # {}
    BY <1>1
  <2> HIDE DEF T
  <2> QED
    BY <2>1, LeastNat
<1>3. PICK s \in SUBSET S : s \notin Q /\ n = Cardinality(s)
  OBVIOUS
<1>4. s # {}
  BY <1>3
<1>5. ASSUME NEW x \in s PROVE s \ {x} \in Q
  <2>1. Cardinality(s \ {x}) = n - 1 /\ n \in Nat /\ s \ {x} \in SUBSET S
    BY <1>1, <1>3, FS_RemoveElement
  <2>2. n - 1 \notin T
    BY <1>2, <2>1, SMT
  <2> QED
    BY <2>1, <2>2
<1> QED
  BY <1>3, <1>4, <1>5

-----------------------------------------------------------------------------
(* A fold over a finite set exists: the recursive function that            *)
(* MapThenFoldSet chooses satisfies its equation.                          *)

FoldStep(h, base, f, g, s) ==
  IF s = {} THEN base
  ELSE LET x == CHOOSE y \in s : TRUE IN h[<<f[x], g[s \ {x}]>>]

IsFold(h, base, f, g, S) == \A s \in SUBSET S : g[s] = FoldStep(h, base, f, g, s)

LEMMA FoldExists ==
  ASSUME NEW V, NEW base \in V, NEW h \in [V \X V -> V],
         NEW S, IsFiniteSet(S), NEW f \in [S -> V]
  PROVE  \E g \in [SUBSET S -> V] : IsFold(h, base, f, g, S)
<1> DEFINE Good(k) == \E g \in [SUBSET S -> V] :
             \A s \in SUBSET S : Cardinality(s) <= k => g[s] = FoldStep(h, base, f, g, s)
           T == {k \in Nat : ~ Good(k)}
<1>1. \A s \in SUBSET S : IsFiniteSet(s) /\ Cardinality(s) \in Nat
                          /\ Cardinality(s) <= Cardinality(S)
  BY FS_Subset, FS_CardinalityType
<1>2. Good(0)
  <2> DEFINE g == [s \in SUBSET S |-> base]
  <2>1. g \in [SUBSET S -> V]
    OBVIOUS
  <2>2. ASSUME NEW s \in SUBSET S, Cardinality(s) <= 0
        PROVE  g[s] = FoldStep(h, base, f, g, s)
    <3>1. s = {}
      BY <1>1, <2>2, FS_EmptySet, SMT
    <3> QED
      BY <3>1 DEF FoldStep
  <2> QED
    BY <2>1, <2>2
<1>3. ASSUME NEW k \in Nat, Good(k) PROVE Good(k + 1)
  <2>1. PICK g \in [SUBSET S -> V] :
          \A s \in SUBSET S : Cardinality(s) <= k => g[s] = FoldStep(h, base, f, g, s)
    BY <1>3
  <2> DEFINE e == [s \in SUBSET S |-> FoldStep(h, base, f, g, s)]
  <2>2. ASSUME NEW s \in SUBSET S
        PROVE  /\ FoldStep(h, base, f, g, s) \in V
               /\ s # {} => /\ (CHOOSE y \in s : TRUE) \in s
                            /\ s \ {CHOOSE y \in s : TRUE} \in SUBSET S
                            /\ Cardinality(s \ {CHOOSE y \in s : TRUE}) = Cardinality(s) - 1
    <3>1. CASE s = {}
      BY <3>1 DEF FoldStep
    <3>2. CASE s # {}
      <4> DEFINE x == CHOOSE y \in s : TRUE
      <4>1. x \in s /\ s \ {x} \in SUBSET S
        BY <3>2
      <4>2. f[x] \in V /\ g[s \ {x}] \in V
        BY <2>1, <4>1
      <4>3. h[<<f[x], g[s \ {x}]>>] \in V
        BY <4>2
      <4>4. Cardinality(s \ {x}) = Cardinality(s) - 1
        BY <1>1, <4>1, FS_RemoveElement
      <4> QED
        BY <3>2, <4>1, <4>3, <4>4 DEF FoldStep
    <3> QED
      BY <3>1, <3>2
  <2>3. e \in [SUBSET S -> V]
    BY <2>2
  <2>4. ASSUME NEW s \in SUBSET S, Cardinality(s) <= k + 1
        PROVE  e[s] = FoldStep(h, base, f, e, s)
    <3>1. CASE s = {}
      BY <3>1 DEF FoldStep
    <3>2. CASE s # {}
      <4> DEFINE x == CHOOSE y \in s : TRUE
      <4>1. s \ {x} \in SUBSET S /\ Cardinality(s \ {x}) = Cardinality(s) - 1
        BY <2>2, <3>2
      <4>2. Cardinality(s \ {x}) <= k
        BY <1>1, <2>4, <4>1, SMT
      <4>3. g[s \ {x}] = e[s \ {x}]
        BY <2>1, <4>1, <4>2
      <4> HIDE DEF e
      <4>4. FoldStep(h, base, f, g, s) = FoldStep(h, base, f, e, s)
        BY <4>3 DEF FoldStep
      <4> QED
        BY <4>4 DEF e
    <3> QED
      BY <3>1, <3>2
  <2> HIDE DEF e
  <2> QED
    BY <2>3, <2>4
<1>4. T = {}
  <2> SUFFICES ASSUME T # {} PROVE FALSE
    OBVIOUS
  <2> HIDE DEF Good
  <2>1. PICK n \in T : \A k \in T : n <= k
    BY LeastNat
  <2>2. n \in Nat /\ ~ Good(n) /\ n # 0
    BY <1>2
  <2>3. n - 1 \in Nat /\ Good(n - 1)
    BY <2>1, <2>2, SMT
  <2>4. Good((n - 1) + 1)
    BY <1>3, <2>3
  <2>5. (n - 1) + 1 = n
    BY <2>2, SMT
  <2> QED
    BY <2>2, <2>4, <2>5
<1>5. Good(Cardinality(S))
  <2> HIDE DEF Good
  <2> QED
    BY <1>4, FS_CardinalityType
<1> QED
  BY <1>1, <1>5 DEF IsFold

-----------------------------------------------------------------------------
(* Signals                                                                 *)

LEMMA PointsFinite == IsFiniteSet(Points)
  BY FftLengthAssumption, FS_Interval, SMT DEF Points

(* The circular convolution of two signals, point by point.                *)
LEMMA ConvolvedPoint ==
  ASSUME NEW a \in Signals, NEW b \in Signals, NEW n \in Points
  PROVE  LET S == {m \in Points : a[m] # 0}
         IN  /\ Convolved(a, b)[n] \in Nat
             /\ S = {} => Convolved(a, b)[n] = 0
             /\ \A p \in Points : S = {p} =>
                  Convolved(a, b)[n] = a[p] * b[(n - p) % (2 * FftLength)]
<1> DEFINE S == {m \in Points : a[m] # 0}
           term(m) == a[m] * b[(n - m) % (2 * FftLength)]
           f == [m \in S |-> term(m)]
           h == [p \in Nat \X Nat |-> p[1] + p[2]]
           Sums(g) == g = [s \in SUBSET S |->
                             IF s = {} THEN 0
                             ELSE LET x == CHOOSE y \in s : TRUE IN term(x) + g[s \ {x}]]
           e == CHOOSE g : Sums(g)
<1>1. Convolved(a, b)[n] = e[S]
  BY DEF Convolved, MapThenSumSet, MapThenFoldSet
<1>2. IsFiniteSet(S)
  BY PointsFinite, FS_Subset
<1>3. \A m \in Points : term(m) \in Nat
  <2> SUFFICES ASSUME NEW m \in Points PROVE term(m) \in Nat
    OBVIOUS
  <2>1. (n - m) % (2 * FftLength) \in Points
    BY FftLengthAssumption, SMT DEF Points
  <2>2. a[m] \in Nat /\ b[(n - m) % (2 * FftLength)] \in Nat
    BY <2>1 DEF Signals
  <2> QED
    BY <2>2, SMT
<1>4. f \in [S -> Nat] /\ h \in [Nat \X Nat -> Nat]
  BY <1>3, SMT
<1>5. \E g : Sums(g)
  <2>1. PICK g \in [SUBSET S -> Nat] : \A s \in SUBSET S : g[s] = FoldStep(h, 0, f, g, s)
    <3> DEFINE V == Nat
               base == 0
    <3>1. base \in V /\ f \in [S -> V] /\ h \in [V \X V -> V] /\ IsFiniteSet(S)
      BY <1>2, <1>4
    <3> HIDE DEF f, h, S, V, base, term, Sums, e
    <3>2. \E g \in [SUBSET S -> V] : IsFold(h, base, f, g, S)
      BY <3>1, FoldExists
    <3> QED
      BY <3>2 DEF V, base, IsFold
  <2>2. ASSUME NEW s \in SUBSET S
        PROVE  g[s] = IF s = {} THEN 0
                      ELSE LET x == CHOOSE y \in s : TRUE IN term(x) + g[s \ {x}]
    <3> DEFINE x == CHOOSE y \in s : TRUE
    <3>1. CASE s = {}
      BY <2>1, <3>1 DEF FoldStep
    <3>2. CASE s # {}
      <4>1. x \in s /\ x \in S /\ s \ {x} \in SUBSET S
        BY <3>2
      <4>2. g[s] = h[<<f[x], g[s \ {x}]>>]
        BY <2>1, <3>2 DEF FoldStep
      <4>3. f[x] = term(x) /\ term(x) \in Nat /\ g[s \ {x}] \in Nat
        BY <1>3, <2>1, <4>1
      <4>4. h[<<term(x), g[s \ {x}]>>] = term(x) + g[s \ {x}]
        BY <4>3
      <4> QED
        BY <3>2, <4>2, <4>3, <4>4
    <3> QED
      BY <3>1, <3>2
  <2>3. Sums(g)
    BY <2>1, <2>2
  <2> QED
    BY <2>3
<1>6. Sums(e)
  <2> HIDE DEF Sums
  <2> QED
    BY <1>5
<1> HIDE DEF e
<1>7. e[{}] = 0 /\ \A s \in SUBSET S : s # {} =>
        \E x \in s : e[s] = term(x) + e[s \ {x}]
  BY <1>6
<1> HIDE DEF term
<1>8. \A s \in SUBSET S : e[s] \in Nat
  <2> DEFINE Q == {s \in SUBSET S : e[s] \in Nat}
  <2>1. ASSUME NEW s \in SUBSET S, s # {}, \A x \in s : s \ {x} \in Q PROVE s \in Q
    <3>1. PICK x \in s : e[s] = term(x) + e[s \ {x}]
      BY <1>7, <2>1
    <3>2. term(x) \in Nat /\ e[s \ {x}] \in Nat
      BY <1>3, <2>1
    <3> QED
      BY <3>1, <3>2, SMT
  <2>2. {} \in Q
    BY <1>7
  <2>3. \A s \in SUBSET S : s \in Q
    <3> HIDE DEF Q, S
    <3> QED
      BY <1>2, <2>1, <2>2, SubsetInduction
  <2> QED
    BY <2>3
<1>9. ASSUME NEW p \in Points, S = {p} PROVE e[S] = term(p)
  <2>1. PICK x \in S : e[S] = term(x) + e[S \ {x}]
    BY <1>7, <1>9
  <2>2. x = p /\ S \ {x} = {}
    BY <1>9
  <2>3. e[S] = term(p) + 0 /\ term(p) \in Nat
    BY <1>3, <1>7, <2>1, <2>2
  <2> QED
    BY <2>3, SMT
<1> QED
  BY <1>1, <1>7, <1>8, <1>9 DEF term

LEMMA ConvolvedSignal ==
  ASSUME NEW a \in Signals, NEW b \in Signals
  PROVE  Convolved(a, b) \in Signals
<1>1. Convolved(a, b) = [n \in Points |-> Convolved(a, b)[n]]
  BY DEF Convolved
<1>2. \A n \in Points : Convolved(a, b)[n] \in Nat
  BY ConvolvedPoint
<1> QED
  BY <1>1, <1>2 DEF Signals

LEMMA PlusSignal ==
  ASSUME NEW a \in Signals, NEW b \in Signals
  PROVE  /\ Plus(a, b) \in Signals /\ Silence \in Signals
         /\ Plus(a, Silence) = a /\ Plus(Silence, a) = a
<1>1. \A n \in Points : a[n] \in Nat /\ b[n] \in Nat /\ Silence[n] = 0 /\ 0 \in Nat
  BY SMT DEF Signals, Silence
<1>2. \A n \in Points : a[n] + b[n] \in Nat /\ a[n] + 0 = a[n] /\ 0 + a[n] = a[n]
  BY <1>1, SMT
<1> QED
  BY <1>1, <1>2 DEF Signals, Plus, Silence

(* The contributions of the older input, summed in some order.             *)
IsHistorySum(b, e) ==
  LET S == 1 .. params.segments_count - 1
  IN  /\ History(b) = e[S]
      /\ e[{}] = Silence
      /\ \A s \in SUBSET S : s # {} =>
           \E x \in s : e[s] = Plus(Convolved(Ring(b, x), responses[b][x]), e[s \ {x}])

LEMMA HistoryIsSum ==
  ASSUME NEW b \in Blocks, params.segments_count \in Nat,
         \A i \in 1 .. params.segments_count - 1 :
           Convolved(Ring(b, i), responses[b][i]) \in Signals
  PROVE  \E e : IsHistorySum(b, e)
<1> DEFINE S == 1 .. params.segments_count - 1
           term(i) == Convolved(Ring(b, i), responses[b][i])
           f == [i \in S |-> term(i)]
           h == [p \in Signals \X Signals |-> Plus(p[1], p[2])]
           Sums(g) == g = [s \in SUBSET S |->
                             IF s = {} THEN Silence
                             ELSE LET x == CHOOSE y \in s : TRUE
                                  IN  Plus(term(x), g[s \ {x}])]
           e == CHOOSE g : Sums(g)
<1>1. History(b) = e[S]
  BY DEF History, MapThenFoldSet
<1>2. IsFiniteSet(S)
  BY FS_Interval, SMT
<1>3. (\A i \in S : term(i) \in Signals) /\ Silence \in Signals
  BY SMT DEF Silence, Signals
<1>4. f \in [S -> Signals] /\ h \in [Signals \X Signals -> Signals]
  <2>1. \A p \in Signals \X Signals : Plus(p[1], p[2]) \in Signals
    BY PlusSignal
  <2> QED
    BY <1>3, <2>1
<1> HIDE DEF term
<1>5. \E g : Sums(g)
  <2>1. PICK g \in [SUBSET S -> Signals] : IsFold(h, Silence, f, g, S)
    <3> DEFINE V == Signals
               base == Silence
    <3>1. base \in V /\ f \in [S -> V] /\ h \in [V \X V -> V] /\ IsFiniteSet(S)
      BY <1>2, <1>3, <1>4
    <3> HIDE DEF f, h, S, V, base, Sums, e
    <3>2. \E g \in [SUBSET S -> V] : IsFold(h, base, f, g, S)
      BY <3>1, FoldExists
    <3> QED
      BY <3>2 DEF V, base
  <2>2. ASSUME NEW s \in SUBSET S
        PROVE  g[s] = IF s = {} THEN Silence
                      ELSE LET x == CHOOSE y \in s : TRUE IN Plus(term(x), g[s \ {x}])
    <3> DEFINE x == CHOOSE y \in s : TRUE
    <3>1. CASE s = {}
      BY <2>1, <3>1 DEF FoldStep, IsFold
    <3>2. CASE s # {}
      <4>1. x \in s /\ x \in S /\ s \ {x} \in SUBSET S
        BY <3>2
      <4>2. g[s] = h[<<f[x], g[s \ {x}]>>]
        BY <2>1, <3>2 DEF FoldStep, IsFold
      <4>3. f[x] = term(x) /\ term(x) \in Signals /\ g[s \ {x}] \in Signals
        BY <1>3, <2>1, <4>1
      <4>4. h[<<term(x), g[s \ {x}]>>] = Plus(term(x), g[s \ {x}])
        BY <4>3
      <4> QED
        BY <3>2, <4>2, <4>3, <4>4
    <3> QED
      BY <3>1, <3>2
  <2>3. Sums(g)
    BY <2>1, <2>2
  <2> QED
    BY <2>3
<1>6. Sums(e)
  <2> HIDE DEF Sums
  <2> QED
    BY <1>5
<1> HIDE DEF e
<1>7. e[{}] = Silence /\ \A s \in SUBSET S : s # {} =>
        \E x \in s : e[s] = Plus(term(x), e[s \ {x}])
  BY <1>6
<1> QED
  BY <1>1, <1>7 DEF term, IsHistorySum

LEMMA HistorySignal ==
  ASSUME NEW b \in Blocks, params.segments_count \in Nat,
         \A i \in 1 .. params.segments_count - 1 :
           Convolved(Ring(b, i), responses[b][i]) \in Signals
  PROVE  History(b) \in Signals
<1> DEFINE S == 1 .. params.segments_count - 1
           term(i) == Convolved(Ring(b, i), responses[b][i])
<1>1. IsFiniteSet(S)
  BY FS_Interval, SMT
<1>2. \A i \in S : term(i) \in Signals
  OBVIOUS
<1>3. PICK e : IsHistorySum(b, e)
  BY HistoryIsSum
<1>4. /\ History(b) = e[S] /\ e[{}] = Silence
      /\ \A s \in SUBSET S : s # {} => \E x \in s : e[s] = Plus(term(x), e[s \ {x}])
  BY <1>3 DEF IsHistorySum
<1> HIDE DEF term
<1> DEFINE Q == {s \in SUBSET S : e[s] \in Signals}
<1>5. ASSUME NEW s \in SUBSET S, s # {}, \A x \in s : s \ {x} \in Q PROVE s \in Q
  <2>1. PICK x \in s : e[s] = Plus(term(x), e[s \ {x}])
    BY <1>4, <1>5
  <2>2. term(x) \in Signals /\ e[s \ {x}] \in Signals
    BY <1>2, <1>5
  <2> QED
    BY <2>1, <2>2, PlusSignal
<1>6. {} \in Q
  BY <1>4, SMT DEF Silence, Signals
<1>7. S \in Q
  <2> HIDE DEF Q, S
  <2>1. \A s \in SUBSET S : s \in Q
    BY <1>1, <1>5, <1>6, SubsetInduction
  <2> QED
    BY <2>1
<1> QED
  BY <1>4, <1>7

(* When at most one of them is heard, the sum is that one.                 *)
LEMMA HistoryOfOne ==
  ASSUME NEW b \in Blocks, params.segments_count \in Nat, NEW k,
         \A i \in 1 .. params.segments_count - 1 :
           /\ Convolved(Ring(b, i), responses[b][i]) \in Signals
           /\ i # k => Convolved(Ring(b, i), responses[b][i]) = Silence
  PROVE  History(b) = IF k \in 1 .. params.segments_count - 1
                      THEN Convolved(Ring(b, k), responses[b][k]) ELSE Silence
<1> DEFINE S == 1 .. params.segments_count - 1
           term(i) == Convolved(Ring(b, i), responses[b][i])
<1>1. /\ IsFiniteSet(S)
      /\ \A i \in S : term(i) \in Signals /\ (i # k => term(i) = Silence)
      /\ Silence \in Signals
  <2>1. IsFiniteSet(S)
    BY FS_Interval, SMT
  <2>2. Silence \in Signals
    BY SMT DEF Silence, Signals
  <2> QED
    BY <2>1, <2>2
<1>2. PICK e : IsHistorySum(b, e)
  BY HistoryIsSum
<1>3. /\ History(b) = e[S] /\ e[{}] = Silence
      /\ \A s \in SUBSET S : s # {} => \E x \in s : e[s] = Plus(term(x), e[s \ {x}])
  BY <1>2 DEF IsHistorySum
<1> HIDE DEF term
<1> DEFINE Q == {s \in SUBSET S : e[s] = IF k \in s THEN term(k) ELSE Silence}
<1>4. ASSUME NEW s \in SUBSET S, s # {}, \A x \in s : s \ {x} \in Q PROVE s \in Q
  <2>1. PICK x \in s : e[s] = Plus(term(x), e[s \ {x}])
    BY <1>3, <1>4
  <2>2. e[s \ {x}] = IF k \in s \ {x} THEN term(k) ELSE Silence
    BY <1>4
  <2>3. CASE x = k
    <3>1. e[s] = Plus(term(k), Silence) /\ term(k) \in Signals
      BY <1>1, <2>1, <2>2, <2>3
    <3> QED
      BY <3>1, <2>3, PlusSignal
  <2>4. CASE x # k
    <3>1. term(x) = Silence /\ e[s \ {x}] \in Signals
          /\ e[s \ {x}] = IF k \in s THEN term(k) ELSE Silence
      BY <1>1, <2>2, <2>4
    <3>2. e[s] = e[s \ {x}]
      BY <2>1, <3>1, PlusSignal
    <3> QED
      BY <3>1, <3>2
  <2> QED
    BY <2>3, <2>4
<1>5. {} \in Q
  BY <1>3
<1>6. S \in Q
  <2> HIDE DEF Q, S
  <2>1. \A s \in SUBSET S : s \in Q
    BY <1>1, <1>4, <1>5, SubsetInduction
  <2> QED
    BY <2>1
<1> QED
  BY <1>3, <1>6 DEF term

-----------------------------------------------------------------------------
(* A single unit sample, or silence.                                       *)

Pulse(cond, p) == [n \in Points |-> IF cond /\ n = p THEN 1 ELSE 0]

LEMMA PulseSignal ==
  ASSUME NEW c, NEW p
  PROVE  /\ Pulse(c, p) \in Signals
         /\ Pulse(FALSE, p) = Silence
         /\ ~c => Pulse(c, p) = Silence
         /\ \A n \in Points : Pulse(c, p)[n] = IF c /\ n = p THEN 1 ELSE 0
<1>1. \A n \in Points : (IF c /\ n = p THEN 1 ELSE 0) \in Nat
  OBVIOUS
<1> QED
  BY <1>1 DEF Pulse, Signals, Silence

LEMMA PlusPulses ==
  ASSUME NEW c, NEW d, ~(c /\ d), NEW e, e <=> (c \/ d), NEW p
  PROVE  Plus(Pulse(c, p), Pulse(d, p)) = Pulse(e, p)
<1>1. \A n \in Points : Pulse(c, p)[n] + Pulse(d, p)[n] = IF e /\ n = p THEN 1 ELSE 0
  BY SMT DEF Pulse
<1> QED
  BY <1>1 DEF Plus, Pulse

LEMMA ShiftedPoint ==
  ASSUME NEW W \in Nat \ {0}, NEW n \in 0 .. W - 1, NEW p \in 0 .. W - 1, NEW r \in 0 .. W - 1,
         p + r < W
  PROVE  (n - p) % W = r <=> n = p + r
<1>1. CASE n >= p
  <2>1. n - p \in 0 .. W /\ n - p # W
    BY <1>1, SMT
  <2>2. (n - p) % W = n - p
    BY <2>1, ModAtMost
  <2> QED
    BY <2>2, SMT
<1>2. CASE n < p
  <2> DEFINE z == n - p + W
  <2>1. z \in 0 .. W - 1
    BY <1>2, SMT
  <2>2. (n - p) % W = z
    <3> DEFINE x == n - p
               d == x \div W
               e == x % W
    <3>1. d \in Int /\ e \in 0 .. W - 1 /\ x = W * d + e /\ x \in Int /\ x = z - W
      BY <1>2, SMT
    <3> HIDE DEF d, e, x, z
    <3>2. W * (d + 1) = z - e
      BY <2>1, <3>1, SMT
    <3>3. CASE d + 1 >= 1
      BY <2>1, <3>1, <3>2, <3>3, W * (d + 1) >= W, SMT
    <3>4. CASE d + 1 <= -1
      BY <2>1, <3>1, <3>2, <3>4, W * (d + 1) <= -W, SMT
    <3>5. CASE d + 1 = 0
      BY <2>1, <3>1, <3>2, <3>5, SMT DEF x, e
    <3> QED
      BY <3>1, <3>3, <3>4, <3>5, SMT
  <2> QED
    BY <1>2, <2>2, SMT
<1> QED
  BY <1>1, <1>2, SMT

LEMMA ConvolvedPulses ==
  ASSUME NEW c, NEW d, NEW p \in Int, NEW r \in Int,
         c /\ d => p \in Points /\ r \in Points /\ p + r \in Points,
         NEW e, e <=> (c /\ d), NEW q, q = p + r
  PROVE  Convolved(Pulse(c, p), Pulse(d, r)) = Pulse(e, q)
<1> DEFINE a == Pulse(c, p)
           b == Pulse(d, r)
           S == {m \in Points : a[m] # 0}
           W == 2 * FftLength
<1>1. a \in Signals /\ b \in Signals
      /\ (\A n \in Points : a[n] = IF c /\ n = p THEN 1 ELSE 0)
      /\ (\A n \in Points : b[n] = IF d /\ n = r THEN 1 ELSE 0)
  BY PulseSignal
<1>2. ASSUME NEW n \in Points
      PROVE  Convolved(a, b)[n] = IF e /\ n = q THEN 1 ELSE 0
  <2>1. CASE c /\ p \in Points
    <3>1. S = {p} /\ a[p] = 1
      <4> HIDE DEF a, b
      <4>1. \A m \in Points : a[m] = IF m = p THEN 1 ELSE 0
        BY <1>1, <2>1
      <4>2. a[p] = 1
        BY <2>1, <4>1
      <4>3. \A m \in Points : a[m] # 0 <=> m = p
        BY <4>1, SMT
      <4> QED
        BY <2>1, <4>2, <4>3
    <3>2. Convolved(a, b)[n] = a[p] * b[(n - p) % W]
      <4> HIDE DEF a, b
      <4> QED
        BY <1>1, <2>1, <3>1, ConvolvedPoint
    <3>3. (n - p) % W \in Points /\ W \in Nat \ {0} /\ Points = 0 .. W - 1
      BY <2>1, FftLengthAssumption, SMT DEF Points
    <3>4. Convolved(a, b)[n] = b[(n - p) % W]
      <4>1. b[(n - p) % W] \in Nat
        BY <1>1, <3>3 DEF Signals
      <4> HIDE DEF a, b
      <4> QED
        BY <3>1, <3>2, <4>1, SMT
    <3>5. Convolved(a, b)[n] = IF d /\ (n - p) % W = r THEN 1 ELSE 0
      BY <1>1, <3>3, <3>4
    <3>6. d => ((n - p) % W = r <=> n = p + r)
      <4> SUFFICES ASSUME d PROVE (n - p) % W = r <=> n = p + r
        OBVIOUS
      <4>1. p \in Points /\ r \in Points /\ p + r \in Points
        BY <2>1
      <4> HIDE DEF W
      <4>2. p \in 0 .. W - 1 /\ r \in 0 .. W - 1 /\ n \in 0 .. W - 1 /\ p + r < W
        BY <3>3, <4>1, SMT
      <4> QED
        BY <3>3, <4>2, ShiftedPoint
    <3> QED
      BY <2>1, <3>5, <3>6
  <2>2. CASE ~(c /\ p \in Points)
    <3>1. S = {}
      BY <1>1, <2>2
    <3>2. Convolved(a, b)[n] = 0
      <4> HIDE DEF a, b
      <4> QED
        BY <1>1, <3>1, ConvolvedPoint
    <3> QED
      BY <2>2, <3>2
  <2> QED
    BY <2>1, <2>2
<1>3. Convolved(a, b) = [n \in Points |-> Convolved(a, b)[n]]
  BY DEF Convolved
<1>4. Pulse(e, q) = [n \in Points |-> IF e /\ n = q THEN 1 ELSE 0]
  BY DEF Pulse
<1> HIDE DEF a, b
<1>5. Convolved(a, b) = [n \in Points |-> IF e /\ n = q THEN 1 ELSE 0]
  BY <1>2, <1>3
<1> QED
  BY <1>4, <1>5 DEF a, b

(* A piece of even size at an even place is loaded as it is.               *)
LEMMA LoadedPulse ==
  ASSUME NEW size \in Nat, NEW offset \in Nat, size % 2 = 0, offset % 2 = 0,
         NEW e, NEW q \in Int, e => q - offset \in 0 .. size - 1,
         NEW piece,
         \A n \in 0 .. size - 1 : piece[n] = IF e /\ n = q - offset THEN 1 ELSE 0
  PROVE  LoadChecked(piece, size, offset) = Pulse(e, q)
<1>1. ASSUME NEW n \in Points
      PROVE  (IF n - (n % 2) >= offset /\ n - (n % 2) < offset + size - 1
              THEN piece[n - offset] ELSE 0)
             = IF e /\ n = q THEN 1 ELSE 0
  <2>1. n \in Nat
    BY FftLengthAssumption, SMT DEF Points
  <2>2. n - (n % 2) >= offset /\ n - (n % 2) < offset + size - 1
        <=> n - offset \in 0 .. size - 1
    BY <2>1, SMT
  <2>3. CASE n - offset \in 0 .. size - 1
    <3>1. piece[n - offset] = IF e /\ n - offset = q - offset THEN 1 ELSE 0
      BY <2>3
    <3>2. n - offset = q - offset <=> n = q
      BY <2>1, SMT
    <3> QED
      BY <2>2, <2>3, <3>1, <3>2
  <2>4. CASE n - offset \notin 0 .. size - 1
    BY <2>2, <2>4
  <2> QED
    BY <2>3, <2>4
<1> QED
  BY <1>1 DEF LoadChecked, Pulse

-----------------------------------------------------------------------------
(* What a block remembers of its stream                                    *)

Heard(b, from, count) ==
  Pulse(impulse[1] = b /\ impulse[2] - from \in 0 .. count - 1, impulse[2] - from)

(* The segment of the filter that holds the tap, and the tap's place in it. *)
TapSegment == tap \div params.fir_samples_per_iteration
TapPlace   == tap % params.fir_samples_per_iteration

(* Stream time of the first sample of the block's iteration, if t samples  *)
(* have been consumed; and how long after it the sample is that TapSegment *)
(* iterations later has the unit sample of the input as its newest.        *)
IterationStart(b, t) == t - segmentZeroSamples[b]

Distance(b, t) ==
  impulse[2] - IterationStart(b, t) + TapSegment * params.input_samples_per_iteration

Filtered(b) ==
  responses[b] = [i \in 0 .. params.segments_count - 1 |-> Pulse(i = TapSegment, TapPlace)]

(* Segment i of the ring is the input of i iterations ago.  The newest has *)
(* no contents before the iteration's first sample.                        *)
RingAt(b, t) ==
  \A i \in 0 .. params.segments_count - 1 :
    i # 0 \/ segmentZeroSamples[b] # 0 =>
      Ring(b, i) =
        Heard(b, IterationStart(b, t) - i * params.input_samples_per_iteration,
              IF i = 0 THEN segmentZeroSamples[b] ELSE params.input_samples_per_iteration)

(* The overlap holds what earlier iterations have left for the rest of     *)
(* this one and, once it is open, what the older segments contribute.      *)
OverlapAt(b, t) ==
  \A j \in segmentZeroSamples[b] .. params.overlap_length - 1 :
    overlap[OverlapBase(b) + j] =
      IF /\ impulse[1] = b /\ j = Distance(b, t) + TapPlace
         /\ Distance(b, t) < IF TapSegment # 0 /\ segmentZeroSamples[b] # 0
                             THEN params.input_samples_per_iteration ELSE 0
      THEN 1 ELSE 0

Remembers(b, t) == Filtered(b) /\ RingAt(b, t) /\ OverlapAt(b, t)

(* The geometry a piece relies on.                                         *)
Geometry ==
  /\ params.segments_count \in Nat \ {0}
  /\ params.input_samples_per_iteration \in Nat \ {0}
  /\ params.input_samples_per_iteration % 2 = 0
  /\ params.fir_samples_per_iteration \in Nat \ {0}
  /\ params.input_samples_per_iteration + params.fir_samples_per_iteration = 2 * FftLength
  /\ params.fir_samples_per_iteration <= params.input_samples_per_iteration
  /\ params.overlap_length \in Nat
  /\ params.fir_samples_per_iteration <= params.overlap_length
  /\ params.overlap_length <= 2 * FftLength
  /\ TapSegment \in 0 .. params.segments_count - 1
  /\ TapPlace \in 0 .. params.fir_samples_per_iteration - 1
  /\ TapSegment # 0 =>
       /\ params.segments_count > 1
       /\ params.input_samples_per_iteration + TapPlace <= params.overlap_length
  /\ impulse = <<impulse[1], impulse[2]>> /\ impulse[2] \in Int

TapIsThere == tap = TapSegment * params.input_samples_per_iteration + TapPlace

(* A piece of even size in an iteration of block b, at stream time t.      *)
PieceFits(b, t, size) ==
  /\ segmentZeroSamples[b] \in 0 .. params.input_samples_per_iteration - 1
  /\ segmentZeroSamples[b] % 2 = 0
  /\ segmentOffset[b] \in 0 .. params.segments_count - 1
  /\ t \in Int
  /\ size \in Nat /\ size % 2 = 0
  /\ segmentZeroSamples[b] + size <= params.input_samples_per_iteration
  /\ size = 0 /\ segmentZeroSamples[b] = 0 => params.segments_count = 1

-----------------------------------------------------------------------------
(* A piece, by its parts                                                   *)

LoadedOf(b, from, size) ==
  LoadChecked([n \in 0 .. size - 1 |-> InputSample(b, from + n)], size,
              segmentZeroSamples[b])

SegmentOf(b, from, size) == SegmentWith(b, LoadedOf(b, from, size))

HistoryOf(b) == IF segmentZeroSamples[b] = 0 THEN History(b) ELSE Silence

ResultOf(b, from, size) ==
  Plus(HistoryOf(b), Convolved(SegmentOf(b, from, size), responses[b][0]))

OverOf(b, size, i) ==
  overlap[OverlapBase(b) + i]
  + IF Opens(b, size) /\ i >= size THEN HistoryOf(b)[i] ELSE 0

LeftOf(b, from, size, i) ==
  LET n == i + params.input_samples_per_iteration
  IN  (IF n < params.overlap_length THEN OverOf(b, size, n) ELSE 0)
      + (IF n \in Points THEN ResultOf(b, from, size)[n] ELSE 0)

LEMMA PieceStoresSegment ==
  ASSUME NEW b \in Blocks, NEW from, NEW size, ProcessInternal(b, from, size)
  PROVE  fourierInputSegments' =
           IF segmentZeroSamples[b] # 0 \/ params.segments_count > 1
              \/ size # params.input_samples_per_iteration
           THEN [fourierInputSegments EXCEPT
                   ![SegmentBase(b) + segmentOffset[b]] = SegmentOf(b, from, size)]
           ELSE fourierInputSegments
  BY DEF ProcessInternal, LoadedOf, SegmentOf

LEMMA PieceAddsOverlap ==
  ASSUME NEW b \in Blocks, NEW from, NEW size, ProcessInternal(b, from, size)
  PROVE  overlap' = [j \in DOMAIN overlap |->
           IF j - OverlapBase(b) \in 0 .. params.overlap_length - 1
           THEN IF Completes(b, size) THEN LeftOf(b, from, size, j - OverlapBase(b))
                ELSE OverOf(b, size, j - OverlapBase(b))
           ELSE overlap[j]]
  BY DEF ProcessInternal, LoadedOf, SegmentOf, HistoryOf, ResultOf, OverOf, LeftOf

LEMMA PieceWritesOutput ==
  ASSUME NEW b \in Blocks, NEW from, NEW size, ProcessInternal(b, from, size)
  PROVE  output' = [output EXCEPT ![b] =
           [i \in DOMAIN @ \cup from .. from + size - 1 |->
              IF i \notin from .. from + size - 1 THEN @[i]
              ELSE LET j == segmentZeroSamples[b] + i - from
                   IN  ResultOf(b, from, size)[j]
                       + IF j < params.overlap_length THEN OverOf(b, size, j) ELSE 0]]
  BY DEF ProcessInternal, LoadedOf, SegmentOf, HistoryOf, ResultOf, OverOf

LEMMA HeardIs ==
  ASSUME NEW b, NEW from, NEW count,
         NEW e, e <=> (impulse[1] = b /\ impulse[2] - from \in 0 .. count - 1),
         NEW x, x = impulse[2] - from
  PROVE  Heard(b, from, count) = Pulse(e, x)
  BY DEF Heard, Pulse

LEMMA LoadedHeard ==
  ASSUME Geometry, NEW b \in Blocks, NEW t, NEW size, PieceFits(b, t, size),
         NEW from \in Int, start \in Int, t = start + from
  PROVE  LoadedOf(b, from, size) =
           Pulse(impulse[1] = b /\ impulse[2] - t \in 0 .. size - 1,
                 impulse[2] - IterationStart(b, t))
<1> DEFINE zero == segmentZeroSamples[b]
           piece == [n \in 0 .. size - 1 |-> InputSample(b, from + n)]
           e == impulse[1] = b /\ impulse[2] - t \in 0 .. size - 1
           x == impulse[2] - IterationStart(b, t)
<1>1. /\ size \in Nat /\ size % 2 = 0 /\ zero \in Nat /\ zero % 2 = 0
      /\ t \in Int /\ impulse[2] \in Int
  BY SMT DEF Geometry, PieceFits
<1>2. x \in Int /\ x - zero = impulse[2] - t
  BY <1>1, SMT DEF IterationStart
<1>3. \A n \in 0 .. size - 1 : piece[n] = IF e /\ n = x - zero THEN 1 ELSE 0
  <2> SUFFICES ASSUME NEW n \in 0 .. size - 1
               PROVE  InputSample(b, from + n) = IF e /\ n = x - zero THEN 1 ELSE 0
    OBVIOUS
  <2>1. impulse = <<b, start + (from + n)>> <=>
          impulse[1] = b /\ impulse[2] = start + (from + n)
    BY DEF Geometry
  <2>2. impulse[2] = start + (from + n) <=> n = impulse[2] - t
    BY <1>1, SMT
  <2>3. impulse = <<b, start + (from + n)>> <=> e /\ n = x - zero
    BY <1>2, <2>1, <2>2
  <2> HIDE DEF e, x, zero
  <2> QED
    BY <2>3 DEF InputSample
<1>4. e => x - zero \in 0 .. size - 1
  BY <1>2
<1> HIDE DEF zero, piece, e, x
<1>5. LoadChecked(piece, size, zero) = Pulse(e, x)
  BY <1>1, <1>2, <1>3, <1>4, LoadedPulse
<1> QED
  BY <1>5 DEF LoadedOf, piece, zero, e, x

(* The newest segment, with a piece in its place, is the input so far.     *)
LEMMA SegmentHeard ==
  ASSUME Geometry, NEW b \in Blocks, NEW t, NEW size, PieceFits(b, t, size),
         NEW from \in Int, start \in Int, t = start + from, RingAt(b, t)
  PROVE  SegmentOf(b, from, size) =
           Heard(b, IterationStart(b, t), segmentZeroSamples[b] + size)
<1> DEFINE hit == impulse[1] = b
           zero == segmentZeroSamples[b]
           x == impulse[2] - IterationStart(b, t)
           late == hit /\ impulse[2] - t \in 0 .. size - 1
           all == hit /\ x \in 0 .. zero + size - 1
<1>1. /\ size \in Nat /\ zero \in Nat /\ t \in Int /\ impulse[2] \in Int
      /\ x = impulse[2] - t + zero
  BY SMT DEF Geometry, PieceFits, IterationStart
<1>2. LoadedOf(b, from, size) = Pulse(late, x)
  BY LoadedHeard
<1>3. Heard(b, IterationStart(b, t), zero + size) = Pulse(all, x)
  <2> DEFINE count == zero + size
             from0 == IterationStart(b, t)
  <2>1. (all <=> (impulse[1] = b /\ impulse[2] - from0 \in 0 .. count - 1))
        /\ x = impulse[2] - from0
    BY <1>1, (zero + size) - 1 = zero + size - 1, SMT
  <2> HIDE DEF all, x, count, from0
  <2>2. Heard(b, from0, count) = Pulse(all, x)
    BY <2>1, HeardIs
  <2> QED
    BY <2>2 DEF count, from0
<1>4. CASE zero = 0
  <2>1. late <=> all
    BY <1>1, <1>4, SMT
  <2>2. Pulse(late, x) = Pulse(all, x)
    <3> HIDE DEF late, all, x
    <3> QED
      BY <2>1 DEF Pulse
  <2> QED
    BY <1>2, <1>3, <1>4, <2>2 DEF SegmentOf, SegmentWith
<1>5. CASE zero # 0
  <2> DEFINE early == hit /\ x \in 0 .. zero - 1
  <2>1. fourierInputSegments[SegmentBase(b) + segmentOffset[b]] = Pulse(early, x)
    <3>1. 0 \in 0 .. params.segments_count - 1
          /\ (segmentOffset[b] + 0) % params.segments_count = segmentOffset[b]
      <4>1. \A n \in Nat \ {0} : \A o \in 0 .. n - 1 :
              0 \in 0 .. n - 1 /\ o + 0 = o /\ o \in 0 .. n /\ o # n /\ o % n = o
        BY ModAtMost, SMT
      <4>2. params.segments_count \in Nat \ {0}
            /\ segmentOffset[b] \in 0 .. params.segments_count - 1
        BY DEF Geometry, PieceFits
      <4> QED
        BY <4>1, <4>2
    <3>2. Ring(b, 0) = fourierInputSegments[SegmentBase(b) + segmentOffset[b]]
      BY <3>1 DEF Ring
    <3>3. IterationStart(b, t) - 0 * params.input_samples_per_iteration = IterationStart(b, t)
      BY <1>1, SMT DEF IterationStart, Geometry
    <3>4. Ring(b, 0) = Heard(b, IterationStart(b, t), zero)
      BY <1>5, <3>1, <3>3 DEF RingAt
    <3> QED
      BY <3>2, <3>4 DEF Heard
  <2>2. ~(early /\ late) /\ (early \/ late <=> all)
    BY <1>1, <1>5, SMT
  <2>3. SegmentOf(b, from, size) = Plus(Pulse(early, x), Pulse(late, x))
    BY <1>2, <1>5, <2>1 DEF SegmentOf, SegmentWith
  <2> HIDE DEF early, late, all, x
  <2>4. Plus(Pulse(early, x), Pulse(late, x)) = Pulse(all, x)
    BY <2>2, PlusPulses
  <2> QED
    BY <1>3, <2>3, <2>4
<1> QED
  BY <1>4, <1>5

(* Input that one segment of the ring has heard, through its segment of    *)
(* the filter.                                                             *)
LEMMA SegmentThroughFilter ==
  ASSUME Geometry, NEW b \in Blocks, Filtered(b), NEW from \in Int,
         NEW count \in 0 .. params.input_samples_per_iteration,
         NEW i \in 0 .. params.segments_count - 1
  PROVE  Convolved(Heard(b, from, count), responses[b][i]) =
           Pulse((impulse[1] = b /\ impulse[2] - from \in 0 .. count - 1)
                 /\ i = TapSegment,
                 impulse[2] - from + TapPlace)
<1> DEFINE x == impulse[2] - from
           c == impulse[1] = b /\ x \in 0 .. count - 1
           d == i = TapSegment
           e == c /\ d
           q == x + TapPlace
<1>1. responses[b][i] = Pulse(d, TapPlace)
  BY DEF Filtered
<1>2. /\ x \in Int /\ TapPlace \in Int
      /\ c => x \in Points /\ TapPlace \in Points /\ x + TapPlace \in Points
  BY SMT DEF Geometry, Points
<1>3. Heard(b, from, count) = Pulse(c, x)
  BY DEF Heard
<1>4. (e <=> (c /\ d)) /\ q = x + TapPlace
  OBVIOUS
<1> HIDE DEF c, d, x, e, q
<1>5. Convolved(Pulse(c, x), Pulse(d, TapPlace)) = Pulse(e, q)
  BY <1>2, <1>4, ConvolvedPulses
<1> QED
  BY <1>1, <1>3, <1>5 DEF c, d, x, e, q

(* At the first sample of an iteration the older segments contribute the   *)
(* unit sample of the output if it comes from one of them.                 *)
LEMMA HistoryHeard ==
  ASSUME Geometry, NEW b \in Blocks, NEW t \in Int, segmentZeroSamples[b] \in Nat,
         Filtered(b), RingAt(b, t),
         NEW e, e <=> /\ impulse[1] = b /\ segmentZeroSamples[b] = 0 /\ TapSegment # 0
                      /\ Distance(b, t) \in 0 .. params.input_samples_per_iteration - 1
  PROVE  HistoryOf(b) = Pulse(e, Distance(b, t) + TapPlace)
<1> DEFINE n == params.segments_count
           m == params.input_samples_per_iteration
           term(i) == Convolved(Ring(b, i), responses[b][i])
           from(i) == IterationStart(b, t) - i * m
           heard(i) == (impulse[1] = b /\ impulse[2] - from(i) \in 0 .. m - 1)
                       /\ i = TapSegment
<1>1. /\ n \in Nat \ {0} /\ m \in Nat \ {0} /\ impulse[2] \in Int /\ TapPlace \in Int
      /\ IterationStart(b, t) \in Int /\ TapSegment \in 0 .. n - 1
  BY SMT DEF Geometry, IterationStart
<1>2. ASSUME NEW i \in 1 .. n - 1
      PROVE  term(i) = Pulse(heard(i), impulse[2] - from(i) + TapPlace)
  <2>1. i \in 0 .. n - 1 /\ i # 0 /\ i \in Int
    BY <1>1, SMT
  <2>2. Ring(b, i) = Heard(b, from(i), m)
    BY <2>1 DEF RingAt
  <2>3. from(i) \in Int /\ m \in 0 .. m
    BY <1>1, <2>1, SMT
  <2> HIDE DEF from, m
  <2> QED
    BY <2>1, <2>2, <2>3, SegmentThroughFilter DEF m
<1>3. \A i \in 1 .. n - 1 : term(i) \in Signals /\ (i # TapSegment => term(i) = Silence)
  <2> SUFFICES ASSUME NEW i \in 1 .. n - 1
               PROVE  term(i) \in Signals /\ (i # TapSegment => term(i) = Silence)
    OBVIOUS
  <2> DEFINE c == heard(i)
             x == impulse[2] - from(i) + TapPlace
  <2>1. term(i) = Pulse(c, x) /\ (i # TapSegment => ~c)
    BY <1>2
  <2> HIDE DEF term, c, x
  <2> QED
    BY <2>1, PulseSignal
<1>4. CASE segmentZeroSamples[b] = 0
  <2>1. History(b) = IF TapSegment \in 1 .. n - 1 THEN term(TapSegment) ELSE Silence
    <3> HIDE DEF heard, from
    <3> QED
      BY <1>1, <1>3, HistoryOfOne
  <2>2. CASE TapSegment = 0
    <3>1. TapSegment \notin 1 .. n - 1 /\ ~e
      BY <2>2, SMT
    <3> QED
      BY <1>4, <2>1, <3>1, PulseSignal DEF HistoryOf
  <2>3. CASE TapSegment # 0
    <3> DEFINE k == TapSegment
               x == impulse[2] - from(k) + TapPlace
               y == Distance(b, t) + TapPlace
    <3>1. k \in 1 .. n - 1
      BY <1>1, <2>3, SMT
    <3>2. HistoryOf(b) = Pulse(heard(k), x)
      BY <1>2, <1>4, <2>1, <3>1 DEF HistoryOf
    <3>3. impulse[2] - from(k) = Distance(b, t)
      <4>1. k * m \in Int
        BY <1>1, SMT
      <4> QED
        BY <1>1, <4>1, SMT DEF Distance
    <3>4. (heard(k) <=> e) /\ x = y
      BY <1>4, <2>3, <3>3
    <3> HIDE DEF heard, x, y
    <3>5. Pulse(heard(k), x) = Pulse(e, y)
      BY <3>4 DEF Pulse
    <3> QED
      BY <3>2, <3>5 DEF y
  <2> QED
    BY <2>2, <2>3
<1>5. CASE segmentZeroSamples[b] # 0
  BY <1>5, PulseSignal DEF HistoryOf
<1> QED
  BY <1>4, <1>5

(* What a piece makes of its input and of the older segments.              *)
LEMMA ResultHeard ==
  ASSUME Geometry, NEW b \in Blocks, NEW t, NEW size, PieceFits(b, t, size),
         NEW from \in Int, start \in Int, t = start + from, Filtered(b), RingAt(b, t),
         NEW e, e <=> /\ impulse[1] = b
                      /\ Distance(b, t) \in 0 .. params.input_samples_per_iteration - 1
                      /\ IF TapSegment = 0 THEN Distance(b, t) < segmentZeroSamples[b] + size
                         ELSE segmentZeroSamples[b] = 0
  PROVE  ResultOf(b, from, size) = Pulse(e, Distance(b, t) + TapPlace)
<1> DEFINE m == params.input_samples_per_iteration
           count == segmentZeroSamples[b] + size
           x == impulse[2] - IterationStart(b, t)
           p == Distance(b, t) + TapPlace
           old == /\ impulse[1] = b /\ segmentZeroSamples[b] = 0 /\ TapSegment # 0
                  /\ Distance(b, t) \in 0 .. m - 1
           new == (impulse[1] = b /\ x \in 0 .. count - 1) /\ 0 = TapSegment
<1>1. /\ m \in Nat \ {0} /\ impulse[2] \in Int /\ TapPlace \in Int /\ t \in Int
      /\ TapSegment \in Int /\ segmentZeroSamples[b] \in Nat /\ size \in Nat
      /\ count \in 0 .. m /\ 0 \in 0 .. params.segments_count - 1
  BY SMT DEF Geometry, PieceFits
<1>2. /\ IterationStart(b, t) \in Int /\ x \in Int
      /\ TapSegment = 0 => Distance(b, t) = x
  BY <1>1, SMT DEF IterationStart, Distance
<1>3. HistoryOf(b) = Pulse(old, p)
  <2> HIDE DEF old
  <2>1. old <=> /\ impulse[1] = b /\ segmentZeroSamples[b] = 0 /\ TapSegment # 0
                /\ Distance(b, t) \in 0 .. params.input_samples_per_iteration - 1
    BY DEF old
  <2> QED
    BY <1>1, <2>1, HistoryHeard
<1>4. Convolved(SegmentOf(b, from, size), responses[b][0]) = Pulse(new, p)
  <2>1. SegmentOf(b, from, size) = Heard(b, IterationStart(b, t), count)
    BY SegmentHeard
  <2>2. Convolved(Heard(b, IterationStart(b, t), count), responses[b][0])
          = Pulse(new, x + TapPlace)
    <3> HIDE DEF count
    <3> QED
      BY <1>1, <1>2, SegmentThroughFilter
  <2>3. Pulse(new, x + TapPlace) = Pulse(new, p)
    <3> DEFINE q == x + TapPlace
    <3>1. new => q = p
      BY <1>2
    <3> HIDE DEF new, q, p
    <3>2. Pulse(new, q) = Pulse(new, p)
      BY <3>1 DEF Pulse
    <3> QED
      BY <3>2 DEF q
  <2> QED
    BY <2>1, <2>2, <2>3
<1>5. ~(old /\ new) /\ (e <=> old \/ new)
  <2>1. CASE TapSegment = 0
    <3>1. Distance(b, t) = x
      BY <1>2, <2>1
    <3>2. e <=> new
      BY <1>1, <1>2, <2>1, <3>1, SMT
    <3> QED
      BY <2>1, <3>2
  <2>2. CASE TapSegment # 0
    BY <2>2
  <2> QED
    BY <2>1, <2>2
<1> HIDE DEF old, new, p
<1>6. Plus(Pulse(old, p), Pulse(new, p)) = Pulse(e, p)
  BY <1>5, PlusPulses
<1> QED
  BY <1>3, <1>4, <1>6 DEF ResultOf, p

(* The overlap, with what the older segments contribute to the samples     *)
(* after the piece that opens an iteration.                                *)
LEMMA OverHeard ==
  ASSUME Geometry, NEW b \in Blocks, NEW t, NEW size, PieceFits(b, t, size),
         Remembers(b, t),
         NEW j \in segmentZeroSamples[b] .. params.overlap_length - 1
  PROVE  OverOf(b, size, j) =
           IF /\ impulse[1] = b /\ j = Distance(b, t) + TapPlace
              /\ \/ Distance(b, t) < 0
                 \/ /\ Distance(b, t) < params.input_samples_per_iteration
                    /\ TapSegment # 0
                    /\ segmentZeroSamples[b] # 0 \/ (Opens(b, size) /\ j >= size)
           THEN 1 ELSE 0
<1> DEFINE m == params.input_samples_per_iteration
           D == Distance(b, t)
           zero == segmentZeroSamples[b]
           later == Opens(b, size) /\ j >= size
           old == impulse[1] = b /\ zero = 0 /\ TapSegment # 0 /\ D \in 0 .. m - 1
           here == impulse[1] = b /\ j = D + TapPlace
<1>1. /\ m \in Nat \ {0} /\ D \in Int /\ zero \in Nat /\ t \in Int /\ j \in Points
      /\ TapPlace \in Int
  <2>1. /\ m \in Nat \ {0} /\ impulse[2] \in Int /\ t \in Int /\ zero \in Nat
        /\ TapSegment \in Int /\ TapPlace \in Int
        /\ params.overlap_length \in Nat /\ params.overlap_length <= 2 * FftLength
    BY SMT DEF Geometry, PieceFits
  <2>2. TapSegment * m \in Int
    BY <2>1, SMT
  <2>3. D \in Int
    BY <2>1, <2>2, SMT DEF Distance, IterationStart
  <2>4. j \in zero .. params.overlap_length - 1
    OBVIOUS
  <2> HIDE DEF zero, m, D
  <2>5. j \in Points
    BY <2>1, <2>4, FftLengthAssumption, SMT DEF Points
  <2> QED
    BY <2>1, <2>3, <2>5
<1>2. overlap[OverlapBase(b) + j] =
        IF here /\ D < (IF TapSegment # 0 /\ zero # 0 THEN m ELSE 0) THEN 1 ELSE 0
  BY DEF Remembers, OverlapAt
<1>3. HistoryOf(b)[j] = IF old /\ j = D + TapPlace THEN 1 ELSE 0
  <2> DEFINE p == D + TapPlace
  <2>1. old <=> /\ impulse[1] = b /\ segmentZeroSamples[b] = 0 /\ TapSegment # 0
                /\ Distance(b, t) \in 0 .. params.input_samples_per_iteration - 1
    OBVIOUS
  <2> HIDE DEF old
  <2>2. HistoryOf(b) = Pulse(old, p)
    BY <1>1, <2>1, HistoryHeard DEF Remembers
  <2>3. Pulse(old, p)[j] = IF old /\ j = p THEN 1 ELSE 0
    <3>1. j \in Points
      BY <1>1
    <3> HIDE DEF p
    <3> QED
      BY <3>1 DEF Pulse
  <2> QED
    BY <2>2, <2>3
<1>4. OverOf(b, size, j) = overlap[OverlapBase(b) + j]
                           + IF later THEN HistoryOf(b)[j] ELSE 0
  BY DEF OverOf
<1>5. later => zero = 0
  BY DEF Opens
<1> HIDE DEF later, D, zero, m
<1>6. CASE later
  <2>1. overlap[OverlapBase(b) + j] = IF here /\ D < 0 THEN 1 ELSE 0
    BY <1>2, <1>5, <1>6
  <2>2. HistoryOf(b)[j] = IF here /\ TapSegment # 0 /\ 0 <= D /\ D < m THEN 1 ELSE 0
    BY <1>1, <1>3, <1>5, <1>6, SMT
  <2> HIDE DEF here
  <2>3. OverOf(b, size, j) =
          IF here /\ (D < 0 \/ (D < m /\ TapSegment # 0)) THEN 1 ELSE 0
    BY <1>1, <1>4, <1>6, <2>1, <2>2, SMT
  <2> QED
    BY <1>6, <2>3 DEF here, D, zero, m, later
<1>7. CASE ~later
  <2>1. OverOf(b, size, j) = overlap[OverlapBase(b) + j]
    BY <1>2, <1>4, <1>7, SMT
  <2> HIDE DEF here
  <2>2. OverOf(b, size, j) =
          IF here /\ (D < 0 \/ (D < m /\ TapSegment # 0 /\ zero # 0)) THEN 1 ELSE 0
    BY <1>1, <1>2, <2>1, SMT
  <2> QED
    BY <1>7, <2>2 DEF here, D, zero, m, later
<1> QED
  BY <1>6, <1>7

(* The samples a piece writes are the output of the filter.                *)
LEMMA OutputHeard ==
  ASSUME Geometry, NEW b \in Blocks, NEW t, NEW size, PieceFits(b, t, size),
         NEW from \in Int, start \in Int, t = start + from, Remembers(b, t),
         NEW j \in segmentZeroSamples[b] .. segmentZeroSamples[b] + size - 1
  PROVE  ResultOf(b, from, size)[j]
         + (IF j < params.overlap_length THEN OverOf(b, size, j) ELSE 0)
         = IF impulse[1] = b /\ j = Distance(b, t) + TapPlace THEN 1 ELSE 0
<1> DEFINE m == params.input_samples_per_iteration
           D == Distance(b, t)
           zero == segmentZeroSamples[b]
           s == TapSegment
           here == impulse[1] = b /\ j = D + TapPlace
           e == /\ impulse[1] = b /\ D \in 0 .. m - 1
                /\ IF s = 0 THEN D < zero + size ELSE zero = 0
<1>1. /\ m \in Nat \ {0} /\ impulse[2] \in Int /\ t \in Int /\ zero \in Nat
      /\ s \in Nat /\ TapPlace \in Nat /\ size \in Nat /\ zero + size <= m
      /\ TapPlace < params.overlap_length
      /\ params.overlap_length \in Nat
      /\ s # 0 => m + TapPlace <= params.overlap_length
  BY SMT DEF Geometry, PieceFits
<1>2. D \in Int
  <2>1. s * m \in Int
    BY <1>1, SMT
  <2> QED
    BY <1>1, <2>1, SMT DEF Distance, IterationStart
<1>3. j \in Points /\ j \in Nat /\ j < m /\ j < zero + size /\ zero <= j
  <2>1. m <= 2 * FftLength
    BY SMT DEF Geometry
  <2>2. j \in zero .. zero + size - 1
    OBVIOUS
  <2> HIDE DEF zero, m
  <2> QED
    BY <1>1, <2>1, <2>2, FftLengthAssumption, SMT DEF Points
<1>4. ResultOf(b, from, size)[j] = IF e /\ j = D + TapPlace THEN 1 ELSE 0
  <2> DEFINE p == D + TapPlace
  <2>1. e <=> /\ impulse[1] = b
              /\ Distance(b, t) \in 0 .. params.input_samples_per_iteration - 1
              /\ IF TapSegment = 0 THEN Distance(b, t) < segmentZeroSamples[b] + size
                 ELSE segmentZeroSamples[b] = 0
    OBVIOUS
  <2> HIDE DEF e
  <2>2. ResultOf(b, from, size) = Pulse(e, p)
    BY <2>1, ResultHeard DEF Remembers
  <2>3. Pulse(e, p)[j] = IF e /\ j = p THEN 1 ELSE 0
    <3> HIDE DEF p
    <3> QED
      BY <1>3, PulseSignal
  <2> QED
    BY <2>2, <2>3
<1>5. ~ (Opens(b, size) /\ j >= size)
  BY <1>1, <1>3, SMT DEF Opens
<1>6. j < params.overlap_length =>
        OverOf(b, size, j) = IF here /\ (D < 0 \/ (D < m /\ s # 0 /\ zero # 0)) THEN 1 ELSE 0
  <2> SUFFICES ASSUME j < params.overlap_length
               PROVE  OverOf(b, size, j) =
                        IF here /\ (D < 0 \/ (D < m /\ s # 0 /\ zero # 0)) THEN 1 ELSE 0
    OBVIOUS
  <2>1. j \in segmentZeroSamples[b] .. params.overlap_length - 1
    BY <1>1, <1>3, SMT
  <2> QED
    BY <1>5, <2>1, OverHeard
<1>7. ~here => ~ (e /\ j = D + TapPlace)
  OBVIOUS
<1>8. here => /\ e /\ j = D + TapPlace <=> D >= 0 /\ (s # 0 => zero = 0)
              /\ D < m
              /\ D < 0 \/ s # 0 => j < params.overlap_length
  <2> SUFFICES ASSUME here
               PROVE  /\ e /\ j = D + TapPlace <=> D >= 0 /\ (s # 0 => zero = 0)
                      /\ D < m
                      /\ D < 0 \/ s # 0 => j < params.overlap_length
    OBVIOUS
  <2>1. impulse[1] = b /\ j = D + TapPlace
    OBVIOUS
  <2> HIDE DEF D, zero, m, s
  <2>2. D < m /\ D < zero + size
    BY <1>1, <1>2, <1>3, <2>1, SMT
  <2>3. D < 0 \/ s # 0 => j < params.overlap_length
    BY <1>1, <1>2, <1>3, <2>1, <2>2, SMT
  <2>4. e <=> D >= 0 /\ (s # 0 => zero = 0)
    BY <1>1, <1>2, <2>1, <2>2, SMT
  <2> QED
    BY <2>1, <2>2, <2>3, <2>4
<1> HIDE DEF D, zero, m, s
<1>9. CASE here
  <2> HIDE DEF here, e
  <2>1. CASE D >= 0 /\ (s # 0 => zero = 0)
    <3>1. ResultOf(b, from, size)[j] = 1
      BY <1>4, <1>8, <1>9, <2>1
    <3>2. ~(D < 0 \/ (D < m /\ s # 0 /\ zero # 0))
      BY <1>2, <2>1, SMT
    <3>3. (IF j < params.overlap_length THEN OverOf(b, size, j) ELSE 0) = 0
      BY <1>6, <3>2
    <3> QED
      BY <1>9, <3>1, <3>3, SMT DEF here, D
  <2>2. CASE ~(D >= 0 /\ (s # 0 => zero = 0))
    <3>1. ResultOf(b, from, size)[j] = 0
      BY <1>4, <1>8, <1>9, <2>2
    <3>2. (D < 0 \/ (D < m /\ s # 0 /\ zero # 0)) /\ j < params.overlap_length
      BY <1>2, <1>8, <1>9, <2>2, SMT
    <3>3. OverOf(b, size, j) = 1
      BY <1>6, <1>9, <3>2
    <3> QED
      BY <1>9, <3>1, <3>2, <3>3, SMT DEF here, D
  <2> QED
    BY <2>1, <2>2
<1>10. CASE ~here
  <2>1. ResultOf(b, from, size)[j] = 0
    BY <1>4, <1>7, <1>10
  <2>2. (IF j < params.overlap_length THEN OverOf(b, size, j) ELSE 0) = 0
    BY <1>6, <1>10
  <2> QED
    BY <1>10, <2>1, <2>2, SMT DEF D
<1> QED
  BY <1>9, <1>10

(* What a completed iteration leaves for the next one.                     *)
LEMMA LeftHeard ==
  ASSUME Geometry, NEW b \in Blocks, NEW t, NEW size, PieceFits(b, t, size),
         NEW from \in Int, start \in Int, t = start + from, Remembers(b, t),
         Completes(b, size), NEW i \in 0 .. params.overlap_length - 1
  PROVE  LeftOf(b, from, size, i) =
           IF /\ impulse[1] = b
              /\ i + params.input_samples_per_iteration = Distance(b, t) + TapPlace
              /\ Distance(b, t) < params.input_samples_per_iteration
           THEN 1 ELSE 0
<1> DEFINE m == params.input_samples_per_iteration
           D == Distance(b, t)
           zero == segmentZeroSamples[b]
           s == TapSegment
           j == i + m
           here == impulse[1] = b /\ j = D + TapPlace
           e == /\ impulse[1] = b /\ D \in 0 .. m - 1
                /\ IF s = 0 THEN D < zero + size ELSE zero = 0
<1>1. /\ m \in Nat \ {0} /\ impulse[2] \in Int /\ t \in Int /\ zero \in Nat
      /\ s \in Nat /\ TapPlace \in Nat /\ size \in Nat /\ zero + size = m
      /\ TapPlace < m /\ m + TapPlace <= 2 * FftLength - 1
      /\ params.overlap_length \in Nat
      /\ s # 0 => m + TapPlace <= params.overlap_length
  BY SMT DEF Geometry, PieceFits, Completes
<1>2. D \in Int
  <2>1. s * m \in Int
    BY <1>1, SMT
  <2> QED
    BY <1>1, <2>1, SMT DEF Distance, IterationStart
<1>3. i \in Nat /\ j \in Nat /\ m <= j
  BY <1>1, SMT
<1>4. ASSUME j \in Points
      PROVE  ResultOf(b, from, size)[j] = IF e /\ j = D + TapPlace THEN 1 ELSE 0
  <2> DEFINE p == D + TapPlace
  <2>1. e <=> /\ impulse[1] = b
              /\ Distance(b, t) \in 0 .. params.input_samples_per_iteration - 1
              /\ IF TapSegment = 0 THEN Distance(b, t) < segmentZeroSamples[b] + size
                 ELSE segmentZeroSamples[b] = 0
    OBVIOUS
  <2> HIDE DEF e
  <2>2. ResultOf(b, from, size) = Pulse(e, p)
    BY <2>1, ResultHeard DEF Remembers
  <2>3. Pulse(e, p)[j] = IF e /\ j = p THEN 1 ELSE 0
    <3> HIDE DEF p, j
    <3> QED
      BY <1>4 DEF Pulse
  <2> QED
    BY <2>2, <2>3
<1>5. ASSUME j < params.overlap_length
      PROVE  OverOf(b, size, j) = IF here /\ (D < 0 \/ (D < m /\ s # 0 /\ zero # 0))
                                  THEN 1 ELSE 0
  <2>1. j \in segmentZeroSamples[b] .. params.overlap_length - 1
    BY <1>1, <1>3, <1>5, SMT
  <2>2. ~ Opens(b, size)
    BY <1>1, SMT DEF Opens
  <2> HIDE DEF j
  <2> QED
    BY <2>1, <2>2, OverHeard
<1>6. LeftOf(b, from, size, i) = (IF j < params.overlap_length THEN OverOf(b, size, j) ELSE 0)
                                 + (IF j \in Points THEN ResultOf(b, from, size)[j] ELSE 0)
  BY DEF LeftOf
<1> HIDE DEF D, zero, m, s, j
<1>7. here => D >= 0
  BY <1>1, <1>2, <1>3, SMT
<1>8. CASE here /\ D < m
  <2>1. j = D + TapPlace /\ impulse[1] = b
    BY <1>8
  <2>2. j \in Points
    BY <1>1, <1>2, <1>3, <1>8, <2>1, FftLengthAssumption, SMT DEF Points
  <2>3. e <=> (s # 0 => zero = 0)
    BY <1>1, <1>2, <1>7, <1>8, <2>1, SMT
  <2> HIDE DEF here, e
  <2>4. CASE s # 0 => zero = 0
    <3>1. ResultOf(b, from, size)[j] = 1
      BY <1>4, <2>1, <2>2, <2>3, <2>4
    <3>2. ~(D < 0 \/ (D < m /\ s # 0 /\ zero # 0))
      BY <1>2, <1>7, <1>8, <2>4, SMT
    <3>3. (IF j < params.overlap_length THEN OverOf(b, size, j) ELSE 0) = 0
      BY <1>5, <3>2
    <3> QED
      BY <1>6, <1>8, <2>2, <3>1, <3>3, SMT DEF here, D, m, j
  <2>5. CASE s # 0 /\ zero # 0
    <3>1. ResultOf(b, from, size)[j] = 0
      BY <1>4, <2>2, <2>3, <2>5
    <3>2. j < params.overlap_length
      BY <1>1, <1>2, <1>8, <2>1, <2>5, SMT
    <3>3. OverOf(b, size, j) = 1
      BY <1>5, <1>8, <2>5, <3>2
    <3> QED
      BY <1>6, <1>8, <2>2, <3>1, <3>2, <3>3, SMT DEF here, D, m, j
  <2> QED
    BY <2>4, <2>5
<1>9. CASE ~(here /\ D < m)
  <2>1. ~(e /\ j = D + TapPlace)
    BY <1>1, <1>2, <1>9, SMT
  <2>2. ~(here /\ (D < 0 \/ (D < m /\ s # 0 /\ zero # 0)))
    BY <1>7, <1>9, <1>2, SMT
  <2>3. (IF j < params.overlap_length THEN OverOf(b, size, j) ELSE 0) = 0
    BY <1>5, <2>2
  <2>4. (IF j \in Points THEN ResultOf(b, from, size)[j] ELSE 0) = 0
    BY <1>4, <2>1
  <2> HIDE DEF e
  <2> QED
    BY <1>6, <1>9, <2>3, <2>4, SMT DEF here, D, m, j
<1> QED
  BY <1>8, <1>9

(* What an open iteration keeps for its later samples.                     *)
LEMMA KeptHeard ==
  ASSUME Geometry, NEW b \in Blocks, NEW t, NEW size, PieceFits(b, t, size),
         Remembers(b, t), ~Completes(b, size),
         NEW j \in segmentZeroSamples[b] + size .. params.overlap_length - 1
  PROVE  OverOf(b, size, j) =
           IF /\ impulse[1] = b /\ j = Distance(b, t) + TapPlace
              /\ Distance(b, t) < IF TapSegment # 0 /\ segmentZeroSamples[b] + size # 0
                                  THEN params.input_samples_per_iteration ELSE 0
           THEN 1 ELSE 0
<1> DEFINE m == params.input_samples_per_iteration
           D == Distance(b, t)
           zero == segmentZeroSamples[b]
           s == TapSegment
           later == zero # 0 \/ (Opens(b, size) /\ j >= size)
<1>1. /\ m \in Nat \ {0} /\ impulse[2] \in Int /\ t \in Int /\ zero \in Nat
      /\ s \in 0 .. params.segments_count - 1 /\ size \in Nat /\ zero + size # m
      /\ params.segments_count \in Nat
      /\ size = 0 /\ zero = 0 => params.segments_count = 1
      /\ s # 0 => params.segments_count > 1
      /\ params.overlap_length \in Nat
  BY SMT DEF Geometry, PieceFits, Completes
<1>2. D \in Int
  <2>1. s * m \in Int
    BY <1>1, SMT
  <2> QED
    BY <1>1, <2>1, SMT DEF Distance, IterationStart
<1>3. j \in Int /\ zero + size <= j /\ j < params.overlap_length
  <2>1. j \in zero + size .. params.overlap_length - 1
    OBVIOUS
  <2> HIDE DEF zero
  <2> QED
    BY <1>1, <2>1, SMT
<1>4. j \in segmentZeroSamples[b] .. params.overlap_length - 1
  BY <1>1, <1>3, SMT
<1>5. s # 0 => (later <=> zero + size # 0)
  BY <1>1, <1>3, SMT DEF Opens
<1>6. OverOf(b, size, j) =
        IF impulse[1] = b /\ j = D + TapPlace /\ (D < 0 \/ (D < m /\ s # 0 /\ later))
        THEN 1 ELSE 0
  BY <1>4, OverHeard
<1>7. (D < 0 \/ (D < m /\ s # 0 /\ later)) <=>
      D < IF s # 0 /\ zero + size # 0 THEN m ELSE 0
  <2> HIDE DEF D, m, zero, s, later
  <2> QED
    BY <1>1, <1>2, <1>5, SMT
<1> QED
  BY <1>6, <1>7

-----------------------------------------------------------------------------
(* The parts of the shared buffers                                         *)

LEMMA PartsApart ==
  ASSUME NEW k \in Nat, NEW b \in Blocks, NEW d \in Blocks,
         NEW i \in 0 .. k - 1, NEW j \in 0 .. k - 1, k * b + i = k * d + j
  PROVE  b = d /\ i = j
<1>1. b \in Int /\ d \in Int
  BY ConfigsAssumption, SMT DEF Blocks
<1>2. k * (b - d) = j - i
  BY <1>1, SMT
<1>3. CASE b - d >= 1
  BY <1>1, <1>2, <1>3, k * (b - d) >= k, SMT
<1>4. CASE b - d <= -1
  BY <1>1, <1>2, <1>4, k * (b - d) <= -k, SMT
<1>5. CASE b = d
  BY <1>1, <1>2, <1>5, SMT
<1> QED
  BY <1>1, <1>3, <1>4, <1>5, SMT

(* The next position in the ring, and that the others are others.          *)
LEMMA RingIndex ==
  ASSUME NEW n \in Nat \ {0}, NEW o \in 0 .. n - 1
  PROVE  /\ (o - 1 + n) % n \in 0 .. n - 1
         /\ \A i \in 0 .. n - 1 : (o + i) % n \in 0 .. n - 1
         /\ (o + 0) % n = o
         /\ \A i \in 1 .. n - 1 : (o + i) % n # o
         /\ \A i \in 1 .. n - 1 : (((o - 1 + n) % n) + i) % n = (o + (i - 1)) % n
<1>1. \A x \in 0 .. n - 1 : x % n = x
  BY ModAtMost, SMT
<1>2. \A x \in n .. 2 * n - 1 : x % n = x - n
  <2> SUFFICES ASSUME NEW x \in n .. 2 * n - 1 PROVE x % n = x - n
    OBVIOUS
  <2> DEFINE z == x - n
  <2>1. z \in 0 .. n - 1 /\ 1 * n + z = x
    BY SMT
  <2>2. (1 * n + z) % n = z
    <3> HIDE DEF z
    <3> QED
      BY <2>1, ModUnique
  <2> QED
    BY <2>1, <2>2
<1>3. \A i \in 0 .. n - 1 : (o + i) % n = IF o + i < n THEN o + i ELSE o + i - n
  BY <1>1, <1>2, SMT
<1>4. (o - 1 + n) % n = IF o = 0 THEN n - 1 ELSE o - 1
  <2>1. CASE o = 0
    <3>1. o - 1 + n = n - 1 /\ n - 1 \in 0 .. n - 1
      BY <2>1, SMT
    <3> QED
      BY <1>1, <2>1, <3>1
  <2>2. CASE o # 0
    <3>1. o - 1 + n \in n .. 2 * n - 1 /\ o - 1 + n - n = o - 1
      BY <2>2, SMT
    <3> QED
      BY <1>2, <2>2, <3>1, SMT
  <2> QED
    BY <2>1, <2>2
<1>5. ASSUME NEW i \in 1 .. n - 1
      PROVE  (((o - 1 + n) % n) + i) % n = (o + (i - 1)) % n
  <2>1. i - 1 \in 0 .. n - 1
    BY SMT
  <2>2. (o + (i - 1)) % n = IF o + (i - 1) < n THEN o + (i - 1) ELSE o + (i - 1) - n
    BY <1>3, <2>1
  <2>3. CASE o = 0
    <3>1. n - 1 + i \in n .. 2 * n - 1 /\ n - 1 + i - n = i - 1
      BY SMT
    <3>2. (n - 1 + i) % n = n - 1 + i - n
      BY <1>2, <3>1
    <3> QED
      BY <1>4, <2>2, <2>3, <3>1, <3>2, SMT
  <2>4. CASE o # 0 /\ o + (i - 1) < n
    <3>1. o - 1 + i \in 0 .. n - 1 /\ o - 1 + i = o + (i - 1)
      BY <2>4, SMT
    <3> QED
      BY <1>4, <2>4, <3>1
  <2>5. CASE o # 0 /\ ~ (o + (i - 1) < n)
    <3>1. o - 1 + i = o + (i - 1)
      BY SMT
    <3> QED
      BY <1>4, <2>5, <3>1
  <2> QED
    BY <2>3, <2>4, <2>5
<1>6. (o + 0) % n = o
  BY <1>1, SMT
<1>7. (o - 1 + n) % n \in 0 .. n - 1
  BY <1>4, SMT
<1>8. \A i \in 0 .. n - 1 : (o + i) % n \in 0 .. n - 1
  BY <1>3, SMT
<1>9. \A i \in 1 .. n - 1 : (o + i) % n # o
  BY <1>3, SMT
<1> QED
  BY <1>5, <1>6, <1>7, <1>8, <1>9

(* Every block has room in the two buffers.                                *)
Room ==
  \A b \in Blocks :
    /\ \A i \in 0 .. params.overlap_length - 1 : OverlapBase(b) + i \in DOMAIN overlap
    /\ \A i \in 0 .. params.segments_count - 1 :
         SegmentBase(b) + i \in DOMAIN fourierInputSegments

(* What a block remembers is in its own part of the buffers.               *)
SameGeometry ==
  /\ params'.segments_count = params.segments_count
  /\ params'.input_samples_per_iteration = params.input_samples_per_iteration
  /\ params'.fir_samples_per_iteration = params.fir_samples_per_iteration
  /\ params'.overlap_length = params.overlap_length
  /\ impulse' = impulse /\ tap' = tap

LEMMA RemembersUnchanged ==
  ASSUME SameGeometry, NEW d \in Blocks,
         segmentZeroSamples[d] \in Nat, params.overlap_length \in Nat,
         segmentZeroSamples'[d] = segmentZeroSamples[d], responses'[d] = responses[d],
         \A i \in 0 .. params.segments_count - 1 : Ring(d, i)' = Ring(d, i),
         \A j \in 0 .. params.overlap_length - 1 :
           overlap'[OverlapBase(d) + j] = overlap[OverlapBase(d) + j],
         NEW t, Remembers(d, t)
  PROVE  Remembers(d, t)'
<1>1. /\ TapSegment' = TapSegment /\ TapPlace' = TapPlace
      /\ IterationStart(d, t)' = IterationStart(d, t) /\ Distance(d, t)' = Distance(d, t)
      /\ OverlapBase(d)' = OverlapBase(d)
  BY DEF SameGeometry, TapSegment, TapPlace, IterationStart, Distance, OverlapBase
<1>2. Filtered(d)'
  BY <1>1 DEF Remembers, Filtered, SameGeometry
<1>3. RingAt(d, t)'
  BY <1>1 DEF Remembers, RingAt, SameGeometry, Heard
<1>4. OverlapAt(d, t)'
  <2>1. \A j \in segmentZeroSamples[d] .. params.overlap_length - 1 :
          j \in 0 .. params.overlap_length - 1
    BY SMT
  <2>2. \A j \in segmentZeroSamples[d] .. params.overlap_length - 1 :
          overlap'[OverlapBase(d) + j] =
            IF /\ impulse[1] = d /\ j = Distance(d, t) + TapPlace
               /\ Distance(d, t) < IF TapSegment # 0 /\ segmentZeroSamples[d] # 0
                                   THEN params.input_samples_per_iteration ELSE 0
            THEN 1 ELSE 0
    BY <2>1 DEF Remembers, OverlapAt
  <2> QED
    BY <1>1, <2>2 DEF OverlapAt, SameGeometry
<1> QED
  BY <1>2, <1>3, <1>4 DEF Remembers

-----------------------------------------------------------------------------
(* A piece keeps a block's memory.                                         *)

LEMMA PieceRing ==
  ASSUME Geometry, Room, NEW b \in Blocks, NEW t, NEW size, PieceFits(b, t, size),
         NEW from \in Int, start \in Int, t = start + from, RingAt(b, t),
         UNCHANGED stream, ProcessInternal(b, from, size),
         segmentOffset \in [Blocks -> Int], segmentZeroSamples \in [Blocks -> Int]
  PROVE  RingAt(b, t + size)'
<1> DEFINE n == params.segments_count
           m == params.input_samples_per_iteration
           o == segmentOffset[b]
           zero == segmentZeroSamples[b]
           at(x) == SegmentBase(b) + x
           new == SegmentOf(b, from, size)
<1>1. /\ n \in Nat \ {0} /\ m \in Nat \ {0} /\ o \in 0 .. n - 1 /\ zero \in 0 .. m - 1
      /\ size \in Nat /\ zero + size <= m /\ t \in Int /\ impulse[2] \in Int
  BY DEF Geometry, PieceFits
<1>2. b \in Int /\ n * b \in Int
  BY <1>1, ConfigsAssumption, SMT DEF Blocks
<1>3. new = Heard(b, IterationStart(b, t), zero + size)
  BY SegmentHeard
<1>4. /\ params' = params /\ impulse' = impulse /\ SegmentBase(b)' = SegmentBase(b)
      /\ \A from0, count : Heard(b, from0, count)' = Heard(b, from0, count)
  BY DEF stream, SegmentBase, Heard
<1>5. zero \in Nat /\ zero + size \in Nat /\ zero + size \in 0 .. m
  BY <1>1, SMT
<1>6. segmentZeroSamples'[b] = IF zero + size = m THEN 0 ELSE zero + size
  <2>1. segmentZeroSamples'[b] = (zero + size) % m
    BY <1>1, <1>5, PositionOfPortion
  <2> QED
    BY <1>1, <1>5, <2>1, ModAtMost
<1>7. segmentOffset'[b] = IF zero + size = m THEN (o - 1 + n) % n ELSE o
  BY PositionOfPiece DEF Completes, NextOffset
<1>8. zero # 0 \/ n > 1 \/ size # m =>
        /\ fourierInputSegments'[at(o)] = new
        /\ \A x \in 0 .. n - 1 : x # o =>
             fourierInputSegments'[at(x)] = fourierInputSegments[at(x)]
  <2> SUFFICES ASSUME zero # 0 \/ n > 1 \/ size # m
               PROVE  /\ fourierInputSegments'[at(o)] = new
                      /\ \A x \in 0 .. n - 1 : x # o =>
                           fourierInputSegments'[at(x)] = fourierInputSegments[at(x)]
    OBVIOUS
  <2>0. fourierInputSegments' =
          IF segmentZeroSamples[b] # 0 \/ params.segments_count > 1
             \/ size # params.input_samples_per_iteration
          THEN [fourierInputSegments EXCEPT
                  ![SegmentBase(b) + segmentOffset[b]] = SegmentOf(b, from, size)]
          ELSE fourierInputSegments
    BY PieceStoresSegment
  <2>1. fourierInputSegments' = [fourierInputSegments EXCEPT ![at(o)] = new]
    BY <2>0
  <2>2. \A x \in 0 .. n - 1 : at(x) \in DOMAIN fourierInputSegments
    BY DEF Room
  <2>3. \A x \in 0 .. n - 1 : x # o => at(x) # at(o)
    BY <1>1, <1>2, SMT DEF SegmentBase
  <2> HIDE DEF at, new
  <2> QED
    BY <1>1, <2>1, <2>2, <2>3
<1>9. /\ \A i \in 0 .. n - 1 : (o + i) % n \in 0 .. n - 1
      /\ (o + 0) % n = o
      /\ \A i \in 1 .. n - 1 : (o + i) % n # o
      /\ \A i \in 1 .. n - 1 : (((o - 1 + n) % n) + i) % n = (o + (i - 1)) % n
  BY <1>1, RingIndex
<1>10. /\ \A i : Ring(b, i) = fourierInputSegments[at((o + i) % n)]
       /\ \A i : Ring(b, i)' = fourierInputSegments'[at((segmentOffset'[b] + i) % n)]
  BY <1>4 DEF Ring
<1> HIDE DEF at
<1> DEFINE base == IterationStart(b, t)
           span(i) == IF i = 0 THEN segmentZeroSamples'[b] ELSE m
<1>11. base \in Int /\ base = t - zero
  BY <1>1, SMT DEF IterationStart
<1>12. CASE zero + size = m
  <2>1. segmentZeroSamples'[b] = 0 /\ segmentOffset'[b] = (o - 1 + n) % n
    BY <1>6, <1>7, <1>12
  <2>2. IterationStart(b, t + size)' = base + m
    BY <1>1, <1>11, <1>12, <2>1, SMT DEF IterationStart
  <2>3. ASSUME NEW i \in 1 .. n - 1
        PROVE  Ring(b, i)' = Heard(b, (base + m) - i * m, m)
    <3>1. i - 1 \in 0 .. n - 1 /\ i \in 0 .. n - 1 /\ n > 1 /\ i \in Int
      BY <1>1, SMT
    <3>2. Ring(b, i)' = fourierInputSegments'[at((o + (i - 1)) % n)]
      BY <1>9, <1>10, <2>1
    <3>3. CASE i = 1
      <4>1. Ring(b, i)' = new
        BY <1>8, <1>9, <3>1, <3>2, <3>3
      <4>2. (base + m) - i * m = base
        BY <1>1, <1>11, <3>3, SMT
      <4> QED
        BY <1>3, <1>12, <4>1, <4>2
    <3>4. CASE i # 1
      <4>1. i - 1 \in 1 .. n - 1 /\ i - 1 # 0
        BY <3>1, <3>4, SMT
      <4>2. Ring(b, i)' = Ring(b, i - 1)
        BY <1>8, <1>9, <1>10, <3>1, <3>2, <4>1
      <4>3. Ring(b, i - 1) = Heard(b, base - (i - 1) * m, m)
        BY <3>1, <4>1 DEF RingAt
      <4>4. base - (i - 1) * m = (base + m) - i * m
        BY <1>1, <1>11, <3>1, SMT
      <4> QED
        BY <4>2, <4>3, <4>4
    <3> QED
      BY <3>3, <3>4
  <2>4. \A i \in 0 .. n - 1 : i # 0 => i \in 1 .. n - 1
    BY <1>1, SMT
  <2>5. ASSUME NEW i \in 0 .. n - 1, i # 0 \/ segmentZeroSamples'[b] # 0
        PROVE  Ring(b, i)' = Heard(b, IterationStart(b, t + size)' - i * m, span(i))
    <3>1. i # 0 /\ i \in 1 .. n - 1 /\ span(i) = m
      BY <2>1, <2>4, <2>5
    <3> QED
      BY <2>2, <2>3, <3>1
  <2> HIDE DEF base
  <2> QED
    BY <1>4, <2>5 DEF RingAt
<1>13. CASE zero + size # m
  <2>1. segmentZeroSamples'[b] = zero + size /\ segmentOffset'[b] = o
    BY <1>6, <1>7, <1>13
  <2>2. IterationStart(b, t + size)' = base
    BY <1>1, <1>11, <2>1, SMT DEF IterationStart
  <2>3. zero # 0 \/ n > 1 \/ size # m
    BY <1>1, <1>13, SMT
  <2>4. Ring(b, 0)' = Heard(b, base, zero + size)
    BY <1>3, <1>8, <1>9, <1>10, <2>1, <2>3
  <2>5. base - 0 * m = base
    BY <1>1, <1>11, SMT
  <2>6. ASSUME NEW i \in 1 .. n - 1
        PROVE  Ring(b, i)' = Heard(b, base - i * m, m)
    <3>1. i \in 0 .. n - 1 /\ i # 0
      BY <1>1, SMT
    <3>2. Ring(b, i)' = Ring(b, i)
      BY <1>8, <1>9, <1>10, <2>1, <2>3, <3>1
    <3>3. Ring(b, i) = Heard(b, base - i * m, m)
      BY <3>1 DEF RingAt
    <3> QED
      BY <3>2, <3>3
  <2>7. \A i \in 0 .. n - 1 : i # 0 => i \in 1 .. n - 1
    BY <1>1, SMT
  <2>8. ASSUME NEW i \in 0 .. n - 1
        PROVE  Ring(b, i)' = Heard(b, IterationStart(b, t + size)' - i * m, span(i))
    <3>1. CASE i = 0
      BY <2>1, <2>2, <2>4, <2>5, <3>1
    <3>2. CASE i # 0
      BY <2>2, <2>6, <2>7, <3>2
    <3> QED
      BY <3>1, <3>2
  <2> HIDE DEF base
  <2> QED
    BY <1>4, <2>8 DEF RingAt
<1> QED
  BY <1>12, <1>13

LEMMA PieceOverlap ==
  ASSUME Geometry, Room, NEW b \in Blocks, NEW t, NEW size, PieceFits(b, t, size),
         NEW from \in Int, start \in Int, t = start + from, Remembers(b, t),
         UNCHANGED stream, ProcessInternal(b, from, size),
         segmentOffset \in [Blocks -> Int], segmentZeroSamples \in [Blocks -> Int]
  PROVE  OverlapAt(b, t + size)'
<1> DEFINE m == params.input_samples_per_iteration
           o == params.overlap_length
           zero == segmentZeroSamples[b]
           D == Distance(b, t)
           p == TapPlace
           next == Distance(b, t + size)'
           zero1 == segmentZeroSamples'[b]
<1>1. /\ m \in Nat \ {0} /\ zero \in 0 .. m - 1 /\ zero \in Nat /\ size \in Nat
      /\ zero + size <= m /\ zero + size \in 0 .. m /\ t \in Int /\ impulse[2] \in Int
      /\ o \in Nat /\ p \in Int
  BY SMT DEF Geometry, PieceFits
<1>2. TapSegment \in Int /\ TapSegment * m \in Int
  BY <1>1, SMT DEF Geometry
<1>3. /\ params' = params /\ impulse' = impulse /\ OverlapBase(b)' = OverlapBase(b)
      /\ TapSegment' = TapSegment /\ TapPlace' = TapPlace
  BY DEF stream, OverlapBase, TapSegment, TapPlace
<1>4. D \in Int /\ next = impulse[2] - ((t + size) - zero1) + TapSegment * m
  <2>1. next = impulse'[2] - ((t + size) - zero1)
               + TapSegment' * params'.input_samples_per_iteration
    BY DEF Distance, IterationStart
  <2>2. D \in Int
    BY <1>1, <1>2, SMT DEF Distance, IterationStart
  <2> QED
    BY <1>3, <2>1, <2>2
<1>5. zero1 = IF zero + size = m THEN 0 ELSE zero + size
  <2>1. segmentZeroSamples'[b] = (zero + size) % m
    BY <1>1, PositionOfPortion
  <2> QED
    BY <1>1, <2>1, ModAtMost
<1>6. D = impulse[2] - (t - zero) + TapSegment * m
  BY DEF Distance, IterationStart
<1>7. \A j \in 0 .. o - 1 :
        overlap'[OverlapBase(b) + j] =
          IF Completes(b, size) THEN LeftOf(b, from, size, j) ELSE OverOf(b, size, j)
  <2> SUFFICES ASSUME NEW j \in 0 .. o - 1
               PROVE  overlap'[OverlapBase(b) + j] =
                        IF Completes(b, size) THEN LeftOf(b, from, size, j)
                        ELSE OverOf(b, size, j)
    OBVIOUS
  <2>1. b \in Int /\ OverlapBase(b) \in Int
    BY <1>1, ConfigsAssumption, SMT DEF Blocks, OverlapBase
  <2>2. (OverlapBase(b) + j) - OverlapBase(b) = j
    BY <1>1, <2>1, SMT
  <2>3. OverlapBase(b) + j \in DOMAIN overlap
    BY DEF Room
  <2> QED
    BY <2>2, <2>3, PieceAddsOverlap
<1>8. ASSUME NEW j \in zero1 .. o - 1
      PROVE  overlap'[OverlapBase(b) + j] =
               IF /\ impulse[1] = b /\ j = next + p
                  /\ next < IF TapSegment # 0 /\ zero1 # 0 THEN m ELSE 0
               THEN 1 ELSE 0
  <2>1. j \in 0 .. o - 1 /\ j \in Int
    BY <1>1, <1>5, SMT
  <2>2. CASE zero + size = m
    <3>1. zero1 = 0 /\ Completes(b, size)
      BY <1>5, <2>2 DEF Completes
    <3>2. overlap'[OverlapBase(b) + j] =
            IF impulse[1] = b /\ j + m = D + p /\ D < m THEN 1 ELSE 0
      BY <1>7, <2>1, <3>1, LeftHeard
    <3>3. next = D - m
      <4> HIDE DEF D, next, zero1
      <4> QED
        BY <1>1, <1>2, <1>4, <1>6, <2>2, <3>1, SMT
    <3>4. (j + m = D + p <=> j = next + p) /\ (D < m <=> next < 0)
      <4> HIDE DEF D, next, zero1, p
      <4> QED
        BY <1>1, <1>4, <2>1, <3>3, SMT
    <3> HIDE DEF D, next, p
    <3> QED
      BY <3>1, <3>2, <3>4
  <2>3. CASE zero + size # m
    <3>1. zero1 = zero + size /\ ~ Completes(b, size)
      BY <1>5, <2>3 DEF Completes
    <3>2. next = D
      <4> HIDE DEF D, next, zero1
      <4> QED
        BY <1>1, <1>2, <1>4, <1>6, <3>1, SMT
    <3>3. j \in zero + size .. o - 1
      BY <3>1
    <3>4. overlap'[OverlapBase(b) + j] = OverOf(b, size, j)
      BY <1>7, <2>1, <3>1
    <3> QED
      BY <3>1, <3>2, <3>3, <3>4, KeptHeard
  <2> QED
    BY <2>2, <2>3
<1> HIDE DEF next
<1>9. OverlapAt(b, t + size)' <=>
        \A j \in zero1 .. o - 1 :
          overlap'[OverlapBase(b) + j] =
            IF /\ impulse[1] = b /\ j = next + p
               /\ next < IF TapSegment # 0 /\ zero1 # 0 THEN m ELSE 0
            THEN 1 ELSE 0
  BY <1>3 DEF OverlapAt, next
<1> QED
  BY <1>8, <1>9

LEMMA PieceRemembers ==
  ASSUME Geometry, Room, NEW b \in Blocks, NEW t, NEW size, PieceFits(b, t, size),
         NEW from \in Int, start \in Int, t = start + from, Remembers(b, t),
         UNCHANGED stream, ProcessInternal(b, from, size),
         segmentOffset \in [Blocks -> Int], segmentZeroSamples \in [Blocks -> Int]
  PROVE  Remembers(b, t + size)'
<1>1. RingAt(b, t + size)'
  BY PieceRing DEF Remembers
<1>2. OverlapAt(b, t + size)'
  BY PieceOverlap
<1>3. Filtered(b)'
  <2>1. responses' = responses /\ params' = params /\ tap' = tap
    BY DEF ProcessInternal, stream
  <2> QED
    BY <2>1 DEF Remembers, Filtered, TapSegment, TapPlace
<1> QED
  BY <1>1, <1>2, <1>3 DEF Remembers

(* Steps that leave a block's part of the buffers alone.                   *)
LEMMA PartRemembers ==
  ASSUME SameGeometry, NEW d \in Blocks, NEW t,
         segmentZeroSamples[d] \in Nat, params.overlap_length \in Nat,
         params.segments_count \in Nat \ {0}, segmentOffset[d] \in 0 .. params.segments_count - 1,
         segmentZeroSamples'[d] = segmentZeroSamples[d],
         segmentOffset'[d] = segmentOffset[d], responses'[d] = responses[d],
         \A i \in 0 .. params.segments_count - 1 :
           fourierInputSegments'[SegmentBase(d) + i] = fourierInputSegments[SegmentBase(d) + i],
         \A j \in 0 .. params.overlap_length - 1 :
           overlap'[OverlapBase(d) + j] = overlap[OverlapBase(d) + j],
         Remembers(d, t)
  PROVE  Remembers(d, t)'
<1>1. \A i \in 0 .. params.segments_count - 1 :
        (segmentOffset[d] + i) % params.segments_count \in 0 .. params.segments_count - 1
  BY RingIndex
<1>2. SegmentBase(d)' = SegmentBase(d)
  BY DEF SegmentBase, SameGeometry
<1>3. \A i : Ring(d, i)' =
        fourierInputSegments'[SegmentBase(d)
                              + ((segmentOffset[d] + i) % params.segments_count)]
  BY <1>2 DEF Ring, SameGeometry
<1>4. \A i \in 0 .. params.segments_count - 1 : Ring(d, i)' = Ring(d, i)
  BY <1>1, <1>3 DEF Ring
<1> QED
  BY <1>4, RemembersUnchanged

LEMMA UnchangedRemembers ==
  ASSUME Geometry, NEW d \in Blocks, NEW t,
         segmentZeroSamples[d] \in Nat, segmentOffset[d] \in 0 .. params.segments_count - 1,
         SameGeometry, UNCHANGED device, Remembers(d, t)
  PROVE  Remembers(d, t)'
<1>1. params.overlap_length \in Nat /\ params.segments_count \in Nat \ {0}
  BY DEF Geometry
<1>2. /\ segmentZeroSamples' = segmentZeroSamples /\ segmentOffset' = segmentOffset
      /\ responses' = responses /\ fourierInputSegments' = fourierInputSegments
      /\ overlap' = overlap
  BY DEF device
<1> QED
  BY <1>1, <1>2, PartRemembers

LEMMA OtherPieceRemembers ==
  ASSUME Geometry, Room, NEW b \in Blocks, NEW d \in Blocks, d # b, NEW t,
         NEW from, NEW size, ProcessInternal(b, from, size), UNCHANGED stream,
         segmentZeroSamples[d] \in Nat,
         segmentOffset[d] \in 0 .. params.segments_count - 1,
         segmentOffset[b] \in 0 .. params.segments_count - 1,
         Remembers(d, t)
  PROVE  Remembers(d, t)'
<1> DEFINE n == params.segments_count
           o == params.overlap_length
<1>1. n \in Nat \ {0} /\ n \in Nat /\ o \in Nat /\ b \in Nat /\ d \in Nat
  BY SMT, ConfigsAssumption DEF Geometry, Blocks
<1>2. SameGeometry
  BY DEF SameGeometry, stream
<1>3. /\ segmentZeroSamples'[d] = segmentZeroSamples[d] /\ responses' = responses
      /\ segmentOffset'[d] = segmentOffset[d]
  BY DEF ProcessInternal
<1>4. ASSUME NEW i \in 0 .. n - 1
      PROVE  fourierInputSegments'[SegmentBase(d) + i] = fourierInputSegments[SegmentBase(d) + i]
  <2>1. SegmentBase(d) + i # SegmentBase(b) + segmentOffset[b]
    BY <1>1, PartsApart DEF SegmentBase
  <2> QED
    BY <2>1, PieceStoresSegment DEF Room
<1>5. ASSUME NEW j \in 0 .. o - 1
      PROVE  overlap'[OverlapBase(d) + j] = overlap[OverlapBase(d) + j]
  <2>1. OverlapBase(d) + j \in DOMAIN overlap
    BY DEF Room
  <2>2. o * d \in Int /\ o * b \in Int
    BY <1>1, SMT
  <2>3. (OverlapBase(d) + j) - OverlapBase(b) \notin 0 .. o - 1
    <3>1. ASSUME NEW k \in 0 .. o - 1, (OverlapBase(d) + j) - OverlapBase(b) = k
          PROVE  FALSE
      <4>1. o * d + j = o * b + k
        BY <1>1, <2>2, <3>1, SMT DEF OverlapBase
      <4> QED
        BY <1>1, <4>1, PartsApart
    <3> QED
      BY <3>1
  <2> QED
    BY <2>1, <2>3, PieceAddsOverlap
<1> QED
  BY <1>1, <1>2, <1>3, <1>4, <1>5, PartRemembers

LEMMA OtherInitRemembers ==
  ASSUME Geometry, Room, NEW b \in Blocks, NEW d \in Blocks, d # b, NEW t,
         InitFilter(b),
         segmentZeroSamples[d] \in Nat,
         segmentOffset[d] \in 0 .. params.segments_count - 1,
         Remembers(d, t)
  PROVE  Remembers(d, t)'
<1> DEFINE n == params.segments_count
           o == params.overlap_length
<1>1. n \in Nat \ {0} /\ n \in Nat /\ o \in Nat /\ b \in Nat /\ d \in Nat
  BY SMT, ConfigsAssumption DEF Geometry, Blocks
<1>2. SameGeometry
  BY DEF SameGeometry, InitFilter, stream
<1>3. /\ segmentZeroSamples'[d] = segmentZeroSamples[d] /\ responses'[d] = responses[d]
      /\ segmentOffset'[d] = segmentOffset[d]
  <2>1. CASE Translates
    <3>1. segmentOffset' = segmentOffset
          /\ \E z, R : /\ segmentZeroSamples' = [segmentZeroSamples EXCEPT ![b] = z]
                      /\ responses' = [responses EXCEPT ![b] = R]
      BY <2>1 DEF InitFilter, Translates
    <3> QED
      BY <3>1
  <2>2. CASE ~ Translates
    BY <2>2 DEF InitFilter, Translates, device
  <2> QED
    BY <2>1, <2>2
<1>4. \A k \in Nat : \A i, j \in 0 .. k - 1 : (k * d + i) - k * b # j
  <2> SUFFICES ASSUME NEW k \in Nat, NEW i \in 0 .. k - 1, NEW j \in 0 .. k - 1,
                      (k * d + i) - k * b = j
               PROVE  FALSE
    OBVIOUS
  <2>1. k * d \in Int /\ k * b \in Int
    BY <1>1, SMT
  <2>2. k * d + i = k * b + j
    BY <2>1, SMT
  <2> QED
    BY <2>2, PartsApart
<1>5. ASSUME NEW i \in 0 .. n - 1
      PROVE  fourierInputSegments'[SegmentBase(d) + i] = fourierInputSegments[SegmentBase(d) + i]
  <2>1. (SegmentBase(d) + i) - SegmentBase(b) \notin 0 .. n - 1
    BY <1>1, <1>4 DEF SegmentBase
  <2>2. SegmentBase(d) + i \in DOMAIN fourierInputSegments
    BY DEF Room
  <2> QED
    BY <2>1, <2>2 DEF InitFilter, device, SilencedSegments
<1>6. ASSUME NEW j \in 0 .. o - 1
      PROVE  overlap'[OverlapBase(d) + j] = overlap[OverlapBase(d) + j]
  <2>1. (OverlapBase(d) + j) - OverlapBase(b) \notin 0 .. o - 1
    BY <1>1, <1>4 DEF OverlapBase
  <2>2. OverlapBase(d) + j \in DOMAIN overlap
    BY DEF Room
  <2> QED
    BY <2>1, <2>2 DEF InitFilter, device, SilencedOverlap
<1> QED
  BY <1>1, <1>2, <1>3, <1>5, <1>6, PartRemembers

-----------------------------------------------------------------------------
(* The output of a block is right as far as it has been written.           *)

Right(b) == output[b] = [i \in DOMAIN output[b] |-> Expected(b, start + i)]

LEMMA PieceRight ==
  ASSUME Geometry, TapIsThere, NEW b \in Blocks, NEW t, NEW size, PieceFits(b, t, size),
         NEW from \in Int, start \in Int, t = start + from, Remembers(b, t),
         UNCHANGED stream, ProcessInternal(b, from, size),
         output = [d \in Blocks |-> output[d]], \A d \in Blocks : Right(d)
  PROVE  \A d \in Blocks : Right(d)'
<1> DEFINE m == params.input_samples_per_iteration
           zero == segmentZeroSamples[b]
           D == Distance(b, t)
           p == TapPlace
           k == TapSegment * m
<1>1. /\ m \in Nat \ {0} /\ zero \in Nat /\ size \in Nat /\ t \in Int /\ impulse[2] \in Int
      /\ p \in Int /\ TapSegment \in Int
  BY SMT DEF Geometry, PieceFits
<1>2. k \in Int /\ tap = k + p
  <2>1. k \in Int
    BY <1>1, SMT
  <2> QED
    BY <2>1 DEF TapIsThere
<1>3. D = impulse[2] - (t - zero) + k
  BY DEF Distance, IterationStart
<1> HIDE DEF D, k, zero, p
<1>4. ASSUME NEW i \in from .. from + size - 1
      PROVE  ResultOf(b, from, size)[zero + i - from]
             + (IF zero + i - from < params.overlap_length
                THEN OverOf(b, size, zero + i - from) ELSE 0)
             = Expected(b, start + i)
  <2> DEFINE j == zero + i - from
  <2>1. j \in zero .. zero + size - 1
    BY <1>1, SMT
  <2>2. ResultOf(b, from, size)[j]
        + (IF j < params.overlap_length THEN OverOf(b, size, j) ELSE 0)
        = IF impulse[1] = b /\ j = D + p THEN 1 ELSE 0
    <3> HIDE DEF j
    <3> QED
      BY <2>1, OutputHeard DEF zero, D, p
  <2>3. j = D + p <=> start + i = impulse[2] + tap
    BY <1>1, <1>2, <1>3, SMT
  <2>4. <<b, start + i>> = <<impulse[1], impulse[2] + tap>> <=>
          impulse[1] = b /\ start + i = impulse[2] + tap
    OBVIOUS
  <2>5. Expected(b, start + i) = IF impulse[1] = b /\ j = D + p THEN 1 ELSE 0
    <3> HIDE DEF j
    <3> QED
      BY <2>3, <2>4 DEF Expected
  <2> QED
    BY <2>2, <2>5
<1>5. start' = start /\ \A d, i : Expected(d, i)' = Expected(d, i)
  BY DEF stream, Expected
<1> DEFINE pieces(i) ==
      IF i \notin from .. from + size - 1 THEN output[b][i]
      ELSE ResultOf(b, from, size)[zero + i - from]
           + (IF zero + i - from < params.overlap_length
              THEN OverOf(b, size, zero + i - from) ELSE 0)
<1>6. /\ output'[b] = [i \in DOMAIN output[b] \cup from .. from + size - 1 |-> pieces(i)]
      /\ \A d \in Blocks : d # b => output'[d] = output[d]
  <2>1. output' = [output EXCEPT ![b] =
                     [i \in DOMAIN output[b] \cup from .. from + size - 1 |-> pieces(i)]]
    BY PieceWritesOutput DEF zero
  <2> HIDE DEF pieces
  <2> QED
    BY <2>1
<1>7. \A i \in DOMAIN output[b] \cup from .. from + size - 1 :
        pieces(i) = Expected(b, start + i)
  <2>1. \A i \in DOMAIN output[b] : output[b][i] = Expected(b, start + i)
    BY DEF Right
  <2> QED
    BY <1>4, <2>1
<1> HIDE DEF pieces
<1>8. output'[b] = [i \in DOMAIN output'[b] |-> Expected(b, start + i)]
  BY <1>6, <1>7
<1> QED
  BY <1>5, <1>6, <1>8 DEF Right

-----------------------------------------------------------------------------
(* The parameters of a launch give that geometry, if the sizes are even.   *)

EvenSizes ==
  \A c \in Configs :
    c.length % 2 = 0 /\ c.size % 2 = 0 /\ GrainFor(c.capacity) % 2 = 0

(* The rest of what a launch sets up, beside Launched.                     *)
Setup ==
  /\ params.fir_samples_per_iteration = FirSamplesPerSegment(config.length)
  /\ params.overlap_length = OverlapLength(config.length)
  /\ params.filter_length_to_translate_init \in {0, config.length}
  /\ tap \in 0 .. config.length - 1
  /\ impulse \in Blocks \X Nat

LEMMA GeometryOfLaunch ==
  ASSUME Launched, Setup, EvenSizes
  PROVE  Geometry /\ TapIsThere /\ params.fir_samples_per_iteration % 2 = 0
<1> DEFINE L == config.length
           g == params.grain
           m == params.input_samples_per_iteration
           r == params.fir_samples_per_iteration
           n == params.segments_count
           o == params.overlap_length
           s == TapSegment
           p == TapPlace
<1>1. L \in Nat \ {0} /\ L % 2 = 0 /\ config.capacity \in Nat \ {0} /\ tap \in 0 .. L - 1
  BY ConfigsAssumption DEF Launched, EvenSizes, Setup
<1>2. g \in 1 .. FftLength /\ g \in 0 .. FftLength
  BY <1>1, FftLengthAssumption, SMT DEF Launched, GrainFor, AtMost
<1>3. FftLength \in Nat \ {0} /\ FftLength % 2 = 0
  BY FftLengthAssumption, SMT
<1>4. /\ m = IF L < FftLength THEN 2 * FftLength - L ELSE FftLength
      /\ r = IF L < FftLength THEN L ELSE FftLength
      /\ o = IF L <= 2 * FftLength THEN L ELSE 2 * FftLength
  BY <1>1, <1>2, <1>3, SMT DEF Launched, Setup, InputSizePerIteration,
     FirSamplesPerSegment, OverlapLength, AtLeast, AtMost
<1>5. n * r >= L /\ n \in Nat \ {0}
  BY <1>1, SegmentsCoverFilter, LaunchedTypes DEF Launched, Setup
<1> HIDE DEF L, m, r, n, o
<1>6. /\ m \in Nat \ {0} /\ r \in Nat \ {0} /\ o \in Nat
      /\ m + r = 2 * FftLength /\ r <= m /\ r <= o /\ o <= 2 * FftLength
  BY <1>1, <1>3, <1>4, SMT
<1>7. m % 2 = 0 /\ r % 2 = 0
  <2>1. CASE L < FftLength
    <3>1. m = 2 * FftLength - L /\ r = L
      BY <1>4, <2>1
    <3>2. (2 * FftLength - L) % 2 = 0
      BY <1>1, <1>3, SMT
    <3> QED
      BY <1>1, <3>1, <3>2
  <2>2. CASE ~ (L < FftLength)
    BY <1>3, <1>4, <2>2
  <2> QED
    BY <2>1, <2>2
<1>8. s \in Int /\ p \in 0 .. r - 1 /\ tap = r * s + p
  <2>1. \A a \in Nat : \A b \in Nat \ {0} :
          a \div b \in Int /\ a % b \in 0 .. b - 1 /\ a = b * (a \div b) + (a % b)
    BY SMT
  <2>2. tap \in Nat
    BY <1>1, SMT
  <2> QED
    BY <1>6, <2>1, <2>2 DEF TapSegment, TapPlace, r
<1> HIDE DEF s, p
<1>9. s >= 0
  <2>1. s <= -1 => r * s <= -r
    BY <1>6, <1>8, SMT
  <2> QED
    BY <1>1, <1>6, <1>8, <2>1, SMT
<1>10. s <= n - 1
  <2>1. s >= n => r * s >= n * r
    BY <1>5, <1>6, <1>8, SMT
  <2>2. r * s \in Int /\ n * r \in Int
    BY <1>5, <1>6, <1>8, SMT
  <2> QED
    BY <1>1, <1>5, <1>8, <2>1, <2>2, SMT
<1>11. s # 0 => n > 1 /\ m = r /\ m + p <= o /\ tap = s * m + p
  <2> SUFFICES ASSUME s # 0 PROVE n > 1 /\ m = r /\ m + p <= o /\ tap = s * m + p
    OBVIOUS
  <2>1. r * s >= r
    BY <1>6, <1>8, <1>9, SMT
  <2>2. r * s \in Int /\ r * s = s * r
    BY <1>6, <1>8, SMT
  <2>3. L >= r + p + 1
    BY <1>1, <1>6, <1>8, <2>1, <2>2, SMT
  <2>4. ~ (L < FftLength)
    BY <1>1, <1>4, <1>8, <2>3, SMT
  <2>5. m = r /\ m + p <= o
    BY <1>1, <1>3, <1>4, <1>8, <2>3, <2>4, SMT
  <2> QED
    BY <1>5, <1>8, <1>9, <1>10, <2>2, <2>5, SMT
<1>12. TapIsThere
  <2>1. CASE s = 0
    <3>1. r * s = 0 /\ s * m = 0
      BY <1>6, <2>1, SMT
    <3> QED
      BY <1>8, <3>1 DEF TapIsThere, s, p, m
  <2>2. CASE s # 0
    BY <1>11, <2>2 DEF TapIsThere, s, p, m
  <2> QED
    BY <2>1, <2>2
<1>13. s \in 0 .. n - 1
  BY <1>5, <1>8, <1>9, <1>10, SMT
<1>14. impulse = <<impulse[1], impulse[2]>> /\ impulse[2] \in Int
  BY SMT DEF Setup
<1> QED
  BY <1>5, <1>6, <1>7, <1>8, <1>11, <1>12, <1>13, <1>14 DEF Geometry, m, r, n, o, s, p

-----------------------------------------------------------------------------
(* The buffers have room for every configuration.                          *)

Buffers ==
  \A c \in Configs : \A b \in Blocks :
    /\ \A i \in 0 .. OverlapLength(c.length) - 1 :
         OverlapLength(c.length) * b + i \in DOMAIN overlap
    /\ \A i \in 0 .. SegmentCount(c.length) - 1 :
         SegmentCount(c.length) * b + i \in DOMAIN fourierInputSegments

LEMMA RoomOfBuffers ==
  ASSUME Buffers, Launched, Setup
  PROVE  Room
  BY DEF Buffers, Launched, Setup, Room, OverlapBase, SegmentBase

LEMMA MaxOfBounded ==
  ASSUME NEW k \in Nat, NEW S, S \subseteq 0 .. k, S # {}
  PROVE  Max(S) \in S /\ \A y \in S : y <= Max(S)
<1> DEFINE T == {k - x : x \in S}
<1>1. T \subseteq Nat /\ T # {}
  <2>1. \A x \in S : k - x \in Nat
    BY SMT
  <2> QED
    BY <2>1
<1>2. PICK a \in T : \A x \in T : a <= x
  BY <1>1, LeastNat
<1>3. PICK x \in S : a = k - x
  BY <1>2
<1>4. \A y \in S : k - x <= k - y
  BY <1>2, <1>3
<1>5. \A y \in S : x >= y
  BY <1>4, SMT
<1>6. Max(S) \in S /\ \A y \in S : Max(S) >= y
  BY <1>5 DEF Max
<1> QED
  BY <1>6, SMT

LEMMA PartFits ==
  ASSUME NEW k \in Nat, NEW M \in Nat, k <= M, NEW b \in Blocks, NEW i \in 0 .. k - 1
  PROVE  k * b + i \in 0 .. Channels * M - 1
<1>1. b \in Nat /\ Channels \in Nat /\ b + 1 <= Channels /\ i \in Nat /\ i < k
  BY ConfigsAssumption, SMT DEF Blocks
<1>2. k * b \in Nat /\ k * (b + 1) = k * b + k
  BY <1>1, SMT
<1>3. k * (b + 1) <= M * (b + 1)
  BY <1>1, SMT
<1>4. M * (b + 1) <= Channels * M
  BY <1>1, SMT
<1>5. Channels * M \in Nat /\ M * (b + 1) \in Nat
  BY <1>1, SMT
<1> QED
  BY <1>1, <1>2, <1>3, <1>4, <1>5, SMT

LEMMA InitBuffers ==
  ASSUME EqualSegments, Init
  PROVE  Buffers
<1> SUFFICES ASSUME NEW c \in Configs, NEW b \in Blocks
             PROVE  /\ \A i \in 0 .. OverlapLength(c.length) - 1 :
                         OverlapLength(c.length) * b + i \in DOMAIN overlap
                    /\ \A i \in 0 .. SegmentCount(c.length) - 1 :
                         SegmentCount(c.length) * b + i \in DOMAIN fourierInputSegments
  BY DEF Buffers
<1> DEFINE lengths == {OverlapLength(d.length) : d \in Configs}
           counts == {SegmentCount(d.length) : d \in Configs}
<1>1. \A d \in Configs : OverlapLength(d.length) \in 1 .. 2 * FftLength
  BY ConfigsAssumption, FftLengthAssumption, SMT DEF OverlapLength, AtMost
<1>2. Max(lengths) \in lengths /\ \A y \in lengths : y <= Max(lengths)
  <2>1. 2 * FftLength \in Nat /\ lengths \subseteq 0 .. 2 * FftLength /\ lengths # {}
    BY <1>1, FftLengthAssumption, SMT
  <2> HIDE DEF lengths
  <2> QED
    BY <2>1, MaxOfBounded
<1>3. Max(counts) = SegmentCount(c.length) /\ SegmentCount(c.length) \in Nat
  <2>1. counts = {SegmentCount(c.length)}
    BY DEF EqualSegments
  <2>2. SegmentCount(c.length) \in Nat /\ counts \subseteq 0 .. SegmentCount(c.length)
        /\ counts # {}
    BY <2>1, SegmentsOfConfigs, SMT
  <2>3. Max(counts) \in counts
    <3> HIDE DEF counts
    <3> QED
      BY <2>2, MaxOfBounded
  <2> QED
    BY <2>1, <2>2, <2>3
<1>4. /\ DOMAIN overlap = 0 .. Channels * Max(lengths) - 1
      /\ DOMAIN fourierInputSegments = 0 .. Channels * Max(counts) - 1
  BY DEF Init, MaxOver
<1>5. /\ OverlapLength(c.length) \in Nat /\ Max(lengths) \in Nat
      /\ OverlapLength(c.length) <= Max(lengths)
  BY <1>1, <1>2, SMT
<1>6. /\ SegmentCount(c.length) <= Max(counts) /\ Max(counts) \in Nat
  BY <1>3, SMT
<1> HIDE DEF lengths, counts
<1> QED
  BY <1>3, <1>4, <1>5, <1>6, PartFits

-----------------------------------------------------------------------------
(* Translating the filter and silencing the history of the input.          *)

LEMMA SegmentTranslated ==
  ASSUME Launched, Setup, EvenSizes,
         params.filter_length_to_translate_init = config.length,
         NEW i \in 0 .. params.segments_count - 1
  PROVE  InitSegment(i) = Pulse(i = TapSegment, TapPlace)
<1> DEFINE L == config.length
           r == params.fir_samples_per_iteration
           n == params.segments_count
           s == TapSegment
           p == TapPlace
           offset == i * r
           size == AtMost(r, L - offset)
           piece == [k \in 0 .. size - 1 |-> FilterSample(offset + k)]
           e == i = s
<1>1. L \in Nat \ {0} /\ L % 2 = 0 /\ tap \in 0 .. L - 1
  BY ConfigsAssumption DEF Launched, EvenSizes, Setup
<1>2. /\ n \in Nat \ {0} /\ r \in Nat \ {0} /\ r % 2 = 0 /\ s \in 0 .. n - 1 /\ p \in 0 .. r - 1
      /\ i \in 0 .. n - 1 /\ i \in Int /\ s \in Int /\ p \in Int
  <2>1. Geometry /\ r % 2 = 0
    BY GeometryOfLaunch
  <2> QED
    BY <2>1, SMT DEF Geometry
<1>3. tap = r * s + p
  <2>1. \A a \in Nat : \A d \in Nat \ {0} : a = d * (a \div d) + (a % d)
    BY SMT
  <2>2. tap \in Nat
    BY <1>1, SMT
  <2> QED
    BY <1>2, <2>1, <2>2 DEF TapSegment, TapPlace
<1>4. (n - 1) * r < L
  BY <1>1, SegmentsCoverFilter DEF Launched, Setup
<1> HIDE DEF L, r, n, s, p
<1>5. offset \in Nat /\ offset % 2 = 0 /\ offset < L
  <2>1. PICK h \in Nat : r = 2 * h
    <3>1. r \div 2 \in Nat /\ r = 2 * (r \div 2)
      BY <1>2, SMT
    <3> QED
      BY <3>1
  <2>2. i * r = 2 * (i * h) /\ i * h \in Nat
    BY <1>2, <2>1, SMT
  <2>3. \A y \in Nat : (2 * y) % 2 = 0 /\ 2 * y \in Nat
    BY SMT
  <2>4. i * r <= (n - 1) * r
    <3>1. \A x, y, z \in Nat : x <= y => x * z <= y * z
      BY SMT
    <3>2. i \in Nat /\ n - 1 \in Nat /\ r \in Nat /\ i <= n - 1
      BY <1>2, SMT
    <3> QED
      BY <3>1, <3>2
  <2>5. (n - 1) * r \in Int
    BY <1>2, SMT
  <2> QED
    BY <1>1, <1>4, <2>2, <2>3, <2>4, <2>5, SMT
<1> HIDE DEF offset
<1>6. size \in Nat /\ size % 2 = 0 /\ size <= r /\ size >= 1
  <2>1. (L - offset) % 2 = 0
    BY <1>1, <1>5, SMT
  <2>2. CASE r <= L - offset
    BY <1>2, <2>2 DEF AtMost
  <2>3. CASE ~ (r <= L - offset)
    <3>1. size = L - offset
      BY <2>3 DEF AtMost
    <3> QED
      BY <1>1, <1>2, <1>5, <2>1, <2>3, <3>1, SMT
  <2> QED
    BY <2>2, <2>3
<1>7. e => p - 0 \in 0 .. size - 1
  <2> SUFFICES ASSUME e PROVE p - 0 \in 0 .. size - 1
    OBVIOUS
  <2>1. tap = offset + p
    <3>1. r * i = i * r
      BY <1>2, SMT
    <3> QED
      BY <1>3, <3>1 DEF offset
  <2> QED
    BY <1>1, <1>2, <1>5, <2>1, SMT DEF AtMost
<1>8. \A k \in 0 .. size - 1 : piece[k] = IF e /\ k = p - 0 THEN 1 ELSE 0
  <2> SUFFICES ASSUME NEW k \in 0 .. size - 1
               PROVE  offset + k = tap <=> i = s /\ k = p
    BY <1>2 DEF FilterSample
  <2>1. k \in 0 .. r - 1 /\ k \in Int
    BY <1>2, <1>6, SMT
  <2>2. offset + k = tap <=> r * i + k = r * s + p
    <3>1. r * i = i * r /\ r * s \in Int /\ i * r \in Int
      BY <1>2, SMT
    <3> QED
      BY <1>3, <3>1 DEF offset
  <2>3. r * i + k = r * s + p => i = s
    <3>1. r * (i - s) = r * i - r * s /\ r * i \in Int /\ r * s \in Int
      BY <1>2, SMT
    <3>2. i - s >= 1 => r * (i - s) >= r
      BY <1>2, SMT
    <3>3. i - s <= -1 => r * (i - s) <= -r
      BY <1>2, SMT
    <3> QED
      BY <1>2, <2>1, <3>1, <3>2, <3>3, SMT
  <2>4. r * s \in Int
    BY <1>2, SMT
  <2>5. i = s => (r * i + k = r * s + p <=> k = p)
    BY <1>2, <2>1, <2>4, SMT
  <2> QED
    BY <2>2, <2>3, <2>5
<1> HIDE DEF size, piece, e
<1>9. 0 \in Nat /\ 0 % 2 = 0
  BY SMT
<1>10. LoadChecked(piece, size, 0) = Pulse(e, p)
  BY <1>2, <1>6, <1>7, <1>8, <1>9, LoadedPulse
<1> QED
  BY <1>10 DEF InitSegment, piece, size, offset, L, r, e, s, p

LEMMA InitRemembers ==
  ASSUME IInv, Setup, EvenSizes, Buffers, NEW b \in Blocks, InitFilter(b), Translates,
         responses = [d \in Blocks |-> responses[d]],
         segmentOffset[b] \in 0 .. params.segments_count - 1
  PROVE  Remembers(b, start + CallOffset)'
<1> DEFINE L == config.length
           n == params.segments_count
           m == params.input_samples_per_iteration
           o == params.overlap_length
           s == TapSegment
           zero == params.init_buffer_offset
           silenced == [i \in 0 .. DivUp(params.filter_length_to_translate_init,
                                         params.fir_samples_per_iteration) - 1 |->
                          InitSegment(i)]
<1>1. Launched /\ Geometry /\ Room
  BY GeometryOfLaunch, RoomOfBuffers DEF IInv
<1>2. /\ n \in Nat \ {0} /\ m \in Nat \ {0} /\ o \in Nat /\ s \in 0 .. n - 1
      /\ s \in Int /\ impulse[2] \in Nat /\ b \in Int
  BY <1>1, ConfigsAssumption, SMT DEF Geometry, Setup, Blocks
<1>3. start = 0 /\ call = 0 /\ CallOffset = 0 /\ start + CallOffset = 0
      /\ zero \in 0 .. m - 1
  <2>1. start = 0 /\ call = 0 /\ zero \in OffsetsFor(config)
    BY <1>1 DEF Launched, Translates
  <2>2. params.grain \in Nat
    BY <1>1, LaunchedTypes
  <2> QED
    BY <1>1, <2>1, <2>2, OriginInIteration, SMT DEF CallOffset
<1>4. params.filter_length_to_translate_init = L
  BY DEF Setup, Translates
<1>5. /\ segmentZeroSamples' = [segmentZeroSamples EXCEPT ![b] = zero % m]
      /\ responses' = [responses EXCEPT ![b] = silenced]
      /\ fourierInputSegments' = SilencedSegments(b) /\ overlap' = SilencedOverlap(b)
      /\ segmentOffset' = segmentOffset
      /\ UNCHANGED <<stream, call>>
  BY DEF InitFilter, Translates
<1> HIDE DEF silenced
<1>6. segmentZeroSamples'[b] = zero
  <2>1. zero % m = zero
    BY <1>2, <1>3, SMT
  <2> QED
    BY <1>5, <2>1 DEF IInv, Together
<1>7. responses'[b] = [i \in 0 .. n - 1 |-> Pulse(i = TapSegment, TapPlace)]
  <2>1. DivUp(params.filter_length_to_translate_init, params.fir_samples_per_iteration) = n
    BY <1>1, <1>4 DEF Launched, Setup, SegmentCount
  <2>2. silenced = [i \in 0 .. n - 1 |-> InitSegment(i)]
    BY <2>1 DEF silenced
  <2>3. \A i \in 0 .. n - 1 : InitSegment(i) = Pulse(i = TapSegment, TapPlace)
    BY <1>1, <1>4, SegmentTranslated
  <2>4. responses'[b] = silenced
    BY <1>5
  <2> QED
    BY <2>2, <2>3, <2>4
<1>8. /\ params' = params /\ impulse' = impulse /\ tap' = tap /\ start' = start
      /\ CallOffset' = CallOffset /\ TapSegment' = TapSegment /\ TapPlace' = TapPlace
      /\ OverlapBase(b)' = OverlapBase(b) /\ SegmentBase(b)' = SegmentBase(b)
  BY <1>5 DEF stream, CallOffset, TapSegment, TapPlace, OverlapBase, SegmentBase
<1>9. IterationStart(b, start + CallOffset)' = 0 - zero
  BY <1>3, <1>6, <1>8 DEF IterationStart
<1>10. Filtered(b)'
  BY <1>7, <1>8 DEF Filtered
<1>11. \A i \in 0 .. n - 1 : Ring(b, i)' = Silence
  <2> SUFFICES ASSUME NEW i \in 0 .. n - 1 PROVE Ring(b, i)' = Silence
    OBVIOUS
  <2> DEFINE k == (segmentOffset[b] + i) % n
  <2>1. k \in 0 .. n - 1
    BY <1>2, RingIndex
  <2>2. Ring(b, i)' = fourierInputSegments'[SegmentBase(b) + k]
    BY <1>5, <1>8 DEF Ring
  <2> HIDE DEF k
  <2>3. SegmentBase(b) + k \in DOMAIN fourierInputSegments
    BY <1>1, <2>1 DEF Room
  <2>4. (SegmentBase(b) + k) - SegmentBase(b) = k
    <3>1. SegmentBase(b) \in Int
      BY <1>2, SMT DEF SegmentBase
    <3> QED
      BY <2>1, <3>1, SMT
  <2> QED
    BY <1>5, <2>1, <2>2, <2>3, <2>4 DEF SilencedSegments
<1>12. \A j \in 0 .. o - 1 : overlap'[OverlapBase(b) + j] = 0
  <2> SUFFICES ASSUME NEW j \in 0 .. o - 1 PROVE overlap'[OverlapBase(b) + j] = 0
    OBVIOUS
  <2>1. OverlapBase(b) + j \in DOMAIN overlap
    BY <1>1 DEF Room
  <2>2. (OverlapBase(b) + j) - OverlapBase(b) = j
    <3>1. OverlapBase(b) \in Int
      BY <1>2, SMT DEF OverlapBase
    <3> QED
      BY <3>1, SMT
  <2> QED
    BY <1>5, <2>1, <2>2 DEF SilencedOverlap
<1>13. RingAt(b, start + CallOffset)'
  <2>1. ASSUME NEW i \in 0 .. n - 1
        PROVE  Heard(b, (0 - zero) - i * m, IF i = 0 THEN zero ELSE m) = Silence
    <3> DEFINE from == (0 - zero) - i * m
               span == IF i = 0 THEN zero ELSE m
    <3>1. impulse[2] - from \notin 0 .. span - 1
      <4>1. CASE i = 0
        <5>1. i * m = 0
          BY <1>2, <4>1, SMT
        <5> QED
          BY <1>2, <1>3, <4>1, <5>1, SMT
      <4>2. CASE i # 0
        <5>1. \A x \in Nat \ {0} : \A y \in Nat : x * y >= y /\ x * y \in Int
          BY SMT
        <5>2. i \in Nat \ {0} /\ m \in Nat
          BY <1>2, <4>2, SMT
        <5>3. i * m >= m /\ i * m \in Int
          BY <5>1, <5>2
        <5> QED
          BY <1>2, <1>3, <4>2, <5>3, SMT
      <4> QED
        BY <4>1, <4>2
    <3> DEFINE c == impulse[1] = b /\ impulse[2] - from \in 0 .. span - 1
               x == impulse[2] - from
    <3>2. ~c /\ Heard(b, from, span) = Pulse(c, x)
      BY <3>1 DEF Heard
    <3> HIDE DEF c, x
    <3> QED
      BY <3>2, PulseSignal
  <2>2. \A from, count : Heard(b, from, count)' = Heard(b, from, count)
    BY <1>8 DEF Heard
  <2>3. ASSUME NEW i \in 0 .. n - 1
        PROVE  Ring(b, i)' = Heard(b, IterationStart(b, start + CallOffset)' - i * m,
                                   IF i = 0 THEN zero ELSE m)
    BY <1>9, <1>11, <2>1
  <2> QED
    BY <1>6, <1>8, <2>2, <2>3 DEF RingAt
<1>14. OverlapAt(b, start + CallOffset)'
  <2> DEFINE D == Distance(b, start + CallOffset)'
  <2>1. D = impulse[2] - (0 - zero) + s * m
    BY <1>8, <1>9 DEF Distance
  <2>2. ~ (D < IF s # 0 /\ zero # 0 THEN m ELSE 0)
    <3>1. \A x, y \in Nat : x * y \in Nat /\ (x # 0 => x * y >= y)
      BY SMT
    <3>2. s \in Nat /\ m \in Nat
      BY <1>2, SMT
    <3>3. s * m \in Nat /\ (s # 0 => s * m >= m)
      BY <3>1, <3>2
    <3> HIDE DEF D, s
    <3> QED
      BY <1>2, <1>3, <2>1, <3>3, SMT
  <2>3. \A j \in zero .. o - 1 : overlap'[OverlapBase(b) + j] = 0
    <3>1. \A j \in zero .. o - 1 : j \in 0 .. o - 1
      BY <1>3, SMT
    <3> QED
      BY <1>12, <3>1
  <2> HIDE DEF D
  <2>4. OverlapAt(b, start + CallOffset)' <=>
          \A j \in zero .. o - 1 :
            overlap'[OverlapBase(b) + j] =
              IF /\ impulse[1] = b /\ j = D + TapPlace
                 /\ D < IF s # 0 /\ zero # 0 THEN m ELSE 0
              THEN 1 ELSE 0
    BY <1>6, <1>8 DEF OverlapAt, D
  <2> QED
    BY <2>2, <2>3, <2>4
<1> QED
  BY <1>10, <1>13, <1>14 DEF Remembers

-----------------------------------------------------------------------------
(* The layout of the buffers never changes.                                *)

Layout == Setup /\ Buffers /\ responses = [b \in Blocks |-> responses[b]]

LEMMA InitLayout ==
  ASSUME EqualSegments, Init
  PROVE  Layout
<1>1. config \in Configs /\ config.length \in Nat \ {0}
  BY ConfigsAssumption DEF Init
<1>2. Setup
  <2>1. <<0, 0>> \in Blocks \X Nat /\ 0 \in 0 .. config.length - 1
    BY <1>1, ConfigsAssumption, SMT DEF Blocks
  <2> QED
    BY <2>1 DEF Init, Setup, ParametersFor, LaunchParameters
<1>3. responses = [b \in Blocks |-> responses[b]]
  BY DEF Init
<1> QED
  BY <1>2, <1>3, InitBuffers DEF Layout

LEMMA PieceLayout ==
  ASSUME Layout, NEW b \in Blocks, NEW from, NEW size, ProcessInternal(b, from, size),
         UNCHANGED stream
  PROVE  Layout'
<1>1. responses' = responses
  BY DEF ProcessInternal
<1>2. DOMAIN overlap' = DOMAIN overlap
  BY PieceAddsOverlap
<1>3. DOMAIN fourierInputSegments' = DOMAIN fourierInputSegments
  <2> DEFINE segment == SegmentOf(b, from, size)
  <2>1. fourierInputSegments' = fourierInputSegments
        \/ fourierInputSegments' =
             [fourierInputSegments EXCEPT ![SegmentBase(b) + segmentOffset[b]] = segment]
    BY PieceStoresSegment
  <2> HIDE DEF segment
  <2> QED
    BY <2>1
<1> QED
  BY <1>1, <1>2, <1>3 DEF Layout, Setup, Buffers, stream

LEMMA InitFilterLayout ==
  ASSUME Layout, NEW b \in Blocks, InitFilter(b)
  PROVE  Layout'
<1>1. UNCHANGED stream
  BY DEF InitFilter
<1>2. CASE Translates
  <2>1. PICK R, S, O : /\ responses' = [responses EXCEPT ![b] = R]
                       /\ fourierInputSegments' = S /\ S = SilencedSegments(b)
                       /\ overlap' = O /\ O = SilencedOverlap(b)
    BY <1>2 DEF InitFilter, Translates
  <2>2. DOMAIN fourierInputSegments' = DOMAIN fourierInputSegments
        /\ DOMAIN overlap' = DOMAIN overlap
    BY <2>1 DEF SilencedSegments, SilencedOverlap
  <2>3. responses' = [d \in Blocks |-> responses'[d]]
    BY <2>1 DEF Layout
  <2> QED
    BY <1>1, <2>2, <2>3 DEF Layout, Setup, Buffers, stream
<1>3. CASE ~ Translates
  BY <1>1, <1>3 DEF InitFilter, Translates, device, Layout, Setup, Buffers, stream
<1> QED
  BY <1>2, <1>3

LEMMA LaunchLayout ==
  ASSUME Layout, NEW c \in Configs, LaunchInit(c) \/ LaunchNext(c)
  PROVE  Layout'
<1>1. BeginLaunch /\ config' = c
  BY DEF LaunchInit, LaunchNext
<1>2. responses' = responses /\ overlap' = overlap
      /\ fourierInputSegments' = fourierInputSegments
  BY <1>1 DEF BeginLaunch, device
<1>3. Setup'
  <2>1. CASE LaunchInit(c)
    <3>1. PICK offset \in OffsetsFor(c) :
            params' = [ParametersFor(c) EXCEPT
                         !.filter_length_to_translate_init = c.length,
                         !.init_buffer_offset = offset]
      BY <2>1 DEF LaunchInit
    <3>2. /\ params'.fir_samples_per_iteration = FirSamplesPerSegment(c.length)
          /\ params'.overlap_length = OverlapLength(c.length)
          /\ params'.filter_length_to_translate_init = c.length
      BY <3>1 DEF ParametersFor, LaunchParameters
    <3>3. tap' \in 0 .. c.length - 1 /\ impulse' \in Blocks \X ImpulseTimes
      BY <2>1 DEF LaunchInit
    <3> QED
      BY <1>1, <3>2, <3>3, ConfigsAssumption DEF Setup
  <2>2. CASE LaunchNext(c)
    <3>1. params' = ParametersFor(c) /\ c.length = config.length
          /\ impulse' = impulse /\ tap' = tap
      BY <2>2 DEF LaunchNext
    <3> QED
      BY <1>1, <3>1 DEF Layout, Setup, ParametersFor, LaunchParameters
  <2> QED
    BY <2>1, <2>2
<1> QED
  BY <1>2, <1>3 DEF Layout, Buffers

LEMMA StepLayout ==
  ASSUME Layout, [Next]_vars
  PROVE  Layout'
<1>1. ASSUME NEW b \in Blocks, BlockStep(b) PROVE Layout'
  <2>1. CASE InitFilter(b)
    BY <2>1, InitFilterLayout
  <2>2. CASE ProcessFirst(b)
    <3>1. CASE segmentZeroSamples[b] # 0
      BY <2>2, <3>1, PieceLayout DEF ProcessFirst
    <3>2. CASE segmentZeroSamples[b] = 0
      BY <2>2, <3>2 DEF ProcessFirst, device, Layout, Setup, Buffers, stream
    <3> QED
      BY <3>1, <3>2
  <2>3. CASE ProcessLoop(b)
    BY <2>3, PieceLayout DEF ProcessLoop
  <2> QED
    BY <1>1, <2>1, <2>2, <2>3 DEF BlockStep
<1>2. CASE EndCall
  BY <1>2 DEF EndCall, device, Layout, Setup, Buffers, stream
<1>3. CASE UNCHANGED vars
  BY <1>3 DEF vars, device, Layout, Setup, Buffers, stream
<1> QED
  BY <1>1, <1>2, <1>3, LaunchLayout DEF Next

LEMMA LayoutInvariance ==
  ASSUME EqualSegments
  PROVE  Spec => []Layout
<1>1. Init => Layout
  BY InitLayout
<1>2. Layout /\ [Next]_vars => Layout'
  BY StepLayout
<1> QED
  BY <1>1, <1>2, PTL DEF Spec

-----------------------------------------------------------------------------
(* The inductive invariant                                                 *)

(* A filter of several segments gets whole calls only. *)
FullCalls ==
  \A c \in Configs : SegmentCount(c.length) > 1 => c.size % GrainFor(c.capacity) = 0

(* Stream time up to which a block has consumed its input.                 *)
Consumed(b) ==
  start + IF pc[b] = "idle" THEN params.input_length
          ELSE CallOffset + IF pc[b] = "loop" THEN AtMost(cursor[b], Present) ELSE 0

MemoryAt(b) ==
  inits > 0 /\ ~ (pc[b] = "begin" /\ Translates) => Remembers(b, Consumed(b))

EvenAt(b) == segmentZeroSamples[b] % 2 = 0 /\ (pc[b] = "loop" => cursor[b] % 2 = 0)

Memory == \A b \in Blocks : MemoryAt(b) /\ EvenAt(b) /\ Right(b)

(* Samples come in pairs, in every call and from every origin.             *)
LEMMA EvenProduct ==
  ASSUME NEW a \in Nat, a % 2 = 0, NEW k \in Nat
  PROVE  k * a \in Nat /\ (k * a) % 2 = 0
<1>1. a \div 2 \in Nat /\ a = 2 * (a \div 2)
  BY SMT
<1>2. k * a = 2 * (k * (a \div 2)) /\ k * (a \div 2) \in Nat
  BY <1>1, SMT
<1>3. \A y \in Nat : (2 * y) % 2 = 0 /\ 2 * y \in Nat
  BY SMT
<1> QED
  BY <1>2, <1>3

LEMMA EvenPresent ==
  ASSUME IInv, ReachLastCall, EvenSizes
  PROVE  Remaining % 2 = 0 /\ Present % 2 = 0 /\ params.grain % 2 = 0
<1>1. params.input_length % 2 = 0 /\ params.grain % 2 = 0
  BY DEF IInv, Launched, EvenSizes
<1>2. call \in Nat /\ params.grain \in Nat /\ params.input_length \in Nat
      /\ Remaining \in Nat
  BY LaunchedTypes, PresentInCall DEF IInv
<1>3. call * params.grain \in Nat /\ (call * params.grain) % 2 = 0
  BY <1>1, <1>2, EvenProduct
<1>4. Remaining % 2 = 0
  BY <1>1, <1>2, <1>3, SMT DEF Remaining
<1> QED
  BY <1>1, <1>4 DEF Present, AtMost

LEMMA EvenOrigin ==
  ASSUME Launched, Setup, EvenSizes, NEW origin \in OffsetsFor(config)
  PROVE  origin % 2 = 0
<1> DEFINE g == params.grain
           m == params.input_samples_per_iteration
<1>1. /\ g % 2 = 0 /\ g \in Nat /\ m \in Nat \ {0} /\ m % 2 = 0
  BY LaunchedTypes, GeometryOfLaunch DEF Launched, EvenSizes, Geometry
<1>2. \E r \in Nat : origin = (g * r) % m \/ origin = 0
  BY ConfigsAssumption, 0 \in Nat DEF OffsetsFor, InitOffsets, Launched
<1>3. PICK r \in Nat : origin = (g * r) % m \/ origin = 0
  BY <1>2
<1> HIDE DEF g, m
<1>4. g * r \in Nat /\ (g * r) % 2 = 0
  <2>1. g * r = r * g
    BY <1>1, SMT
  <2> QED
    BY <1>1, <2>1, EvenProduct
<1>5. ((g * r) % m) % 2 = 0
  <2> DEFINE x == g * r
             q == x \div m
             y == x % m
  <2>1. \A d \in Nat : \A e \in Nat \ {0} :
          d \div e \in Nat /\ d % e \in Nat /\ d = (d \div e) * e + (d % e)
    BY SMT
  <2>2. x \in Nat /\ x % 2 = 0
    BY <1>4
  <2> HIDE DEF x
  <2>3. q \in Nat /\ y \in Nat /\ x = q * m + y
    BY <1>1, <2>1, <2>2
  <2> HIDE DEF q, y
  <2>4. q * m \in Nat /\ (q * m) % 2 = 0
    BY <1>1, <2>3, EvenProduct
  <2>5. y % 2 = 0
    BY <2>2, <2>3, <2>4, SMT
  <2> QED
    BY <2>5 DEF y, x
<1>6. 0 % 2 = 0
  BY SMT
<1> QED
  BY <1>3, <1>5, <1>6

(* In a full call there are as many samples as the call has room for.      *)
LEMMA PresentIsGrain ==
  ASSUME IInv, ReachLastCall, FullCalls, params.segments_count > 1
  PROVE  Present = params.grain
<1> DEFINE g == params.grain
           k == params.input_length \div g
<1>1. g \in Nat \ {0} /\ params.input_length \in Nat /\ call \in Nat
      /\ Remaining \in Nat \ {0}
  BY LaunchedTypes, PresentInCall DEF IInv
<1>2. params.input_length % g = 0
  BY DEF IInv, Launched, FullCalls
<1>3. k \in Nat /\ params.input_length = k * g
  <2>1. \A d \in Nat : \A e \in Nat \ {0} :
          d \div e \in Nat /\ (d % e = 0 => d = (d \div e) * e)
    BY SMT
  <2> QED
    BY <1>1, <1>2, <2>1
<1> HIDE DEF g, k
<1>4. Remaining = k * g - call * g
  BY <1>3 DEF Remaining, g
<1>5. \A x, y \in Nat : \A z \in Nat \ {0} :
        x * z - y * z > 0 => x * z - y * z >= z
  <2> SUFFICES ASSUME NEW x \in Nat, NEW y \in Nat, NEW z \in Nat \ {0},
                      x * z - y * z > 0
               PROVE  x * z - y * z >= z
    OBVIOUS
  <2>1. (x - y) * z = x * z - y * z
    BY SMT
  <2>2. x - y <= 0 => (x - y) * z <= 0
    BY SMT
  <2>3. x - y >= 1 => (x - y) * z >= z
    BY SMT
  <2> QED
    BY <2>1, <2>2, <2>3, SMT
<1>6. k * g - call * g > 0
  BY <1>1, <1>4
<1>7. Remaining >= g
  BY <1>1, <1>3, <1>4, <1>5, <1>6
<1> QED
  BY <1>1, <1>7, SMT DEF Present, AtMost, g

-----------------------------------------------------------------------------
(* Every step keeps it.                                                    *)

LEMMA MemoryTypes ==
  ASSUME IInv, OffsetInv, Layout, Memory, EvenSizes
  PROVE  /\ Geometry /\ Room /\ TapIsThere
         /\ segmentOffset \in [Blocks -> Int] /\ segmentZeroSamples \in [Blocks -> Int]
         /\ \A b \in Blocks : segmentOffset[b] \in 0 .. params.segments_count - 1
         /\ start \in Nat /\ start \in Int /\ CallOffset \in Nat
<1>1. Geometry /\ TapIsThere /\ Room
  BY GeometryOfLaunch, RoomOfBuffers DEF IInv, Layout
<1>2. 0 .. params.segments_count - 1 \subseteq Int
  BY SMT
<1> QED
  BY <1>1, <1>2, LaunchedTypes DEF IInv, OffsetInv, Together

(* A block that is not idle is in its iteration, from its own init on.     *)
LEMMA RunningPosition ==
  ASSUME IInv, NEW b \in Blocks, ~ (pc[b] = "begin" /\ Translates), inits > 0
  PROVE  segmentZeroSamples[b] \in 0 .. params.input_samples_per_iteration - 1
<1>1. PICK origin \in OffsetsFor(config) : BlockAt(origin, b)
  BY DEF IInv, Positions
<1>2. pc[b] \in {"idle", "begin", "first", "loop"}
  BY DEF IInv, Together
<1> QED
  BY <1>1, <1>2 DEF BlockAt, Located

(* A piece of block b, from the sample it has consumed so far.             *)
LEMMA PieceMemory ==
  ASSUME IInv, OffsetInv, Layout, Memory, EvenSizes, NEW b \in Blocks,
         NEW from \in Nat, NEW size, PieceFits(b, start + from, size),
         ProcessInternal(b, from, size), UNCHANGED <<stream, call>>,
         output = [d \in Blocks |-> output[d]],
         pc[b] \in {"first", "loop"}, pc' = [pc EXCEPT ![b] = "loop"],
         Consumed(b) = start + from,
         NEW c \in Int, c % 2 = 0, cursor' = [cursor EXCEPT ![b] = c],
         from + size = CallOffset + AtMost(c, Present)
  PROVE  Memory'
<1> DEFINE m == params.input_samples_per_iteration
           zero == segmentZeroSamples[b]
<1>1. /\ Geometry /\ Room /\ TapIsThere /\ start \in Int /\ from \in Int
      /\ segmentOffset \in [Blocks -> Int] /\ segmentZeroSamples \in [Blocks -> Int]
      /\ \A d \in Blocks : segmentOffset[d] \in 0 .. params.segments_count - 1
  BY MemoryTypes
<1>2. inits > 0
  BY SMT DEF IInv, Together, Idle
<1>3. Remembers(b, start + from)
  BY <1>2 DEF Memory, MemoryAt
<1>4. PICK t : t = start + from
  OBVIOUS
<1>5. Remembers(b, t + size)'
  BY <1>1, <1>3, <1>4, PieceRemembers
<1>6. /\ params' = params /\ config' = config /\ start' = start /\ inits' = inits
      /\ CallOffset' = CallOffset /\ Present' = Present /\ (Translates' <=> Translates)
      /\ impulse' = impulse /\ tap' = tap
  BY DEF stream, CallOffset, Present, Remaining, Translates
<1>7. pc'[b] = "loop" /\ cursor'[b] = c
  BY DEF IInv, Together
<1>8. Consumed(b)' = t + size
  <2>1. Consumed(b)' = start + (CallOffset + AtMost(c, Present))
    BY <1>6, <1>7 DEF Consumed
  <2>2. start + (from + size) = t + size
    BY <1>1, <1>4, SMT DEF PieceFits
  <2> QED
    BY <2>1, <2>2
<1>9. MemoryAt(b)'
  BY <1>5, <1>8 DEF MemoryAt
<1>10. segmentZeroSamples' = [segmentZeroSamples EXCEPT ![b] = (zero + size) % m]
  <2>1. m \in Nat \ {0} /\ zero \in Nat /\ size \in Nat
    BY <1>1, SMT DEF Geometry, PieceFits
  <2> QED
    BY <2>1, PositionOfPortion
<1>11. EvenAt(b)'
  <2>1. /\ m \in Nat \ {0} /\ zero \in Nat /\ size \in Nat /\ zero % 2 = 0 /\ size % 2 = 0
        /\ zero + size \in 0 .. m
    BY <1>1, SMT DEF Geometry, PieceFits
  <2>2. (zero + size) % m = IF zero + size = m THEN 0 ELSE zero + size
    BY <2>1, ModAtMost
  <2>3. 0 % 2 = 0 /\ (zero + size) % 2 = 0
    BY <2>1, SMT
  <2>4. segmentZeroSamples'[b] = (zero + size) % m
    BY <1>1, <1>10
  <2>5. segmentZeroSamples'[b] % 2 = 0
    BY <2>2, <2>3, <2>4
  <2> QED
    BY <1>7, <2>5 DEF EvenAt
<1>12. ASSUME NEW d \in Blocks, d # b PROVE MemoryAt(d)' /\ EvenAt(d)'
  <2>1. /\ pc'[d] = pc[d] /\ cursor'[d] = cursor[d]
        /\ segmentZeroSamples'[d] = segmentZeroSamples[d]
    BY <1>1, <1>10, <1>12 DEF IInv, Together
  <2>2. EvenAt(d)'
    BY <2>1 DEF Memory, EvenAt
  <2>3. ASSUME inits' > 0, ~ (pc'[d] = "begin" /\ Translates') PROVE Remembers(d, Consumed(d))'
    <3>1. PICK time : time = Consumed(d)
      OBVIOUS
    <3>2. Remembers(d, time) /\ segmentZeroSamples[d] \in Nat
      <4>1. inits > 0 /\ ~ (pc[d] = "begin" /\ Translates)
        BY <1>2, <1>6, <2>1, <2>3
      <4>2. segmentZeroSamples[d] \in 0 .. m - 1
        BY <4>1, RunningPosition
      <4>3. segmentZeroSamples[d] \in Nat
        BY <4>2, SMT
      <4> QED
        BY <3>1, <4>1, <4>3 DEF Memory, MemoryAt
    <3>3. Remembers(d, time)'
      BY <1>1, <1>12, <3>2, OtherPieceRemembers
    <3>4. Consumed(d)' = time
      BY <1>6, <2>1, <3>1 DEF Consumed
    <3> QED
      BY <3>3, <3>4
  <2> QED
    BY <2>2, <2>3 DEF MemoryAt
<1>13. \A d \in Blocks : Right(d)'
  BY <1>1, <1>3, PieceRight DEF Memory
<1> QED
  BY <1>9, <1>11, <1>12, <1>13 DEF Memory

(* A step that leaves the device's memory and the output alone.            *)
LEMMA QuietMemory ==
  ASSUME IInv, OffsetInv, Layout, Memory, EvenSizes, UNCHANGED <<stream, device, output>>,
         \A b \in Blocks :
           inits > 0 /\ ~ (pc'[b] = "begin" /\ Translates') =>
             ~ (pc[b] = "begin" /\ Translates) /\ Consumed(b)' = Consumed(b),
         \A b \in Blocks : pc'[b] = "loop" => cursor'[b] % 2 = 0
  PROVE  Memory'
<1>1. /\ Geometry /\ \A d \in Blocks : segmentOffset[d] \in 0 .. params.segments_count - 1
  BY MemoryTypes
<1>2. /\ params' = params /\ config' = config /\ start' = start /\ inits' = inits
      /\ impulse' = impulse /\ tap' = tap /\ output' = output
      /\ segmentZeroSamples' = segmentZeroSamples /\ responses' = responses
      /\ overlap' = overlap /\ fourierInputSegments' = fourierInputSegments
  BY DEF stream, device
<1>3. ASSUME NEW b \in Blocks PROVE MemoryAt(b)' /\ EvenAt(b)' /\ Right(b)'
  <2>1. EvenAt(b)'
    BY <1>2 DEF Memory, EvenAt
  <2>2. Right(b)'
    <3>1. \A d, i : Expected(d, i)' = Expected(d, i)
      BY <1>2 DEF Expected
    <3>2. Right(b) /\ output' = output /\ start' = start
      BY <1>2 DEF Memory
    <3> QED
      BY <3>1, <3>2 DEF Right
  <2>3. ASSUME inits' > 0, ~ (pc'[b] = "begin" /\ Translates') PROVE Remembers(b, Consumed(b))'
    <3>1. PICK time : time = Consumed(b)
      OBVIOUS
    <3>2. /\ inits > 0 /\ ~ (pc[b] = "begin" /\ Translates)
          /\ Consumed(b)' = time
      BY <1>2, <2>3, <3>1
    <3>3. Remembers(b, time)
      BY <3>1, <3>2 DEF Memory, MemoryAt
    <3>4. segmentZeroSamples[b] \in Nat
      <4>1. segmentZeroSamples[b] \in 0 .. params.input_samples_per_iteration - 1
        BY <3>2, RunningPosition
      <4> QED
        BY <4>1, SMT
    <3>5. Remembers(b, time)'
      <4>1. SameGeometry
        BY <1>2 DEF SameGeometry
      <4> QED
        BY <1>1, <3>3, <3>4, <4>1, UnchangedRemembers
    <3> QED
      BY <3>2, <3>5
  <2> QED
    BY <2>1, <2>2, <2>3 DEF MemoryAt
<1> QED
  BY <1>3 DEF Memory

LEMMA ProcessFirstMemory ==
  ASSUME IInv, Extents, OffsetInv, Layout, Memory, ReachLastCall, EvenSizes,
         NEW b \in Blocks, ProcessFirst(b)
  PROVE  Memory'
<1> DEFINE m == params.input_samples_per_iteration
           zero == segmentZeroSamples[b]
           p == FirstPiece(b)
<1>1. /\ pc[b] = "first" /\ pc' = [pc EXCEPT ![b] = "loop"] /\ UNCHANGED <<stream, call>>
      /\ Consumed(b) = start + CallOffset
  BY MemoryTypes, SMT DEF ProcessFirst, Consumed
<1>2. /\ Geometry /\ segmentOffset[b] \in 0 .. params.segments_count - 1
      /\ start \in Nat /\ CallOffset \in Nat /\ start + CallOffset \in Int
  BY MemoryTypes, SMT
<1>3. Remaining \in Nat /\ Present \in Nat /\ Remaining % 2 = 0 /\ params.grain % 2 = 0
      /\ params.grain \in Nat
  BY PresentInCall, EvenPresent, LaunchedTypes DEF IInv
<1>4. zero % 2 = 0 /\ m % 2 = 0 /\ m \in Nat
  BY <1>2 DEF Geometry, Memory, EvenAt
<1>5. CASE zero # 0
  <2>1. p \in Nat /\ p <= Present /\ zero \in 0 .. m - 1 /\ zero + p <= m
    BY <1>1, <1>5, FirstPieceFits
  <2>2. p % 2 = 0
    <3>1. (m - zero) % 2 = 0
      BY <1>4, <2>1, SMT
    <3> QED
      BY <1>3, <3>1 DEF FirstPiece, AtMost
  <2>3. /\ ProcessInternal(b, CallOffset, p) /\ cursor' = [cursor EXCEPT ![b] = p]
    BY <1>5 DEF ProcessFirst
  <2>4. PieceFits(b, start + CallOffset, p)
    BY <1>2, <1>4, <1>5, <2>1, <2>2 DEF PieceFits
  <2>5. CallOffset + p = CallOffset + AtMost(p, Present)
    BY <2>1 DEF AtMost
  <2>6. output = [d \in Blocks |-> output[d]] /\ p \in Int
    BY <2>1 DEF Extents
  <2> HIDE DEF p
  <2> QED
    BY <1>1, <1>2, <2>2, <2>3, <2>4, <2>5, <2>6, PieceMemory
<1>6. CASE zero = 0
  <2>1. UNCHANGED <<device, output>> /\ cursor' = [cursor EXCEPT ![b] = 0]
    BY <1>6 DEF ProcessFirst
  <2>2. /\ params' = params /\ start' = start /\ CallOffset' = CallOffset
        /\ Present' = Present /\ (Translates' <=> Translates)
    BY <1>1 DEF stream, CallOffset, Present, Remaining, Translates
  <2>3. pc'[b] = "loop" /\ cursor'[b] = 0
    BY <1>1, <2>1 DEF IInv, Together
  <2>4. Consumed(b)' = Consumed(b)
    <3>1. AtMost(0, Present) = 0 /\ CallOffset + 0 = CallOffset
      BY <1>2, <1>3, SMT DEF AtMost
    <3> QED
      BY <1>1, <2>2, <2>3, <3>1 DEF Consumed
  <2>5. \A d \in Blocks : d # b => pc'[d] = pc[d] /\ cursor'[d] = cursor[d]
    BY <1>1, <2>1 DEF IInv, Together
  <2>6. \A d \in Blocks : d # b => Consumed(d)' = Consumed(d)
    BY <2>2, <2>5 DEF Consumed
  <2>7. \A d \in Blocks : pc'[d] = "loop" => cursor'[d] % 2 = 0
    <3>1. 0 % 2 = 0
      BY SMT
    <3> QED
      BY <2>3, <2>5, <3>1 DEF Memory, EvenAt
  <2>8. \A d \in Blocks : ~ (pc'[d] = "begin" /\ Translates') =>
          ~ (pc[d] = "begin" /\ Translates) /\ Consumed(d)' = Consumed(d)
    BY <1>1, <2>2, <2>4, <2>5, <2>6
  <2> QED
    BY <1>1, <2>1, <2>7, <2>8, QuietMemory
<1> QED
  BY <1>5, <1>6

LEMMA ProcessLoopMemory ==
  ASSUME IInv, Extents, OffsetInv, Layout, Memory, ReachLastCall, EvenSizes, FullCalls,
         NEW b \in Blocks, ProcessLoop(b)
  PROVE  Memory'
<1> DEFINE m == params.input_samples_per_iteration
           zero == segmentZeroSamples[b]
           p == LoopPiece(b)
           from == CallOffset + cursor[b]
           c == cursor[b] + m
<1>1. /\ pc[b] = "loop" /\ pc' = pc /\ UNCHANGED <<stream, call>> /\ cursor[b] < params.grain
      /\ ProcessInternal(b, from, p) /\ cursor' = [cursor EXCEPT ![b] = c]
  BY DEF ProcessLoop, Advance
<1>2. /\ Geometry /\ segmentOffset[b] \in 0 .. params.segments_count - 1
      /\ start \in Nat /\ CallOffset \in Nat
  BY MemoryTypes
<1>3. Present \in Nat /\ Present % 2 = 0 /\ params.grain \in Nat
  BY PresentInCall, EvenPresent, LaunchedTypes DEF IInv
<1>4. zero % 2 = 0 /\ cursor[b] % 2 = 0 /\ m % 2 = 0 /\ m \in Nat \ {0}
  BY <1>1, <1>2 DEF Geometry, Memory, EvenAt
<1>5. /\ cursor[b] \in Nat /\ cursor[b] <= Present /\ p \in Nat
      /\ zero \in 0 .. m - 1 /\ zero + p <= m
      /\ c \in Nat /\ AtMost(cursor[b], Present) = cursor[b]
      /\ AtMost(c, Present) = cursor[b] + p
  BY <1>1, LoopPieceFits
<1>6. p = AtMost(Present - cursor[b], m)
  BY DEF LoopPiece, Present
<1> HIDE DEF p, c
<1>7. p % 2 = 0 /\ c % 2 = 0
  <2>1. (Present - cursor[b]) % 2 = 0
    BY <1>3, <1>4, <1>5, SMT
  <2>2. c % 2 = 0
    BY <1>4, <1>5, SMT DEF c
  <2> QED
    BY <1>4, <1>6, <2>1, <2>2 DEF AtMost
<1>8. p = 0 => params.segments_count = 1
  <2> SUFFICES ASSUME p = 0, params.segments_count # 1 PROVE FALSE
    OBVIOUS
  <2>1. params.segments_count > 1
    BY <1>2, SMT DEF Geometry
  <2>2. Present = params.grain
    BY <2>1, PresentIsGrain
  <2>3. Present - cursor[b] > 0
    BY <1>1, <1>3, <1>5, <2>2, SMT
  <2> QED
    BY <1>3, <1>4, <1>5, <1>6, <2>3, SMT DEF AtMost
<1>9. /\ Consumed(b) = start + from /\ from \in Nat /\ start + from \in Int
      /\ from + p = CallOffset + AtMost(c, Present)
  <2>1. Consumed(b) = start + from
    BY <1>1, <1>5 DEF Consumed
  <2> QED
    BY <1>2, <1>5, <2>1, SMT
<1>10. PieceFits(b, start + from, p)
  BY <1>2, <1>4, <1>5, <1>7, <1>8, <1>9 DEF PieceFits
<1>11. /\ output = [d \in Blocks |-> output[d]] /\ c \in Int
       /\ pc' = [pc EXCEPT ![b] = "loop"]
  BY <1>1, <1>5 DEF Extents, IInv, Together
<1> HIDE DEF from
<1> QED
  BY <1>1, <1>7, <1>9, <1>10, <1>11, PieceMemory

LEMMA InitFilterMemory ==
  ASSUME IInv, OffsetInv, Layout, Memory, EvenSizes, NEW b \in Blocks, InitFilter(b)
  PROVE  Memory'
<1>1. /\ pc[b] = "begin" /\ pc' = [pc EXCEPT ![b] = "first"] /\ cursor' = cursor
      /\ UNCHANGED <<stream, call>> /\ output' = output
  BY DEF InitFilter
<1>2. /\ params' = params /\ config' = config /\ start' = start /\ inits' = inits
      /\ impulse' = impulse /\ tap' = tap
      /\ CallOffset' = CallOffset /\ Present' = Present /\ (Translates' <=> Translates)
  BY <1>1 DEF stream, CallOffset, Present, Remaining, Translates
<1>3. pc'[b] = "first" /\ \A d \in Blocks : d # b => pc'[d] = pc[d]
  BY <1>1 DEF IInv, Together
<1>4. Consumed(b) = start + CallOffset /\ \A d \in Blocks : Consumed(d)' = Consumed(d)
  <2>1. Consumed(b) = start + CallOffset /\ Consumed(b)' = start + CallOffset
    <3>1. CallOffset + 0 = CallOffset
      BY MemoryTypes, SMT
    <3> QED
      BY <1>1, <1>2, <1>3, <3>1 DEF Consumed
  <2>2. \A d \in Blocks : d # b => Consumed(d)' = Consumed(d)
    BY <1>1, <1>2, <1>3 DEF Consumed
  <2> QED
    BY <2>1, <2>2
<1>5. \A d \in Blocks : pc'[d] = "loop" => cursor'[d] % 2 = 0
  BY <1>1, <1>3 DEF Memory, EvenAt
<1>6. CASE ~ Translates
  <2>1. UNCHANGED device
    BY <1>6 DEF InitFilter, Translates
  <2> QED
    BY <1>1, <1>2, <1>4, <1>5, <1>6, <2>1, QuietMemory
<1>7. CASE Translates
  <2>1. /\ Geometry /\ Room /\ segmentZeroSamples \in [Blocks -> Int]
        /\ \A d \in Blocks : segmentOffset[d] \in 0 .. params.segments_count - 1
    BY MemoryTypes
  <2>2. Remembers(b, start + CallOffset)'
    BY <1>7, <2>1, InitRemembers DEF Layout
  <2>3. PICK t : t = start + CallOffset
    OBVIOUS
  <2>4. PICK z :
          /\ segmentZeroSamples' = [segmentZeroSamples EXCEPT ![b] = z]
          /\ z = params.init_buffer_offset % params.input_samples_per_iteration
    BY <1>7 DEF InitFilter, Translates
  <2>5. \A d \in Blocks : Right(d)'
    <3>1. \A d, i : Expected(d, i)' = Expected(d, i)
      BY <1>2 DEF Expected
    <3> QED
      BY <1>1, <1>2, <3>1 DEF Memory, Right
  <2>6. MemoryAt(b)'
    <3>1. Consumed(b)' = (start + CallOffset)'
      BY <1>2, <1>4
    <3> QED
      BY <2>2, <3>1 DEF MemoryAt
  <2>7. z % 2 = 0
    <3>1. params.init_buffer_offset \in OffsetsFor(config)
      BY <1>7 DEF IInv, Launched, Translates
    <3>2. params.init_buffer_offset % 2 = 0
          /\ params.init_buffer_offset \in 0 .. params.input_samples_per_iteration - 1
      BY <3>1, EvenOrigin, OriginInIteration DEF IInv, Layout
    <3>3. z = params.init_buffer_offset
      BY <2>1, <2>4, <3>2, SMT DEF Geometry
    <3> QED
      BY <3>2, <3>3
  <2>8. \A d \in Blocks : EvenAt(d)'
    <3>1. segmentZeroSamples'[b] = z
          /\ \A d \in Blocks : d # b => segmentZeroSamples'[d] = segmentZeroSamples[d]
      BY <2>1, <2>4
    <3> QED
      BY <1>5, <2>7, <3>1 DEF Memory, EvenAt
  <2>9. ASSUME NEW d \in Blocks, d # b PROVE MemoryAt(d)'
    <3>1. ASSUME inits' > 0, ~ (pc'[d] = "begin" /\ Translates')
          PROVE  Remembers(d, Consumed(d))'
      <4>1. PICK time : time = Consumed(d)
        OBVIOUS
      <4>2. inits > 0 /\ ~ (pc[d] = "begin" /\ Translates) /\ Consumed(d)' = time
        BY <1>2, <1>3, <1>4, <2>9, <3>1, <4>1
      <4>3. Remembers(d, time)
        BY <4>1, <4>2 DEF Memory, MemoryAt
      <4>4. segmentZeroSamples[d] \in Nat
        <5>1. segmentZeroSamples[d] \in 0 .. params.input_samples_per_iteration - 1
          BY <4>2, RunningPosition
        <5> QED
          BY <5>1, SMT
      <4>5. Remembers(d, time)'
        BY <2>1, <2>9, <4>3, <4>4, OtherInitRemembers
      <4> QED
        BY <4>2, <4>5
    <3> QED
      BY <3>1 DEF MemoryAt
  <2> QED
    BY <2>5, <2>6, <2>8, <2>9 DEF Memory
<1> QED
  BY <1>6, <1>7

LEMMA EndCallMemory ==
  ASSUME IInv, OffsetInv, Layout, Memory, ReachLastCall, EvenSizes, EndCall
  PROVE  Memory'
<1>1. /\ params.grain \in Nat \ {0} /\ CallOffset \in Nat /\ call \in Nat
      /\ Present \in Nat \ {0} /\ Present <= params.grain
      /\ CallOffset + Remaining = params.input_length /\ Remaining \in Nat
  BY LaunchedTypes, PresentInCall DEF IInv
<1>2. CallDone /\ UNCHANGED <<stream, cursor, device, output>>
  BY DEF EndCall
<1>3. params' = params /\ start' = start /\ inits' = inits
  BY <1>2 DEF stream
<1>4. ASSUME NEW b \in Blocks
      PROVE  pc[b] = "loop" /\ Consumed(b) = start + (CallOffset + Present)
  <2>1. pc[b] = "loop" /\ cursor[b] >= params.grain
    BY <1>2 DEF CallDone
  <2>2. AtMost(cursor[b], Present) = Present
    BY <1>1, <2>1, SMT DEF IInv, Together, AtMost
  <2> QED
    BY <2>1, <2>2 DEF Consumed
<1>5. CASE call + 1 < params.num_calls
  <2>1. call' = call + 1 /\ pc' = [b \in Blocks |-> "begin"]
    BY <1>5 DEF EndCall
  <2>2. CallOffset' = CallOffset + Present
    <3>1. Present = params.grain
      <4>1. CallOffset + params.grain < params.input_length
        BY <1>5, CallsDivideChunk DEF IInv
      <4> QED
        BY <1>1, <4>1, SMT DEF Present, AtMost
    <3>2. \A g \in Nat : (call + 1) * g = call * g + g
      BY <1>1, SMT
    <3> QED
      BY <1>1, <1>3, <2>1, <3>1, <3>2 DEF CallOffset
  <2>3. \A b \in Blocks : pc'[b] = "begin" /\ Consumed(b)' = Consumed(b)
    BY <1>3, <1>4, <2>1, <2>2 DEF Consumed
  <2> QED
    BY <1>2, <1>4, <2>3, QuietMemory
<1>6. CASE ~ (call + 1 < params.num_calls)
  <2>1. pc' = [b \in Blocks |-> "idle"]
    BY <1>6 DEF EndCall
  <2>2. CallOffset + Present = params.input_length
    <3>1. call + 1 = params.num_calls
      BY <1>6, LaunchedTypes, SMT DEF IInv, Launched
    <3>2. params.input_length <= CallOffset + params.grain
      BY <3>1, CallsDivideChunk DEF IInv
    <3> QED
      BY <1>1, <3>2, SMT DEF Present, AtMost
  <2>3. \A b \in Blocks : pc'[b] = "idle" /\ Consumed(b)' = Consumed(b)
    BY <1>3, <1>4, <2>1, <2>2 DEF Consumed
  <2> QED
    BY <1>2, <1>4, <2>3, QuietMemory
<1> QED
  BY <1>5, <1>6

(* A new launch: of a new stream, whose memory init is about to set up, or *)
(* of the next chunk, which finds the memory the last one has left.        *)
LEMMA LaunchOutput ==
  ASSUME BeginLaunch, NEW b \in Blocks
  PROVE  Right(b)'
<1>1. output'[b] = [i \in {} |-> 0]
  BY DEF BeginLaunch
<1>2. DOMAIN output'[b] = {}
  BY <1>1
<1>3. output'[b] = [i \in DOMAIN output'[b] |-> Expected(b, start + i)']
  BY <1>1, <1>2
<1> QED
  BY <1>3 DEF Right

LEMMA LaunchInitMemory ==
  ASSUME Layout, Memory, NEW c \in Configs, LaunchInit(c)
  PROVE  Memory'
<1>1. /\ BeginLaunch /\ config' = c /\ params'.filter_length_to_translate_init = c.length
  BY DEF LaunchInit, ParametersFor, LaunchParameters
<1>2. call' = 0 /\ pc' = [b \in Blocks |-> "begin"]
      /\ segmentZeroSamples' = segmentZeroSamples
  BY <1>1 DEF BeginLaunch, device
<1>3. ASSUME NEW b \in Blocks PROVE MemoryAt(b)' /\ EvenAt(b)'
  <2>1. Translates' /\ pc'[b] = "begin"
    BY <1>1, <1>2, ConfigsAssumption DEF Translates
  <2> QED
    BY <1>2, <2>1 DEF Memory, MemoryAt, EvenAt
<1> QED
  BY <1>1, <1>3, LaunchOutput DEF Memory

LEMMA LaunchNextMemory ==
  ASSUME IInv, OffsetInv, Layout, Memory, EvenSizes, NEW c \in Configs, LaunchNext(c)
  PROVE  Memory'
<1>1. /\ BeginLaunch /\ inits > 0 /\ c.length = config.length
      /\ GrainFor(c.capacity) = params.grain
      /\ config' = c /\ params' = ParametersFor(c) /\ start' = start + params.input_length
      /\ impulse' = impulse /\ tap' = tap /\ inits' = inits
  BY DEF LaunchNext
<1>2. Idle /\ call' = 0 /\ pc' = [b \in Blocks |-> "begin"] /\ UNCHANGED <<cursor, device>>
      /\ segmentZeroSamples' = segmentZeroSamples
  BY <1>1 DEF BeginLaunch, device
<1>3. SameGeometry /\ params'.grain = params.grain
  BY <1>1 DEF SameGeometry, IInv, Launched, Layout, Setup, ParametersFor, LaunchParameters
<1>4. CallOffset' = 0 /\ start + params.input_length \in Int
  <2>1. params.grain \in Nat /\ start \in Nat /\ params.input_length \in Nat
    BY LaunchedTypes DEF IInv
  <2> QED
    BY <1>2, <1>3, <2>1, SMT DEF CallOffset
<1>5. ASSUME NEW b \in Blocks PROVE MemoryAt(b)' /\ EvenAt(b)'
  <2>1. pc[b] = "idle" /\ pc'[b] = "begin"
    BY <1>2 DEF Idle
  <2>2. PICK time : time = Consumed(b)
    OBVIOUS
  <2>3. Consumed(b)' = time
    <3>1. Consumed(b)' = (start + params.input_length) + (0 + 0)
      BY <1>1, <1>4, <2>1 DEF Consumed
    <3>2. time = start + params.input_length
      BY <2>1, <2>2 DEF Consumed
    <3> QED
      BY <1>4, <3>1, <3>2, SMT
  <2>4. Remembers(b, time)
    BY <1>1, <2>1, <2>2 DEF Memory, MemoryAt
  <2>5. Remembers(b, time)'
    <3>1. segmentZeroSamples[b] \in 0 .. params.input_samples_per_iteration - 1
      BY <1>1, <2>1, RunningPosition
    <3>2. segmentZeroSamples[b] \in Nat
      BY <3>1, SMT
    <3> QED
      BY <1>2, <1>3, <2>4, <3>2, MemoryTypes, UnchangedRemembers
  <2> QED
    BY <1>2, <2>1, <2>3, <2>5 DEF Memory, MemoryAt, EvenAt
<1> QED
  BY <1>1, <1>5, LaunchOutput DEF Memory

LEMMA InitMemory ==
  ASSUME Init
  PROVE  Memory
<1> SUFFICES ASSUME NEW b \in Blocks PROVE MemoryAt(b) /\ EvenAt(b) /\ Right(b)
  BY DEF Memory
<1>1. inits = 0 /\ pc[b] = "idle" /\ segmentZeroSamples[b] = 0 /\ output[b] = <<>>
  BY DEF Init
<1>2. ~ (0 > 0) /\ 0 % 2 = 0
  BY SMT
<1>3. <<>> = [i \in DOMAIN <<>> |-> Expected(b, start + i)]
  BY SMT
<1> QED
  BY <1>1, <1>2, <1>3 DEF MemoryAt, EvenAt, Right

LEMMA StepMemory ==
  ASSUME ReachLastCall, EvenSizes, FullCalls,
         IInv, Extents, OffsetInv, Layout, Memory, [Next]_vars
  PROVE  Memory'
<1>1. ASSUME NEW c \in Configs, LaunchInit(c) \/ LaunchNext(c) PROVE Memory'
  BY <1>1, LaunchInitMemory, LaunchNextMemory
<1>2. CASE EndCall
  BY <1>2, EndCallMemory
<1>3. ASSUME NEW b \in Blocks, BlockStep(b) PROVE Memory'
  BY <1>3, InitFilterMemory, ProcessFirstMemory, ProcessLoopMemory DEF BlockStep
<1>4. CASE UNCHANGED vars
  <2>1. /\ UNCHANGED <<stream, device, output>> /\ pc' = pc /\ cursor' = cursor
        /\ \A b \in Blocks : Consumed(b)' = Consumed(b)
        /\ (Translates' <=> Translates)
    BY <1>4 DEF vars, stream, Consumed, CallOffset, Present, Remaining, Translates
  <2>2. \A b \in Blocks : pc'[b] = "loop" => cursor'[b] % 2 = 0
    BY <2>1 DEF Memory, EvenAt
  <2> QED
    BY <2>1, <2>2, QuietMemory
<1> QED
  BY <1>1, <1>2, <1>3, <1>4 DEF Next

(* The output of every chunk is the convolution of the stream so far with  *)
(* the filter, however the stream is cut into chunks, calls, pieces and    *)
(* iterations, if all sizes are even, chunks reach into their last call,   *)
(* filters of several segments get whole calls, and the number of segments *)
(* never changes (FirProcessor.cuh).                                       *)
THEOREM OutputConvolves ==
  ASSUME ReachLastCall, EqualSegments, EvenSizes, FullCalls
  PROVE  Spec => []OutputIsConvolution
<1>1. Init => Memory
  BY InitMemory
<1>2. IInv /\ Extents /\ OffsetInv /\ Layout /\ Memory /\ [Next]_vars => Memory'
  BY StepMemory
<1>3. Extents /\ Memory => OutputIsConvolution
  <2> SUFFICES ASSUME Extents, Memory, inits > 0, Idle, NEW b \in Blocks
               PROVE  output[b] =
                        [i \in 0 .. params.input_length - 1 |-> Expected(b, StreamTime(i))]
    BY DEF OutputIsConvolution
  <2>1. DOMAIN output[b] = 0 .. params.input_length - 1
    BY DEF Extents, Extent, Idle, Written
  <2> QED
    BY <2>1 DEF Memory, Right, StreamTime
<1> QED
  BY <1>1, <1>2, <1>3, PositionInvariance, ExtentInvariance, OffsetInvariance,
     LayoutInvariance, PTL DEF Spec

-----------------------------------------------------------------------------
(* Types: the buffers hold signals and samples, whatever the sizes.        *)

Types ==
  /\ cursor \in [Blocks -> Nat] /\ inits \in 0 .. MaxInits
  /\ segmentZeroSamples \in [Blocks -> Nat]
  /\ \A i \in DOMAIN fourierInputSegments : fourierInputSegments[i] \in Signals
  /\ \A i \in DOMAIN overlap : overlap[i] \in Nat
  /\ \A b \in Blocks :
       /\ \A i \in DOMAIN responses[b] : responses[b][i] \in Signals
       /\ inits > 0 /\ ~ (pc[b] = "begin" /\ Translates) =>
            DOMAIN responses[b] = 0 .. params.segments_count - 1

LEMMA LoadedSignal ==
  ASSUME NEW size \in Int, NEW offset \in Nat, NEW piece,
         \A n \in 0 .. size - 1 : piece[n] \in Nat
  PROVE  LoadChecked(piece, size, offset) \in Signals
<1>1. ASSUME NEW n \in Points
      PROVE  (IF n - (n % 2) >= offset /\ n - (n % 2) < offset + size - 1
              THEN piece[n - offset] ELSE 0) \in Nat
  <2>1. n \in Nat
    BY FftLengthAssumption, SMT DEF Points
  <2>2. n - (n % 2) >= offset /\ n - (n % 2) < offset + size - 1 =>
          n - offset \in 0 .. size - 1
    BY <2>1, SMT
  <2>3. 0 \in Nat
    BY SMT
  <2> QED
    BY <2>2, <2>3
<1> QED
  BY <1>1 DEF LoadChecked, Signals

(* A piece turns signals and samples into such.                            *)
LEMMA PieceTypes ==
  ASSUME Launched, Layout, OffsetInv, Types,
         NEW b \in Blocks, NEW from, NEW size \in Nat, ProcessInternal(b, from, size),
         segmentZeroSamples[b] \in Nat,
         DOMAIN responses[b] = 0 .. params.segments_count - 1
  PROVE  /\ \A i \in DOMAIN fourierInputSegments' : fourierInputSegments'[i] \in Signals
         /\ \A i \in DOMAIN overlap' : overlap'[i] \in Nat
<1> DEFINE n == params.segments_count
           m == params.input_samples_per_iteration
           o == params.overlap_length
           loaded == LoadedOf(b, from, size)
           segment == SegmentOf(b, from, size)
           history == HistoryOf(b)
           result == ResultOf(b, from, size)
<1>1. /\ n \in Nat \ {0} /\ m \in Nat \ {0} /\ segmentOffset[b] \in 0 .. n - 1 /\ b \in Int
  BY LaunchedTypes, ConfigsAssumption, SMT DEF OffsetInv, Blocks
<1>2. o \in Nat /\ o <= 2 * FftLength
  <2>1. config.length \in Nat \ {0}
    BY ConfigsAssumption DEF Launched
  <2> QED
    BY <2>1, FftLengthAssumption, SMT DEF Layout, Setup, OverlapLength, AtMost
<1>3. Room
  BY RoomOfBuffers DEF Layout
<1>4. loaded \in Signals
  <2> DEFINE piece == [k \in 0 .. size - 1 |-> InputSample(b, from + k)]
  <2>1. \A k \in 0 .. size - 1 : piece[k] \in Nat
    BY SMT DEF InputSample
  <2> HIDE DEF piece
  <2>2. LoadChecked(piece, size, segmentZeroSamples[b]) \in Signals
    BY <2>1, LoadedSignal
  <2> QED
    BY <2>2 DEF LoadedOf, piece
<1>5. \A i \in 0 .. n - 1 : Ring(b, i) \in Signals
  BY <1>1, <1>3, RingIndex DEF Room, Ring, Types
<1>6. segment \in Signals
  <2>1. fourierInputSegments[SegmentBase(b) + segmentOffset[b]] \in Signals
    BY <1>1, <1>3 DEF Room, Types
  <2> QED
    BY <1>4, <2>1, PlusSignal DEF SegmentOf, SegmentWith
<1>7. \A i \in 0 .. n - 1 : responses[b][i] \in Signals
  BY DEF Types
<1>8. history \in Signals
  <2>1. Silence \in Signals
    BY <1>4, PlusSignal
  <2>2. \A i \in 1 .. n - 1 : i \in 0 .. n - 1
    BY SMT
  <2>3. \A i \in 1 .. n - 1 : Convolved(Ring(b, i), responses[b][i]) \in Signals
    BY <1>5, <1>7, <2>2, ConvolvedSignal
  <2>4. History(b) \in Signals
    BY <1>1, <2>3, HistorySignal
  <2> QED
    BY <2>1, <2>4 DEF HistoryOf
<1>9. result \in Signals
  <2>1. responses[b][0] \in Signals
    BY <1>1, <1>7, SMT
  <2>2. Convolved(segment, responses[b][0]) \in Signals
    BY <1>6, <2>1, ConvolvedSignal
  <2> QED
    BY <1>8, <2>2, PlusSignal DEF ResultOf
<1>10. \A i \in 0 .. o - 1 : i \in Points /\ OverOf(b, size, i) \in Nat
  <2> SUFFICES ASSUME NEW i \in 0 .. o - 1 PROVE i \in Points /\ OverOf(b, size, i) \in Nat
    OBVIOUS
  <2>1. i \in Points
    BY <1>2, FftLengthAssumption, SMT DEF Points
  <2>2. history[i] \in Nat
    BY <1>8, <2>1 DEF Signals
  <2>3. overlap[OverlapBase(b) + i] \in Nat
    BY <1>3 DEF Room, Types
  <2>4. \A x, y \in Nat : \A e : x + (IF e THEN y ELSE 0) \in Nat
    BY SMT
  <2> HIDE DEF history
  <2>5. OverOf(b, size, i) \in Nat
    BY <2>2, <2>3, <2>4 DEF OverOf, history
  <2> QED
    BY <2>1, <2>5
<1> HIDE DEF segment, result, history
<1>11. \A i \in 0 .. o - 1 : LeftOf(b, from, size, i) \in Nat
  <2> SUFFICES ASSUME NEW i \in 0 .. o - 1 PROVE LeftOf(b, from, size, i) \in Nat
    OBVIOUS
  <2> DEFINE k == i + m
             carried == IF k < o THEN OverOf(b, size, k) ELSE 0
             left == IF k \in Points THEN ResultOf(b, from, size)[k] ELSE 0
  <2>1. carried \in Nat
    <3>1. k < o => k \in 0 .. o - 1
      BY <1>1, <1>2, SMT
    <3> HIDE DEF k
    <3> QED
      BY <1>10, <3>1
  <2>2. left \in Nat
    BY <1>9 DEF Signals, result
  <2>3. carried + left \in Nat
    <3> HIDE DEF carried, left
    <3> QED
      BY <2>1, <2>2, SMT
  <2> QED
    BY <2>3 DEF LeftOf
<1>12. \A i \in DOMAIN fourierInputSegments' : fourierInputSegments'[i] \in Signals
  <2>1. fourierInputSegments' = fourierInputSegments
        \/ fourierInputSegments' =
             [fourierInputSegments EXCEPT ![SegmentBase(b) + segmentOffset[b]] = segment]
    BY PieceStoresSegment DEF segment
  <2> QED
    BY <1>6, <2>1 DEF Types
<1>13. \A i \in DOMAIN overlap' : overlap'[i] \in Nat
  BY <1>10, <1>11, PieceAddsOverlap DEF Types
<1> QED
  BY <1>12, <1>13

(* Block b moves, by a piece or without one.                               *)
LEMMA BlockTypes ==
  ASSUME IInv, Layout, OffsetInv, Types, NEW b \in Blocks, UNCHANGED <<stream, call>>,
         pc[b] \in {"first", "loop"}, pc' = [pc EXCEPT ![b] = "loop"],
         NEW c \in Nat, cursor' = [cursor EXCEPT ![b] = c],
         \/ UNCHANGED device
         \/ \E from, size : size \in Nat /\ ProcessInternal(b, from, size)
  PROVE  Types'
<1>1. inits > 0 /\ inits' = inits /\ params' = params /\ (Translates' <=> Translates)
  BY SMT DEF IInv, Together, Idle, stream, Translates
<1>2. cursor' \in [Blocks -> Nat] /\ inits' \in 0 .. MaxInits
  BY <1>1 DEF Types
<1>3. segmentZeroSamples' \in [Blocks -> Nat]
  <2>1. CASE UNCHANGED device
    BY <2>1 DEF device, Types
  <2>2. ASSUME NEW from, NEW size \in Nat, ProcessInternal(b, from, size)
        PROVE  segmentZeroSamples' \in [Blocks -> Nat]
    <3> DEFINE z == (segmentZeroSamples[b] + size) % params.input_samples_per_iteration
    <3>1. params.input_samples_per_iteration \in Nat \ {0}
      BY LaunchedTypes DEF IInv
    <3>2. segmentZeroSamples[b] \in Nat
      BY DEF Types
    <3>3. z \in Nat
      BY <3>1, <3>2, SMT
    <3>4. segmentZeroSamples' = [segmentZeroSamples EXCEPT ![b] = z]
      BY <2>2, <3>1, <3>2, PositionOfPortion
    <3> HIDE DEF z
    <3> QED
      BY <3>3, <3>4 DEF Types
  <2> QED
    BY <2>1, <2>2
<1>4. /\ \A i \in DOMAIN fourierInputSegments' : fourierInputSegments'[i] \in Signals
      /\ \A i \in DOMAIN overlap' : overlap'[i] \in Nat
      /\ responses' = responses
  <2>1. CASE UNCHANGED device
    BY <2>1 DEF device, Types
  <2>2. ASSUME NEW from, NEW size \in Nat, ProcessInternal(b, from, size)
        PROVE  /\ \A i \in DOMAIN fourierInputSegments' : fourierInputSegments'[i] \in Signals
               /\ \A i \in DOMAIN overlap' : overlap'[i] \in Nat
               /\ responses' = responses
    <3>1. segmentZeroSamples[b] \in 0 .. params.input_samples_per_iteration - 1
      BY <1>1, RunningPosition
    <3>2. segmentZeroSamples[b] \in Nat /\ Launched
      BY <3>1, SMT DEF IInv
    <3>3. DOMAIN responses[b] = 0 .. params.segments_count - 1
      BY <1>1 DEF Types
    <3>4. responses' = responses
      BY <2>2 DEF ProcessInternal
    <3> QED
      BY <2>2, <3>2, <3>3, <3>4, PieceTypes
  <2> QED
    BY <2>1, <2>2
<1>5. ASSUME NEW d \in Blocks
      PROVE  /\ \A i \in DOMAIN responses'[d] : responses'[d][i] \in Signals
             /\ inits' > 0 /\ ~ (pc'[d] = "begin" /\ Translates') =>
                  DOMAIN responses'[d] = 0 .. params'.segments_count - 1
  <2>1. pc'[d] = "begin" <=> pc[d] = "begin"
    BY DEF IInv, Together
  <2> QED
    BY <1>1, <1>4, <2>1 DEF Types
<1> QED
  BY <1>2, <1>4, <1>5, <1>3 DEF Types

LEMMA InitFilterTypes ==
  ASSUME IInv, Layout, OffsetInv, Types, NEW b \in Blocks, InitFilter(b)
  PROVE  Types'
<1>1. /\ pc[b] = "begin" /\ pc' = [pc EXCEPT ![b] = "first"] /\ cursor' = cursor
      /\ UNCHANGED <<stream, call>>
  BY DEF InitFilter
<1>2. inits' = inits /\ params' = params /\ (Translates' <=> Translates)
      /\ pc'[b] = "first" /\ \A d \in Blocks : d # b => pc'[d] = pc[d]
  BY <1>1 DEF IInv, Together, stream, Translates
<1>3. CASE ~ Translates
  <2>1. UNCHANGED device
    BY <1>3 DEF InitFilter, Translates
  <2> QED
    BY <1>1, <1>2, <1>3, <2>1 DEF Types, device
<1>4. CASE Translates
  <2> DEFINE n == params.segments_count
             silenced == [i \in 0 .. n - 1 |-> InitSegment(i)]
  <2>1. DivUp(params.filter_length_to_translate_init, params.fir_samples_per_iteration) = n
    BY <1>4 DEF IInv, Launched, Layout, Setup, SegmentCount, Translates
  <2>2. /\ responses' = [responses EXCEPT ![b] = silenced]
        /\ fourierInputSegments' = SilencedSegments(b) /\ overlap' = SilencedOverlap(b)
    BY <1>4, <2>1 DEF InitFilter, Translates
  <2>3. \A i \in 0 .. n - 1 : InitSegment(i) \in Signals
    <3> SUFFICES ASSUME NEW i \in 0 .. n - 1 PROVE InitSegment(i) \in Signals
      OBVIOUS
    <3> DEFINE offset == i * params.fir_samples_per_iteration
               size == AtMost(params.fir_samples_per_iteration,
                              params.filter_length_to_translate_init - offset)
               piece == [k \in 0 .. size - 1 |-> FilterSample(offset + k)]
    <3>1. size \in Int
      <4>1. config.length \in Nat
        BY ConfigsAssumption DEF IInv, Launched
      <4>2. params.fir_samples_per_iteration \in Int
            /\ params.filter_length_to_translate_init \in Int
        BY <4>1, FftLengthAssumption, SMT DEF Layout, Setup, FirSamplesPerSegment
      <4>3. i \in Int /\ offset \in Int
        BY <4>2, SMT
      <4> HIDE DEF offset
      <4> QED
        BY <4>2, <4>3, SMT DEF AtMost
    <3>2. \A k \in 0 .. size - 1 : piece[k] \in Nat
      BY SMT DEF FilterSample
    <3>3. 0 \in Nat
      BY SMT
    <3> HIDE DEF size, piece
    <3>4. LoadChecked(piece, size, 0) \in Signals
      BY <3>1, <3>2, <3>3, LoadedSignal
    <3> QED
      BY <3>4 DEF InitSegment, piece, size
  <2>4. Silence \in Signals /\ 0 \in Nat
    BY SMT DEF Silence, Signals
  <2>5. /\ \A i \in DOMAIN fourierInputSegments' : fourierInputSegments'[i] \in Signals
        /\ \A i \in DOMAIN overlap' : overlap'[i] \in Nat
    BY <2>2, <2>4 DEF SilencedSegments, SilencedOverlap, Types
  <2>6. /\ responses'[b] = silenced
        /\ \A d \in Blocks : d # b => responses'[d] = responses[d]
    <3> HIDE DEF silenced
    <3> QED
      BY <2>2 DEF Layout
  <2>7. \A i \in DOMAIN silenced : silenced[i] \in Signals
    BY <2>3
  <2>8. DOMAIN silenced = 0 .. n - 1
    OBVIOUS
  <2>9. segmentZeroSamples' \in [Blocks -> Nat]
    <3> DEFINE z == params.init_buffer_offset % params.input_samples_per_iteration
    <3>1. Launched /\ params.init_buffer_offset \in OffsetsFor(config)
      BY <1>4 DEF IInv, Launched, Translates
    <3>2. params.init_buffer_offset \in 0 .. params.input_samples_per_iteration - 1
          /\ params.input_samples_per_iteration \in Nat \ {0}
      BY <3>1, OriginInIteration, LaunchedTypes
    <3>3. z \in Nat
      BY <3>2, SMT
    <3>4. segmentZeroSamples' = [segmentZeroSamples EXCEPT ![b] = z]
      BY <1>4 DEF InitFilter, Translates
    <3> HIDE DEF z
    <3> QED
      BY <3>3, <3>4 DEF Types
  <2> HIDE DEF silenced
  <2> QED
    BY <1>1, <1>2, <2>5, <2>6, <2>7, <2>8, <2>9 DEF Types
<1> QED
  BY <1>3, <1>4

LEMMA StepTypes ==
  ASSUME ReachLastCall, EqualSegments, IInv, Layout, OffsetInv, Types, [Next]_vars
  PROVE  Types'
<1>1. ASSUME NEW b \in Blocks, BlockStep(b) PROVE Types'
  <2>1. CASE InitFilter(b)
    BY <2>1, InitFilterTypes
  <2>2. CASE ProcessFirst(b)
    <3>1. pc[b] = "first" /\ pc' = [pc EXCEPT ![b] = "loop"] /\ UNCHANGED <<stream, call>>
      BY <2>2 DEF ProcessFirst
    <3>2. CASE segmentZeroSamples[b] # 0
      <4>1. FirstPiece(b) \in Nat
        BY <3>1, <3>2, FirstPieceFits
      <4>2. ProcessInternal(b, CallOffset, FirstPiece(b))
            /\ cursor' = [cursor EXCEPT ![b] = FirstPiece(b)]
        BY <2>2, <3>2 DEF ProcessFirst
      <4> QED
        BY <3>1, <4>1, <4>2, BlockTypes
    <3>3. CASE segmentZeroSamples[b] = 0
      <4>1. UNCHANGED device /\ cursor' = [cursor EXCEPT ![b] = 0] /\ 0 \in Nat
        BY <2>2, <3>3, SMT DEF ProcessFirst
      <4> QED
        BY <3>1, <4>1, BlockTypes
    <3> QED
      BY <3>2, <3>3
  <2>3. CASE ProcessLoop(b)
    <3> DEFINE c == cursor[b] + params.input_samples_per_iteration
    <3>1. /\ pc[b] = "loop" /\ pc' = pc /\ UNCHANGED <<stream, call>>
          /\ cursor[b] < params.grain /\ cursor' = [cursor EXCEPT ![b] = c]
          /\ ProcessInternal(b, CallOffset + cursor[b], LoopPiece(b))
      BY <2>3 DEF ProcessLoop, Advance
    <3>2. LoopPiece(b) \in Nat /\ c \in Nat
      BY <3>1, LoopPieceFits
    <3>3. pc' = [pc EXCEPT ![b] = "loop"]
      BY <3>1 DEF IInv, Together
    <3> HIDE DEF c
    <3> QED
      BY <3>1, <3>2, <3>3, BlockTypes
  <2> QED
    BY <1>1, <2>1, <2>2, <2>3 DEF BlockStep
<1>2. ASSUME NEW c \in Configs, LaunchInit(c) PROVE Types'
  <2>1. /\ BeginLaunch /\ inits' = inits + 1 /\ inits < MaxInits
        /\ params'.filter_length_to_translate_init = c.length
    BY <1>2 DEF LaunchInit, ParametersFor, LaunchParameters
  <2>2. call' = 0 /\ pc' = [b \in Blocks |-> "begin"] /\ UNCHANGED <<cursor, device>>
    BY <2>1 DEF BeginLaunch
  <2>3. Translates' /\ inits' \in 0 .. MaxInits
    BY <2>1, <2>2, ConfigsAssumption, SMT DEF Translates, Types
  <2> QED
    BY <2>2, <2>3 DEF Types, device
<1>3. ASSUME NEW c \in Configs, LaunchNext(c) PROVE Types'
  <2>1. /\ BeginLaunch /\ inits' = inits /\ params' = ParametersFor(c)
        /\ c.length = config.length
    BY <1>3 DEF LaunchNext
  <2>2. Idle /\ UNCHANGED <<cursor, device>>
    BY <2>1 DEF BeginLaunch
  <2>3. params'.segments_count = params.segments_count
    BY <2>1 DEF IInv, Launched, ParametersFor, LaunchParameters
  <2>4. \A b \in Blocks : pc[b] # "begin"
    BY <2>2 DEF Idle
  <2> QED
    BY <2>1, <2>2, <2>3, <2>4 DEF Types, device
<1>4. CASE EndCall
  <2>1. CallDone /\ UNCHANGED <<stream, cursor, device>>
    BY <1>4 DEF EndCall
  <2>2. \A b \in Blocks : pc[b] # "begin"
    BY <2>1 DEF CallDone
  <2> QED
    BY <2>1, <2>2 DEF Types, stream, device
<1>5. CASE UNCHANGED vars
  BY <1>5 DEF vars, stream, device, Types, Translates
<1> QED
  BY <1>1, <1>2, <1>3, <1>4, <1>5 DEF Next

(* Every variable of the device keeps its type through Init, Process and   *)
(* the pieces of ProcessInternal: what a block loads, convolves and leaves *)
(* in the shared buffers is a signal or a sample, never a value it finds   *)
(* outside them.                                                           *)
THEOREM DeviceTypeCorrect ==
  ASSUME ReachLastCall, EqualSegments
  PROVE  Spec => []TypeOK
<1>1. Init => Types
  <2> SUFFICES ASSUME Init PROVE Types
    OBVIOUS
  <2>1. Silence \in Signals /\ 0 \in Nat /\ 0 \in 0 .. MaxInits /\ ~ (0 > 0)
    BY ConfigsAssumption, SMT DEF Silence, Signals
  <2>2. inits = 0 /\ cursor = [b \in Blocks |-> 0]
        /\ segmentZeroSamples = [b \in Blocks |-> 0]
        /\ \A b \in Blocks : responses[b] = <<>>
    BY DEF Init
  <2>3. /\ \A i \in DOMAIN fourierInputSegments : fourierInputSegments[i] = Silence
        /\ \A i \in DOMAIN overlap : overlap[i] = 0
    BY DEF Init
  <2>4. DOMAIN <<>> = {}
    BY SMT
  <2> QED
    BY <2>1, <2>2, <2>3, <2>4 DEF Types
<1>2. IInv /\ Layout /\ OffsetInv /\ Types /\ [Next]_vars => Types'
  BY StepTypes
<1>3. IInv /\ Layout /\ OffsetInv /\ Types => TypeOK
  <2> SUFFICES ASSUME IInv, Layout, OffsetInv, Types PROVE TypeOK
    OBVIOUS
  <2>1. config \in Configs /\ call \in 0 .. params.num_calls - 1 /\ start \in Nat
        /\ pc \in [Blocks -> {"idle", "begin", "first", "loop"}]
    BY DEF IInv, Launched, Together
  <2>2. segmentOffset \in [Blocks -> Nat]
    <3>1. 0 .. params.segments_count - 1 \subseteq Nat
      BY SMT
    <3> QED
      BY <3>1 DEF OffsetInv
  <2>3. impulse \in Blocks \X Nat /\ tap \in Nat
    BY SMT DEF Layout, Setup
  <2> QED
    BY <2>1, <2>2, <2>3 DEF Types, TypeOK
<1> QED
  BY <1>1, <1>2, <1>3, PositionInvariance, OffsetInvariance, LayoutInvariance, PTL DEF Spec

-----------------------------------------------------------------------------
(* Every block implements FirPieces, whatever the launches.                *)

OnBlocks(f) == f = [b \in Blocks |-> f[b]]

Calls ==
  /\ call \in Nat /\ params.num_calls \in Nat /\ call < params.num_calls
  /\ pc \in [Blocks -> {"idle", "begin", "first", "loop"}]
  /\ inits \in Nat /\ (inits = 0 => Idle)
  /\ \A b, d \in Blocks : pc[b] = "idle" => pc[d] = "idle"
  /\ OnBlocks(cursor) /\ OnBlocks(segmentOffset) /\ OnBlocks(segmentZeroSamples)

LEMMA CallsOfLaunch ==
  ASSUME NEW c \in Configs
  PROVE  /\ ParametersFor(c).num_calls \in Nat \ {0} /\ c.length # 0
         /\ ParametersFor(c).filter_length_to_translate_init = 0
<1>1. c.length \in Nat \ {0} /\ c.capacity \in Nat \ {0}
  BY ConfigsAssumption
<1>2. GrainFor(c.capacity) \in Nat \ {0}
  BY <1>1, FftLengthAssumption, SMT DEF GrainFor, AtMost
<1>3. NumCalls(c.capacity, GrainFor(c.capacity)) \in Nat \ {0}
  BY <1>1, <1>2, DivUpCovers DEF NumCalls
<1> QED
  BY <1>1, <1>3 DEF ParametersFor, LaunchParameters

LEMMA InitCalls == Init => Calls
<1> SUFFICES ASSUME Init PROVE Calls
  OBVIOUS
<1>1. params.num_calls \in Nat \ {0}
  BY CallsOfLaunch DEF Init
<1> QED
  BY <1>1, SMT DEF Init, Calls, OnBlocks, Idle

LEMMA StepCalls ==
  ASSUME Calls, [Next]_vars
  PROVE  Calls'
<1>1. ASSUME NEW c \in Configs, LaunchInit(c) \/ LaunchNext(c) PROVE Calls'
  <2>1. BeginLaunch /\ call' = 0 /\ inits' \in Nat /\ inits' # 0
        /\ params'.num_calls = ParametersFor(c).num_calls
    <3>1. BeginLaunch /\ call' = 0 /\ (inits' = inits + 1 \/ (inits' = inits /\ inits > 0))
      BY <1>1 DEF LaunchInit, LaunchNext, BeginLaunch
    <3>2. params'.num_calls = ParametersFor(c).num_calls
      BY <1>1 DEF LaunchInit, LaunchNext, ParametersFor, LaunchParameters
    <3>3. inits' \in Nat /\ inits' # 0
      BY <3>1, SMT DEF Calls
    <3> QED
      BY <3>1, <3>2, <3>3
  <2>2. 0 \in Nat /\ call' < params'.num_calls /\ params'.num_calls \in Nat
    BY <2>1, CallsOfLaunch, SMT
  <2> QED
    BY <2>1, <2>2 DEF BeginLaunch, Calls, OnBlocks, device
<1>2. CASE EndCall
  <2>1. inits # 0
    <3>1. 0 \in Blocks /\ pc[0] = "loop"
      BY <1>2, ConfigsAssumption, SMT DEF EndCall, CallDone, Blocks
    <3> QED
      BY <3>1 DEF Calls, Idle
  <2>2. call' \in Nat /\ call' < params.num_calls
    BY <1>2, SMT DEF EndCall, Calls
  <2> QED
    BY <1>2, <2>1, <2>2 DEF EndCall, Calls, OnBlocks, Idle, stream, device
<1>3. ASSUME NEW b \in Blocks, BlockStep(b) PROVE Calls'
  <2>1. pc[b] # "idle" /\ pc'[b] # "idle" /\ UNCHANGED <<stream, call>>
        /\ \A d \in Blocks : d # b => pc'[d] = pc[d]
    BY <1>3 DEF BlockStep, InitFilter, ProcessFirst, ProcessLoop, Calls
  <2>7. (pc \in [Blocks -> {"idle", "begin", "first", "loop"}])'
    BY <1>3 DEF BlockStep, InitFilter, ProcessFirst, ProcessLoop, Calls
  <2>2. OnBlocks(cursor')
    BY <1>3 DEF BlockStep, InitFilter, ProcessFirst, ProcessLoop, Calls, OnBlocks
  <2>3. OnBlocks(segmentOffset') /\ OnBlocks(segmentZeroSamples')
    <3>1. CASE UNCHANGED device
      BY <3>1 DEF device, Calls
    <3>2. ASSUME NEW from, NEW size, ProcessInternal(b, from, size)
          PROVE  OnBlocks(segmentOffset') /\ OnBlocks(segmentZeroSamples')
      BY <3>2, PositionOfPiece DEF Calls, OnBlocks
    <3>3. CASE InitFilter(b)
      BY <3>3 DEF InitFilter, device, Calls, OnBlocks
    <3> QED
      BY <1>3, <3>1, <3>2, <3>3 DEF BlockStep, ProcessFirst, ProcessLoop
  <2>4. inits' # 0
    BY <2>1 DEF Calls, Idle, stream
  <2>5. \A d \in Blocks : pc[d] # "idle" /\ pc'[d] # "idle"
    BY <2>1 DEF Calls
  <2>6. call' \in Nat /\ params'.num_calls \in Nat /\ call' < params'.num_calls
        /\ inits' \in Nat
    BY <2>1 DEF Calls, stream
  <2> QED
    BY <2>1, <2>2, <2>3, <2>4, <2>5, <2>6, <2>7, Zenon DEF Calls, OnBlocks
<1>4. CASE UNCHANGED vars
  BY <1>4 DEF Calls, OnBlocks, Idle, vars, stream, device
<1> QED
  BY <1>1, <1>2, <1>3, <1>4 DEF Next

(* FirPieces has the arithmetic of FirGeometry too.                        *)
LEMMA PiecesGeometry ==
  ASSUME NEW b, NEW c
  PROVE  /\ Pieces(b)!ParametersFor(c) = ParametersFor(c)
         /\ Pieces(b)!GrainFor(c.capacity) = GrainFor(c.capacity)
         /\ Pieces(b)!InitOffsets(c.length, GrainFor(c.capacity), Rands) = OffsetsFor(c)
<1>1. \A x, y : Pieces(b)!AtMost(x, y) = AtMost(x, y)
                /\ Pieces(b)!AtLeast(x, y) = AtLeast(x, y)
                /\ Pieces(b)!DivUp(x, y) = DivUp(x, y)
  BY DEF AtMost, AtLeast, DivUp, Pieces!AtMost, Pieces!AtLeast, Pieces!DivUp
<1>2. \A x, y : /\ Pieces(b)!GrainFor(x) = GrainFor(x)
                /\ Pieces(b)!FirSamplesPerSegment(x) = FirSamplesPerSegment(x)
                /\ Pieces(b)!OverlapLength(x) = OverlapLength(x)
                /\ Pieces(b)!NumCalls(x, y) = NumCalls(x, y)
                /\ Pieces(b)!InputSizePerIteration(x, y) = InputSizePerIteration(x, y)
                /\ Pieces(b)!FftLengthQuarter = FftLengthQuarter
  BY <1>1 DEF GrainFor, FirSamplesPerSegment, OverlapLength, NumCalls, InputSizePerIteration,
     Pieces!GrainFor, Pieces!FirSamplesPerSegment, Pieces!OverlapLength, Pieces!NumCalls,
     Pieces!InputSizePerIteration, FftLengthQuarter, Pieces!FftLengthQuarter
<1>3. \A x : Pieces(b)!SegmentCount(x) = SegmentCount(x)
  BY <1>1, <1>2 DEF SegmentCount, Pieces!SegmentCount
<1>4. \A x, y, z : Pieces(b)!LaunchParameters(x, y, z) = LaunchParameters(x, y, z)
  BY <1>2, <1>3, Zenon DEF LaunchParameters, Pieces!LaunchParameters
<1>5. \A x, y : Pieces(b)!InitOffsets(x, y, Rands) = InitOffsets(x, y, Rands)
  BY <1>2 DEF InitOffsets, Pieces!InitOffsets
<1> QED
  BY <1>2, <1>4, <1>5 DEF ParametersFor, Pieces!ParametersFor, OffsetsFor

LEMMA PiecesBegin == Init => \A b \in Blocks : Pieces(b)!Init
<1> SUFFICES ASSUME Init, NEW b \in Blocks PROVE Pieces(b)!Init
  OBVIOUS
<1>1. /\ config \in Configs /\ params = ParametersFor(config) /\ inits = 0
      /\ pc[b] = "idle" /\ segmentOffset[b] = 0 /\ segmentZeroSamples[b] = 0
  BY DEF Init
<1> QED
  BY <1>1, PiecesGeometry DEF Pieces!Init

(* A piece of block b, seen from outside.                                  *)
LEMMA PieceIsTaken ==
  ASSUME Calls, NEW b \in Blocks, NEW from, NEW size, ProcessInternal(b, from, size),
         pc[b] # "begin", pc'[b] # "begin", UNCHANGED stream
  PROVE  Pieces(b)!Take(size)
<1>1. /\ segmentZeroSamples'[b] = Remainder(segmentZeroSamples[b] + size,
                                            params.input_samples_per_iteration)
      /\ segmentOffset'[b] = IF Completes(b, size) THEN NextOffset(b) ELSE segmentOffset[b]
  BY PositionOfPiece DEF Calls, OnBlocks
<1>2. \A x, y : Pieces(b)!Remainder(x, y) = Remainder(x, y)
  BY DEF Remainder, Pieces!Remainder
<1> QED
  BY <1>1, <1>2 DEF Pieces!Take, Pieces!iteration, Completes, NextOffset, stream

LEMMA FirstIsPiece ==
  ASSUME Calls, NEW b \in Blocks, ProcessFirst(b)
  PROVE  Pieces(b)!First
<1>1. /\ pc[b] = "first" /\ pc'[b] = "loop" /\ UNCHANGED <<stream, call>>
      /\ inits' = inits /\ params' = params /\ config' = config
  BY DEF ProcessFirst, Calls, stream
<1>2. \A x, y : Pieces(b)!AtMost(x, y) = AtMost(x, y)
  BY DEF AtMost, Pieces!AtMost
<1>3. inits # 0
  BY <1>1 DEF Calls, Idle
<1>4. CASE segmentZeroSamples[b] = 0
  <2>1. UNCHANGED device /\ cursor'[b] = 0
    BY <1>4 DEF ProcessFirst, Calls, OnBlocks
  <2> QED
    BY <1>1, <1>3, <1>4, <2>1
       DEF Pieces!First, Pieces!launch, Pieces!position, device, Translates
<1>5. CASE segmentZeroSamples[b] # 0
  <2>1. ProcessInternal(b, CallOffset, FirstPiece(b)) /\ cursor'[b] = FirstPiece(b)
    BY <1>5 DEF ProcessFirst, Calls, OnBlocks
  <2>2. Pieces(b)!Take(FirstPiece(b))
    BY <1>1, <2>1, PieceIsTaken
  <2>3. FirstPiece(b) = Pieces(b)!AtMost(Pieces(b)!Remaining,
          Pieces(b)!AtMost(params.grain, Pieces(b)!iteration - segmentZeroSamples[b]))
    BY <1>2, <1>3 DEF FirstPiece, Remaining, Pieces!Remaining, Pieces!iteration
  <2> QED
    BY <1>1, <1>3, <1>5, <2>1, <2>2, <2>3 DEF Pieces!First, Pieces!launch
<1> QED
  BY <1>4, <1>5

LEMMA LoopIsPiece ==
  ASSUME Calls, NEW b \in Blocks, ProcessLoop(b)
  PROVE  Pieces(b)!Loop
<1>1. /\ pc[b] = "loop" /\ pc' = pc /\ UNCHANGED <<stream, call>>
      /\ inits' = inits /\ params' = params /\ config' = config
      /\ cursor[b] < params.grain
  BY DEF ProcessLoop, stream
<1>2. \A x, y : Pieces(b)!AtMost(x, y) = AtMost(x, y)
  BY DEF AtMost, Pieces!AtMost
<1>3. inits # 0
  BY <1>1 DEF Calls, Idle
<1>4. /\ ProcessInternal(b, CallOffset + cursor[b], LoopPiece(b))
      /\ cursor'[b] = cursor[b] + params.input_samples_per_iteration
  BY DEF ProcessLoop, Advance, Calls, OnBlocks
<1>5. Pieces(b)!Take(LoopPiece(b))
  BY <1>1, <1>4, PieceIsTaken
<1>6. LoopPiece(b) = Pieces(b)!AtMost(
        Pieces(b)!AtMost(Pieces(b)!Remaining, params.grain) - cursor[b], Pieces(b)!iteration)
  BY <1>2, <1>3 DEF LoopPiece, Remaining, Pieces!Remaining, Pieces!iteration
<1> QED
  BY <1>1, <1>3, <1>4, <1>5, <1>6 DEF Pieces!Loop, Pieces!launch, Pieces!iteration

LEMMA LaunchIsLaunch ==
  ASSUME Calls, NEW b \in Blocks, NEW c \in Configs, LaunchInit(c) \/ LaunchNext(c)
  PROVE  Pieces(b)!LaunchInit(c) \/ Pieces(b)!LaunchNext(c)
<1>1. /\ pc[b] = "idle" /\ pc'[b] = "begin" /\ call' = 0 /\ config' = c
      /\ UNCHANGED <<cursor, device>>
  BY DEF LaunchInit, LaunchNext, BeginLaunch, Idle
<1>2. CASE LaunchInit(c)
  <2>1. inits' # 0
    <3>1. inits' = inits + 1 /\ inits \in Nat
      BY <1>2 DEF LaunchInit, Calls
    <3> QED
      BY <3>1, SMT
  <2>2. PICK offset \in OffsetsFor(c) :
          params' = [ParametersFor(c) EXCEPT !.filter_length_to_translate_init = c.length,
                                             !.init_buffer_offset = offset]
    BY <1>2 DEF LaunchInit
  <2>3. params'.filter_length_to_translate_init # 0 /\ params'.init_buffer_offset = offset
    BY <2>2, CallsOfLaunch DEF ParametersFor, LaunchParameters
  <2>4. Translates'
    BY <1>1, <2>3 DEF Translates
  <2>5. Pieces(b)!Launch(c)
    BY <1>1, <2>1 DEF Pieces!Launch, device
  <2> QED
    BY <1>1, <2>2, <2>3, <2>4, <2>5, PiecesGeometry DEF Pieces!LaunchInit
<1>3. CASE LaunchNext(c)
  <2>1. /\ inits' # 0 /\ inits # 0 /\ params' = ParametersFor(c)
        /\ c.length = config.length /\ GrainFor(c.capacity) = params.grain
    BY <1>3, SMT DEF LaunchNext, Calls
  <2>2. ~Translates'
    BY <2>1, CallsOfLaunch DEF Translates
  <2>3. Pieces(b)!Launch(c)
    BY <1>1, <2>1 DEF Pieces!Launch, device
  <2>4. call < params.num_calls
    BY DEF Calls
  <2> QED
    BY <1>1, <2>1, <2>2, <2>3, <2>4, PiecesGeometry DEF Pieces!LaunchNext, device
<1> QED
  BY <1>2, <1>3

LEMMA EndIsEnd ==
  ASSUME Calls, NEW b \in Blocks, EndCall
  PROVE  Pieces(b)!EndCall
<1>1. /\ pc[b] = "loop" /\ cursor[b] >= params.grain /\ UNCHANGED <<stream, cursor, device>>
      /\ inits' = inits /\ params' = params /\ config' = config
  BY DEF EndCall, CallDone, stream
<1>2. inits # 0
  BY <1>1 DEF Calls, Idle
<1>3. CASE call + 1 < params.num_calls
  <2>1. call' = call + 1 /\ pc'[b] = "begin"
    BY <1>3 DEF EndCall
  <2>2. ~Translates'
    BY <2>1, SMT DEF Translates, Calls
  <2> QED
    BY <1>1, <1>2, <1>3, <2>1, <2>2 DEF Pieces!EndCall, Pieces!position, device
<1>4. CASE ~(call + 1 < params.num_calls)
  <2>1. call' = call /\ pc'[b] = "idle"
    BY <1>4 DEF EndCall
  <2> QED
    BY <1>1, <1>2, <1>4, <2>1 DEF Pieces!EndCall, Pieces!position, device
<1> QED
  BY <1>3, <1>4

LEMMA StepIsPiece ==
  ASSUME Calls, NEW b \in Blocks, [Next]_vars
  PROVE  UNCHANGED Pieces(b)!vars \/ Pieces(b)!Next
<1>1. ASSUME NEW c \in Configs, LaunchInit(c) \/ LaunchNext(c)
      PROVE  Pieces(b)!Next
  BY <1>1, LaunchIsLaunch DEF Pieces!Next
<1>2. CASE EndCall
  BY <1>2, EndIsEnd DEF Pieces!Next
<1>3. CASE ProcessFirst(b) \/ ProcessLoop(b)
  BY <1>3, FirstIsPiece, LoopIsPiece DEF Pieces!Next
<1>4. CASE InitFilter(b)
  <2>1. /\ pc[b] = "begin" /\ pc'[b] = "first" /\ params' = params /\ inits' = inits
        /\ config' = config /\ call' = call /\ segmentOffset' = segmentOffset
    BY <1>4 DEF InitFilter, Calls, stream, device
  <2>2. segmentZeroSamples'[b] =
          IF Translates THEN params.init_buffer_offset % params.input_samples_per_iteration
                        ELSE segmentZeroSamples[b]
    BY <1>4 DEF InitFilter, Translates, Calls, OnBlocks, device
  <2> QED
    BY <2>1, <2>2 DEF Pieces!vars, Pieces!launch, Pieces!position
<1>5. ASSUME NEW d \in Blocks, d # b, BlockStep(d)
      PROVE  UNCHANGED Pieces(b)!vars
  <2>1. /\ UNCHANGED <<stream, call>> /\ pc'[b] = pc[b] /\ cursor'[b] = cursor[b]
    BY <1>5 DEF BlockStep, InitFilter, ProcessFirst, ProcessLoop, Calls, OnBlocks
  <2>2. segmentOffset'[b] = segmentOffset[b] /\ segmentZeroSamples'[b] = segmentZeroSamples[b]
    <3>1. CASE UNCHANGED device
      BY <3>1 DEF device
    <3>2. ASSUME NEW from, NEW size, ProcessInternal(d, from, size)
          PROVE  segmentOffset'[b] = segmentOffset[b]
                 /\ segmentZeroSamples'[b] = segmentZeroSamples[b]
      BY <1>5, <3>2, PositionOfPiece DEF Calls, OnBlocks
    <3>3. CASE InitFilter(d)
      BY <1>5, <3>3 DEF InitFilter, device, Calls, OnBlocks
    <3> QED
      BY <1>5, <3>1, <3>2, <3>3 DEF BlockStep, ProcessFirst, ProcessLoop
  <2> QED
    BY <2>1, <2>2 DEF Pieces!vars, Pieces!launch, Pieces!position, stream, Translates
<1>6. CASE UNCHANGED vars
  BY <1>6 DEF vars, stream, device, Translates, Pieces!vars, Pieces!launch, Pieces!position
<1> QED
  BY <1>1, <1>2, <1>3, <1>4, <1>5, <1>6 DEF Next, BlockStep

(* Seen from outside, process and init of every channel's block take one   *)
(* piece after the other, whatever the launches and however the blocks     *)
(* interleave (FirProcessor.cuh).                                          *)
THEOREM BlocksImplementPieces == Spec => BlocksTakePieces
<1>1. Init => \A b \in Blocks : Pieces(b)!Init
  BY PiecesBegin
<1>2. Calls /\ [Next]_vars =>
        [\A b \in Blocks : UNCHANGED Pieces(b)!vars \/ Pieces(b)!Next]_vars
  BY StepIsPiece
<1>3. Init => Calls
  BY InitCalls
<1>4. Calls /\ [Next]_vars => Calls'
  BY StepCalls
<1> QED
  BY <1>1, <1>2, <1>3, <1>4, PTL DEF Spec, BlocksTakePieces
=============================================================================
