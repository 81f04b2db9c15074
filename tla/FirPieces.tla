------------------------------ MODULE FirPieces ------------------------------
(***************************************************************************)
(* What a block of the device does with its part of the input, seen from   *)
(* outside: in every call it takes one piece after the other, each in one  *)
(* step, and moves its position by it.                                     *)
(*                                                                         *)
(* FirDevice implements it for every channel, FirBlock for every thread of *)
(* a block: what FirDevice does in one step is what FirBlock's threads do  *)
(* together, and each of them sees the same pieces.                        *)
(***************************************************************************)
EXTENDS FirGeometry

CONSTANTS Configs, Rands

VARIABLES
  config, params, call,  \* the launch
  phase,                 \* idle, first: before the first piece, or loop
  cursor,                \* in the loop: where in the call the next piece begins
  segmentOffset, segmentZeroSamples

launch   == <<config, params, call>>
position == <<segmentOffset, segmentZeroSamples>>
vars     == <<launch, phase, cursor, position>>

ParametersFor(c) == LaunchParameters(c.length, c.capacity, c.size)

iteration == params.input_samples_per_iteration

Init ==
  /\ config \in Configs
  /\ params = ParametersFor(config)
  /\ call = params.num_calls   \* nothing launched so far
  /\ phase = "idle" /\ cursor = 0
  /\ segmentOffset = 0 /\ segmentZeroSamples = 0

-----------------------------------------------------------------------------
Launch(c) ==
  /\ phase = "idle"
  /\ phase' = "first"
  /\ config' = c /\ call' = 0
  /\ UNCHANGED <<cursor, segmentOffset>>

(* A new filter puts the block at the start of its stream. *)
LaunchInit(c) ==
  /\ Launch(c)
  /\ \E offset \in InitOffsets(c.length, GrainFor(c.capacity), Rands) :
       /\ params' = [ParametersFor(c) EXCEPT
                       !.filter_length_to_translate_init = c.length,
                       !.init_buffer_offset = offset]
       /\ segmentZeroSamples' = offset % params'.input_samples_per_iteration

LaunchNext(c) ==
  /\ Launch(c)
  /\ call < params.num_calls   \* the first launch translates the filter
  /\ c.length = config.length /\ GrainFor(c.capacity) = params.grain
  /\ params' = ParametersFor(c)
  /\ UNCHANGED segmentZeroSamples

-----------------------------------------------------------------------------
Remaining == params.input_length - call * params.grain

Take(size) ==
  /\ segmentZeroSamples' = Remainder(segmentZeroSamples + size, iteration)
  /\ segmentOffset' =
       IF segmentZeroSamples + size = iteration
       THEN (segmentOffset - 1 + params.segments_count) % params.segments_count
       ELSE segmentOffset

(* The piece that fills up the iteration the last call left open.          *)
First ==
  /\ phase = "first"
  /\ phase' = "loop"
  /\ IF segmentZeroSamples # 0
     THEN LET size == AtMost(Remaining, AtMost(params.grain,
                                               iteration - segmentZeroSamples))
          IN  Take(size) /\ cursor' = size
     ELSE cursor' = 0 /\ UNCHANGED position
  /\ UNCHANGED launch

Loop ==
  /\ phase = "loop"
  /\ cursor < params.grain
  /\ Take(AtMost(AtMost(Remaining, params.grain) - cursor, iteration))
  /\ cursor' = cursor + iteration
  /\ UNCHANGED <<launch, phase>>

EndCall ==
  /\ phase = "loop"
  /\ cursor >= params.grain
  /\ IF call + 1 < params.num_calls
     THEN call' = call + 1 /\ phase' = "first"
     ELSE call' = call /\ phase' = "idle"
  /\ cursor' = 0
  /\ UNCHANGED <<config, params, position>>

Next ==
  \/ \E c \in Configs : LaunchInit(c) \/ LaunchNext(c)
  \/ First \/ Loop \/ EndCall

Spec == Init /\ [][Next]_vars
=============================================================================
