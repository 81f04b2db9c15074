----------------------------- MODULE MCFirDevice -----------------------------
(* Filters and buffers for the device: transforms are 8 or 24 points long, *)
(* and filters have one to three segments.                                 *)
EXTENDS FirDevice

Config(length, capacity, size) ==
  [length |-> length, capacity |-> capacity, size |-> size]

(* FftLength = 12.  Grains that leave iterations open, in one and in       *)
(* several segments; two calls in a chunk; chunks that end in the midst of *)
(* their only or of their last call; and grains shorter than a quarter of  *)
(* FftLength, whose iterations begin at a random place.                    *)
StreamConfigs == {Config(18, 8, 8), Config(30, 24, 24), Config(30, 12, 12),
                  Config(10, 12, 12), Config(10, 12, 8), Config(10, 24, 18),
                  Config(18, 2, 2), Config(10, 2, 2)}

(* FftLength = 4, two channels.  Filters of equally many segments that     *)
(* follow each other, with overlaps of different length.                   *)
ReinitConfigs == {Config(6, 4, 4), Config(8, 2, 2)}

(* FftLength = 4.  A shorter filter after a longer one. *)
ShrinkingConfigs == {Config(12, 4, 4), Config(8, 4, 4)}

(* FftLength = 4.  A buffer of one and a half grains. *)
ShortTailConfigs == {Config(8, 6, 6)}

(* FftLength = 4.  A buffer of two grains with half a grain in it: the     *)
(* second call begins after the last sample.                               *)
ShortChunkConfigs == {Config(2, 8, 2)}

(* FftLength = 4.  A short filter with an odd number of taps. *)
OddConfigs == {Config(3, 4, 4)}
=============================================================================
