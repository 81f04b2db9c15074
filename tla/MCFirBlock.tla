------------------------------ MODULE MCFirBlock ------------------------------
(* Buffers and filters for four threads, FftLength = 16: iterations of one *)
(* and of several pieces, filters of one to three segments, calls that     *)
(* cross an iteration, pieces of odd length.                               *)
EXTENDS FirBlock

Config(length, capacity, size) ==
  [length |-> length, capacity |-> capacity, size |-> size]

BlockConfigs == {Config(24, 12, 12), Config(14, 9, 9), Config(40, 32, 32),
                 Config(18, 16, 12), Config(12, 10, 10)}
=============================================================================
