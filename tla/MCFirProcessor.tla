---------------------------- MODULE MCFirProcessor ----------------------------
(* Two files, of one segment and of three, the second of two channels; and *)
(* generated responses, one as long as the second file and the one that -1 *)
(* stands for.                                                             *)
EXTENDS FirProcessor

MCStoreLength   == [i \in 0 .. 1 |-> IF i = 0 THEN 6 ELSE 20]
MCStoreChannels == [i \in 0 .. 1 |-> IF i = 0 THEN 1 ELSE 2]
MCCtorInfo      == <<10, 5>>
MCChoices       == {-20, -1, 0, 1}
DefaultChoice   == {0}
OtherChoices    == {0, 1}

Port(regular32, channels, capacity, size) ==
  [regular32 |-> regular32, channels |-> channels, capacity |-> capacity, size |-> size]

(* Buffers of less than a quarter of a transform, one with a grain in      *)
(* between, of one and of two calls; and two that the processor rejects.   *)
MCPorts == {Port(TRUE, 1, 1, 1), Port(TRUE, 2, 6, 6), Port(TRUE, 2, 8, 8),
            Port(TRUE, 1, 16, 16), Port(TRUE, 1, 16, 9),
            Port(FALSE, 1, 16, 16), Port(TRUE, 3, 8, 8)}
=============================================================================
