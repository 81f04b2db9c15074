------------------------ MODULE MCImpulseResponseStore ------------------------
(* No file, some files, as many as there are slots, and more.              *)
EXTENDS ImpulseResponseStore

MCFileCounts == {0, 2, 3, 5}
=============================================================================
