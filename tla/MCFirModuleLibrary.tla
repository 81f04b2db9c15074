-------------------------- MODULE MCFirModuleLibrary --------------------------
(* Three platforms, one of them with an empty file, one without a file; a  *)
(* file is the sequence of its positions.                                  *)
EXTENDS FirModuleLibrary, TLC

MCArchs == <<"sm_70", "sm_80", "sm_90">>
MCCode  == "sm_70" :> [i \in 1 .. 40 |-> i] @@ "sm_90" :> <<>>
=============================================================================
