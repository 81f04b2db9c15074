--------------------------- MODULE MCStaticIRShare ---------------------------
(* Two processors choose among a stereo file and generated impulses whose  *)
(* keys differ in one field only; -1 is the choice that equals the "no     *)
(* file" index.                                                            *)
EXTENDS StaticIRShare, TLC

MCStoreLength   == 0 :> 3 @@ 1 :> 9
MCStoreChannels == 0 :> 1 @@ 1 :> 2

KeysCtorInfos == {<<4, 0>>, <<64, 2>>}
KeysChoices   == {-4, -1, 1}

Interchangeable == Permutations(Shares) \cup Permutations(Blocks)
=============================================================================
