------------------------------ MODULE MCFirSystem ------------------------------
(* Three processors that choose between two responses, each with room for  *)
(* two chunks: a chunk can wait behind one that translates, while the      *)
(* other processors share, leave and free the same response.               *)
EXTENDS FirSystem, TLC

MCStoreLength   == 0 :> 3 @@ 1 :> 9
MCStoreChannels == 0 :> 1 @@ 1 :> 2
MCCtorInfos     == {<<4, 2>>}
MCChoices       == {-4, 1}

Interchangeable == Permutations(Shares) \cup Permutations(Blocks)
=============================================================================
