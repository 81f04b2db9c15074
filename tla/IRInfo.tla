-------------------------------- MODULE IRInfo --------------------------------
(***************************************************************************)
(* Which impulse response a StaticIRShare stands for.  The three uint32    *)
(* fields are its key in the cache of GPU copies.  A uint32 is written     *)
(* here as the int with the same 32 bits: the code compares the field with *)
(* the int argument of LoadImpulseResponse, and its "no file" value        *)
(* 0xFFFFFFFF is -1.                                                       *)
(*                                                                         *)
(* StoreLength[i] and StoreChannels[i] are the samples of channel 0 and    *)
(* the channels of file i of the ImpulseResponseStore.                     *)
(***************************************************************************)
EXTENDS Integers

CONSTANTS StoreLength, StoreChannels

ASSUME StoreAssumption ==
  /\ DOMAIN StoreLength \subseteq Nat
  /\ StoreLength   \in [DOMAIN StoreLength -> Nat \ {0}]
  /\ StoreChannels \in [DOMAIN StoreLength -> Nat \ {0}]

NoIndex == -1

Key == [filterLoadIndex : Int, filterLength : Int, singleLocation : Int]

Info(index, length, location) ==
  [filterLoadIndex |-> index, filterLength |-> length, singleLocation |-> location]

Unloaded == Info(NoIndex, -1, -1)

(* LoadImpulseResponse(index): a negative index asks for a generated       *)
(* impulse.  GenerateIR's own early return finds the key just unloaded and *)
(* so never applies; a request for the index already held changes nothing. *)
Requested(index) ==
  IF index < 0
  THEN Info(NoIndex, -index, (-index) \div 2)
  ELSE Info(index, StoreLength[index], -1)

AfterLoad(info, index) ==
  IF info.filterLoadIndex = index THEN info ELSE Requested(index)

ChannelsOf(info) ==
  IF info.filterLoadIndex = NoIndex THEN 1 ELSE StoreChannels[info.filterLoadIndex]

(* The samples themselves, by name: a unit impulse or a file of the store. *)
ImpulseResponse(info) ==
  IF info.filterLoadIndex = NoIndex
  THEN <<info.filterLength, info.singleLocation>>
  ELSE <<info.filterLoadIndex>>
=============================================================================
