---------------------------- MODULE FirModuleLibrary ----------------------------
(***************************************************************************)
(* The exported functions of the library, in the order the engine needs    *)
(* them: it lists the platforms, gets the device code of one through a     *)
(* stream it reads piece by piece, and creates the module.  Every creation *)
(* may throw inside; what was created is deleted.                          *)
(*                                                                         *)
(* The stream is an istream over the embedded file: a read that asks for   *)
(* more than is left delivers the rest and leaves the stream not good; one *)
(* that asks for exactly the rest leaves it good.                          *)
(***************************************************************************)
EXTENDS Integers, Sequences

CONSTANTS
  Archs,      \* the platforms of the build: CUDA_ARCHS, HIP_ARCHS or arm64
  Code,       \* the embedded files: the device code of some platforms
  Requests,   \* numbers of bytes the engine asks for
  NoStream

ASSUME LibraryAssumption ==
  /\ Archs \in Seq(STRING)
  /\ \A p \in DOMAIN Code : Code[p] \in Seq(Nat)
  /\ Requests \subseteq Nat \ {0}
  /\ NoStream \notin [position : Nat, good : BOOLEAN]

VARIABLES
  pc,         \* where the engine is
  live,       \* the objects of the library that exist
  listed,     \* platforms the engine has been told of
  platform,   \* m_platform of the device code provider
  stream,     \* m_stream of it: position and good()
  received    \* bytes the engine has read

vars == <<pc, live, listed, platform, stream, received>>

-----------------------------------------------------------------------------
(* Creation and deletion of a module, info provider or code provider.      *)

Create(object, next) ==
  \/ live' = live \cup {object} /\ pc' = next
  \/ live' = live /\ pc' = "failed"

Delete(object, next) ==
  /\ object \in live
  /\ live' = live \ {object}
  /\ pc' = next

CreateModuleInfoProvider ==
  /\ pc = "start"
  /\ Create("info", "listing")
  /\ listed' = <<>>
  /\ UNCHANGED <<platform, stream, received>>

(* GetSupportPlatformInfo(index) for index 0, 1, ... until eOutOfRange.    *)
GetSupportPlatformInfo ==
  /\ pc = "listing"
  /\ IF Len(listed) < Len(Archs)
     THEN listed' = Append(listed, Archs[Len(listed) + 1]) /\ UNCHANGED pc
     ELSE pc' = "listed" /\ UNCHANGED listed
  /\ UNCHANGED <<live, platform, stream, received>>

DeleteModuleInfoProvider ==
  /\ pc = "listed"
  /\ Delete("info", "chosen")
  /\ UNCHANGED <<listed, platform, stream, received>>

CreateDeviceCodeProvider ==
  /\ pc = "chosen"
  /\ Create("code", "opening")
  /\ \E i \in DOMAIN listed : platform' = listed[i]
  /\ UNCHANGED <<listed, stream, received>>

(* A new stream each time, also when the engine wants the code again.      *)
GetDeviceCode ==
  /\ pc \in {"opening", "read"}
  /\ IF platform \in DOMAIN Code
     THEN stream' = [position |-> 0, good |-> TRUE] /\ pc' = "reading"
     ELSE UNCHANGED stream /\ pc' = "failed"
  /\ received' = <<>>
  /\ UNCHANGED <<live, listed, platform>>

(* StreamAdapter::Read.  Mutants: the test of good() is missing, or a read *)
(* that comes to the end reports no bytes.                                 *)
GoodAlways      == TRUE
Good            == stream.good
DroppedAtEnd(n) == IF n <= Len(Code[platform]) - stream.position THEN n ELSE 0
Delivered(n)    == LET left == Len(Code[platform]) - stream.position
                   IN  IF n <= left THEN n ELSE left

Read(n) ==
  /\ pc = "reading"
  /\ IF Good
     THEN LET from == stream.position
              to   == from + Delivered(n)
          IN  /\ received' = received \o SubSeq(Code[platform], from + 1, to)
              /\ stream' = [position |-> to, good |-> n <= Len(Code[platform]) - from]
              /\ UNCHANGED pc
     ELSE pc' = "read" /\ UNCHANGED <<stream, received>>
  /\ UNCHANGED <<live, listed, platform>>

DeleteDeviceCodeProvider ==
  /\ pc = "read"
  /\ Delete("code", "ready")
  /\ stream' = NoStream
  /\ UNCHANGED <<listed, platform, received>>

CreateModule ==
  /\ pc = "ready"
  /\ Create("module", "running")
  /\ UNCHANGED <<listed, platform, stream, received>>

DeleteModule ==
  /\ pc = "running"
  /\ Delete("module", "start")
  /\ UNCHANGED <<listed, platform, stream, received>>

(* The engine deletes what it has, the null pointer it got included (which *)
(* is refused and changes nothing), and may begin again.                   *)
GiveUp ==
  /\ pc = "failed"
  /\ pc' = "start" /\ live' = {} /\ stream' = NoStream
  /\ UNCHANGED <<listed, platform, received>>

-----------------------------------------------------------------------------
Init ==
  /\ pc = "start" /\ live = {} /\ listed = <<>> /\ platform = ""
  /\ stream = NoStream /\ received = <<>>

Next ==
  \/ CreateModuleInfoProvider \/ GetSupportPlatformInfo \/ DeleteModuleInfoProvider
  \/ CreateDeviceCodeProvider \/ GetDeviceCode
  \/ \E n \in Requests : Read(n)
  \/ DeleteDeviceCodeProvider \/ CreateModule \/ DeleteModule \/ GiveUp

Spec == Init /\ [][Next]_vars

(* The engine reads until the stream has told it to stop.                  *)
FairSpec == Spec /\ WF_vars(\E n \in Requests : Read(n))

-----------------------------------------------------------------------------
(* Properties                                                              *)

(* A module is created with all of its device code, for one of the         *)
(* platforms listed, whatever pieces the engine read it in: eOutOfRange    *)
(* comes after the last byte and not before.                               *)
CodeComplete ==
  pc \in {"read", "ready", "running"} =>
    platform \in DOMAIN Code /\ received = Code[platform]

(* Reading comes to an end, also if the last piece ends with the file.     *)
ReadingEnds == pc = "reading" ~> pc # "reading"
=============================================================================
