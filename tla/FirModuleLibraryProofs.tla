------------------------- MODULE FirModuleLibraryProofs -------------------------
(***************************************************************************)
(* For any files and any sizes of requests: the engine gets all of the     *)
(* device code, in order, before it is told that there is no more.         *)
(***************************************************************************)
EXTENDS FirModuleLibrary, SequenceTheorems, TLAPS

Streams == [position : Nat, good : BOOLEAN]

(* While the engine reads, it has the bytes before the position, and a     *)
(* stream that is not good is at its end.                                  *)
Reading ==
  pc = "reading" =>
    /\ platform \in DOMAIN Code
    /\ stream \in Streams /\ stream.position <= Len(Code[platform])
    /\ received = SubSeq(Code[platform], 1, stream.position)
    /\ ~stream.good => stream.position = Len(Code[platform])

LibraryInv == Reading /\ CodeComplete

-----------------------------------------------------------------------------
(* A read keeps the bytes in order and stops at the last one.              *)
LEMMA ReadStep ==
  ASSUME LibraryInv, NEW n \in Requests, Read(n)
  PROVE  LibraryInv'
  <1> DEFINE code == Code[platform]
             from == stream.position
             to   == from + Delivered(n)
  <1>1. /\ pc = "reading" /\ platform \in DOMAIN Code /\ code \in Seq(Nat)
        /\ stream \in Streams /\ from \in 0 .. Len(code)
        /\ received = SubSeq(code, 1, from)
        /\ ~stream.good => from = Len(code)
        /\ platform' = platform /\ n \in Nat \ {0} /\ Len(code) \in Nat
    BY LibraryAssumption DEF LibraryInv, Reading, Read, Streams
  <1>2. CASE ~stream.good
    <2>1. pc' = "read" /\ received' = received
      BY <1>2 DEF Read, Good
    <2>2. received = code
      BY <1>1, <1>2, SubSeqFull
    <2> QED
      BY <1>1, <2>1, <2>2 DEF LibraryInv, Reading, CodeComplete
  <1>3. CASE stream.good
    <2>1. /\ received' = received \o SubSeq(code, from + 1, to)
          /\ stream' = [position |-> to, good |-> n <= Len(code) - from]
          /\ pc' = pc
      BY <1>3 DEF Read, Good
    <2>2. to \in from .. Len(code) /\ (~(n <= Len(code) - from) => to = Len(code))
      BY <1>1 DEF Delivered
    <2>3. received' = SubSeq(code, 1, to)
      <3>1. from \in 0 .. Len(code) /\ to \in from .. Len(code) /\ from \in Int /\ to \in Int
        BY <1>1, <2>2
      <3>2. SubSeq(code, 1, from) \o SubSeq(code, from + 1, to) = SubSeq(code, 1, to)
        <4> HIDE DEF code, from, to
        <4>1. 1 \in 1 .. Len(code) + 1 /\ from \in 1 - 1 .. Len(code) /\ Len(code) \in Nat
          BY <1>1, <3>1
        <4> QED
          BY <1>1, <3>1, <4>1, ConcatAdjacentSubSeq
      <3> QED
        BY <1>1, <2>1, <3>2
    <2>4. /\ stream' \in Streams /\ stream'.position = to /\ to <= Len(code)
          /\ ~stream'.good => to = Len(code)
      BY <1>1, <2>1, <2>2 DEF Streams
    <2> QED
      BY <1>1, <2>1, <2>3, <2>4 DEF LibraryInv, Reading, CodeComplete, Streams
  <1> QED
    BY <1>2, <1>3

(* Opening the stream starts at the first byte, with nothing received.     *)
LEMMA OpenStep ==
  ASSUME LibraryInv, GetDeviceCode
  PROVE  LibraryInv'
  <1>1. CASE platform \in DOMAIN Code
    <2>1. /\ pc' = "reading" /\ stream' = [position |-> 0, good |-> TRUE]
          /\ platform' = platform /\ received' = <<>>
      BY <1>1 DEF GetDeviceCode
    <2>2. Code[platform] \in Seq(Nat)
      BY <1>1, LibraryAssumption
    <2>3. received' = SubSeq(Code[platform], 1, 0) /\ 0 <= Len(Code[platform])
      BY <2>1, <2>2, SubSeqEmpty
    <2> QED
      BY <1>1, <2>1, <2>3 DEF LibraryInv, Reading, CodeComplete, Streams
  <1>2. CASE platform \notin DOMAIN Code
    BY <1>2 DEF GetDeviceCode, LibraryInv, Reading, CodeComplete
  <1> QED
    BY <1>1, <1>2

(* LibraryInv holds in every state. *)
THEOREM LibraryInvariance == Spec => []LibraryInv
  <1>1. Init => LibraryInv
    BY DEF Init, LibraryInv, Reading, CodeComplete
  <1>2. LibraryInv /\ [Next]_vars => LibraryInv'
    <2> SUFFICES ASSUME LibraryInv, [Next]_vars PROVE LibraryInv'
      OBVIOUS
    <2> USE DEF LibraryInv, Reading, CodeComplete, Create, Delete
    <2>1. CASE CreateModuleInfoProvider BY <2>1 DEF CreateModuleInfoProvider
    <2>2. CASE GetSupportPlatformInfo BY <2>2 DEF GetSupportPlatformInfo
    <2>3. CASE DeleteModuleInfoProvider BY <2>3 DEF DeleteModuleInfoProvider
    <2>4. CASE CreateDeviceCodeProvider BY <2>4 DEF CreateDeviceCodeProvider
    <2>5. CASE GetDeviceCode BY <2>5, OpenStep
    <2>6. CASE \E n \in Requests : Read(n) BY <2>6, ReadStep
    <2>7. CASE DeleteDeviceCodeProvider BY <2>7 DEF DeleteDeviceCodeProvider
    <2>8. CASE CreateModule BY <2>8 DEF CreateModule
    <2>9. CASE DeleteModule BY <2>9 DEF DeleteModule
    <2>10. CASE GiveUp BY <2>10 DEF GiveUp
    <2>11. CASE UNCHANGED vars BY <2>11 DEF vars
    <2> QED
      BY <2>1, <2>2, <2>3, <2>4, <2>5, <2>6, <2>7, <2>8, <2>9, <2>10, <2>11 DEF Next
  <1> QED
    BY <1>1, <1>2, PTL DEF Spec

(* A module runs with all of its device code, in whatever pieces the       *)
(* engine read it (StreamAdapter::Read, GetDeviceCode).                    *)
THEOREM CodeIsComplete == Spec => []CodeComplete
  <1>1. LibraryInv => CodeComplete
    BY DEF LibraryInv
  <1> QED
    BY <1>1, LibraryInvariance, PTL
=============================================================================
