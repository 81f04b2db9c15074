---------------------- MODULE ImpulseResponseStoreProofs ----------------------
(***************************************************************************)
(* For any number of callers, files and unreadable files: a reader of the  *)
(* store gets the finished response of its slot, and nobody writes what it *)
(* reads.                                                                  *)
(***************************************************************************)
EXTENDS ImpulseResponseStore, TLAPS

(* What a slot holds when its worker is done with it.                      *)
Finished(i) ==
  \/ irs[i] \in {Audio(File(i), 1), TestResponse(creator)}
  \/ irs[i] = NoAudio /\ i \in Unreadable

(* A slot is loaded raw, then finished.                                    *)
SlotInv ==
  \A i \in Indices :
    /\ ~compensated[i] => files[i] = IF loaded[i] THEN Audio(File(i), 0) ELSE NoAudio
    /\ compensated[i] => Finished(i)

(* Nobody reads before the constructor ends, and it ends after the workers. *)
PhaseInv ==
  /\ instance = "none" => Indices = {}
  /\ instance = "ready" <=> preloaded
  /\ preloaded => \A i \in Indices : compensated[i]
  /\ seen # {} => preloaded

(* What was read is what the slots hold.                                   *)
SeenInv == \A s \in seen : s[2] \in Indices /\ s[3] = irs[s[2]]

Shape ==
  /\ TypeOK
  /\ files = [i \in Indices |-> files[i]]
  /\ irs = [i \in Indices |-> irs[i]]

IInv == Shape /\ SlotInv /\ PhaseInv /\ SeenInv

-----------------------------------------------------------------------------
(* The slots are within the maximal number.                                *)
LEMMA SlotsBounded ==
  ASSUME NEW count \in Nat
  PROVE  (IF count = 0 THEN {0} ELSE 0 .. SlotCount(count) - 1) \subseteq 0 .. MaxIRCount - 1
  BY StoreSizeAssumption, SMT DEF SlotCount

(* What a caller's constructor makes satisfies the invariant.              *)
LEMMA ConstructStep ==
  ASSUME IInv, NEW c \in Callers, Construct(c)
  PROVE  IInv' /\ ~preloaded
  <1> USE DEF IInv, Shape, TypeOK, Indices
  <1>1. PICK count \in FileCounts : InitializeSlots(c, count)
    BY DEF Construct
  <1> DEFINE S == IF count = 0 THEN {0} ELSE 0 .. SlotCount(count) - 1
             audio == IF count = 0 THEN TestResponse(c) ELSE NoAudio
  <1>2. S \subseteq 0 .. MaxIRCount - 1
    BY SlotsBounded, StoreSizeAssumption
  <1>3. /\ files' = [i \in S |-> audio] /\ irs' = [i \in S |-> audio]
        /\ loaded' = [i \in S |-> count = 0] /\ compensated' = [i \in S |-> count = 0]
    BY <1>1, Zenon DEF InitializeSlots
  <1>4. /\ instance' = "constructing" /\ creator' = c /\ calling' = calling
        /\ ~preloaded /\ preloaded' = preloaded /\ seen' = seen /\ seen = {}
    BY DEF Construct, PhaseInv
  <1> HIDE DEF S
  <1>5. Shape'
    BY <1>2, <1>3, <1>4
  <1>6. SlotInv'
    BY <1>3, <1>4 DEF SlotInv, Finished
  <1>7. PhaseInv' /\ SeenInv'
    BY <1>4 DEF PhaseInv, SeenInv
  <1> QED
    BY <1>4, <1>5, <1>6, <1>7

(* Callers that come, or go without the store, leave it alone.             *)
LEMMA CallerStep ==
  ASSUME IInv, NEW c \in Callers, EnterGetInstance(c) \/ ConstructorThrows(c)
  PROVE  IInv' /\ UNCHANGED <<slots, preloaded>>
  <1>1. calling' \subseteq Callers /\ UNCHANGED <<instance, creator, slots, preloaded, seen>>
    BY DEF EnterGetInstance, ConstructorThrows, IInv, Shape, TypeOK
  <1> QED
    BY <1>1 DEF slots, IInv, Shape, TypeOK, Indices, SlotInv, Finished, PhaseInv, SeenInv

(* A worker writes only its own slot, and only before anybody reads.       *)
LEMMA WorkerStep ==
  ASSUME IInv, NEW i \in Indices, LoadFile(i) \/ CompensateSlot(i)
  PROVE  IInv' /\ ~preloaded
  <1> USE DEF IInv, Shape, TypeOK, Indices
  <1>1. CASE LoadFile(i)
    <2>1. Shape'
      BY <1>1 DEF LoadFile
    <2>2. SlotInv'
      BY <1>1 DEF LoadFile, SlotInv, Finished
    <2>3. PhaseInv' /\ SeenInv' /\ ~preloaded
      BY <1>1 DEF LoadFile, PhaseInv, SeenInv
    <2> QED
      BY <2>1, <2>2, <2>3
  <1>2. CASE CompensateSlot(i)
    <2>1. irs' = [irs EXCEPT ![i] = CompensateIrGain(files[i])]
          /\ compensated' = [compensated EXCEPT ![i] = TRUE]
          /\ ~compensated[i] /\ UNCHANGED <<instance, creator, files, loaded, preloaded, calling, seen>>
      BY <1>2 DEF CompensateSlot, Marked
    <2>2. ~preloaded
      BY <2>1 DEF PhaseInv
    <2>3. Shape'
      BY <2>1
    <2>4. CompensateIrGain(files[i]) \in {Audio(File(i), 1), NoAudio}
          /\ (i \notin Unreadable => CompensateIrGain(files[i]) = Audio(File(i), 1))
      <3>1. CASE loaded[i]
        <4>1. files[i] = Audio(File(i), 0) /\ files[i] # NoAudio
          BY <2>1, <3>1, NoAudioAssumption DEF SlotInv
        <4> QED
          BY <4>1 DEF CompensateIrGain, Audio
      <3>2. CASE ~loaded[i]
        BY <1>2, <2>1, <3>2 DEF SlotInv, CompensateIrGain, CompensateSlot
      <3> QED
        BY <3>1, <3>2
    <2>5. SlotInv'
      BY <2>1, <2>4 DEF SlotInv, Finished
    <2>6. PhaseInv' /\ SeenInv'
      BY <2>1, <2>2 DEF PhaseInv, SeenInv
    <2> QED
      BY <2>2, <2>3, <2>5, <2>6
  <1> QED
    BY <1>1, <1>2

(* A reader gets the response its slot holds.                              *)
LEMMA ReadStep ==
  ASSUME IInv, NEW c \in Callers, NEW i \in Indices,
         ReadAfterGetInstance(c, i) \/ ReadAgain(c, i)
  PROVE  IInv'
  <1>1. /\ UNCHANGED <<instance, creator, slots, preloaded>>
        /\ seen' = seen \cup {<<c, i, irs[i]>>} /\ calling' \subseteq calling
        /\ preloaded
    BY DEF ReadAfterGetInstance, ReadAgain, IInv, PhaseInv
  <1> QED
    BY <1>1 DEF slots, IInv, Shape, TypeOK, Indices, SlotInv, Finished, PhaseInv, SeenInv

(* The invariant is inductive.                                             *)
LEMMA IInvStep == IInv /\ [Next]_vars => IInv'
  <1> SUFFICES ASSUME IInv, [Next]_vars PROVE IInv'
    OBVIOUS
  <1>1. CASE FinishPreload
    BY <1>1 DEF FinishPreload, AllDone, slots, IInv, Shape, TypeOK, Indices, SlotInv,
                Finished, PhaseInv, SeenInv
  <1>2. CASE UNCHANGED vars
    BY <1>2 DEF vars, slots, IInv, Shape, TypeOK, Indices, SlotInv, Finished, PhaseInv, SeenInv
  <1> QED
    BY <1>1, <1>2, ConstructStep, CallerStep, WorkerStep, ReadStep DEF Next

(* Every reachable state satisfies the inductive invariant.                *)
THEOREM StoreInvariance == Spec => []IInv
  <1>1. Init => IInv
    BY DEF Init, IInv, Shape, TypeOK, Indices, SlotInv, PhaseInv, SeenInv
  <1> QED
    BY <1>1, IInvStep, PTL DEF Spec

(* The vectors of the store go together, within MAX_IR_COUNT.              *)
THEOREM StoreTypeCorrect == Spec => []TypeOK
  <1>1. IInv => TypeOK
    BY DEF IInv, Shape
  <1> QED
    BY <1>1, StoreInvariance, PTL

(* A reader never gets a response that is raw, or compensated twice, or    *)
(* another slot's, or another than a second reader.                        *)
THEOREM FinishedResponsesRead == Spec => []ReadersSeeCompensated
  <1>1. IInv => ReadersSeeCompensated
    BY DEF IInv, SlotInv, PhaseInv, SeenInv, Finished, ReadersSeeCompensated
  <1> QED
    BY <1>1, StoreInvariance, PTL

(* Once readers may hold references into the slots, nobody writes them.    *)
THEOREM NobodyWritesWhatIsRead == Spec => ReadersUndisturbed
  <1>1. IInv /\ [Next]_vars => [instance = "ready" => UNCHANGED <<slots, preloaded>>]_vars
    <2> SUFFICES ASSUME IInv, Next, instance = "ready"
                 PROVE  UNCHANGED <<slots, preloaded>>
      BY DEF vars, slots
    <2>1. preloaded
      BY DEF IInv, PhaseInv
    <2>2. ASSUME NEW c \in Callers, NEW i \in Indices,
                 ReadAfterGetInstance(c, i) \/ ReadAgain(c, i)
          PROVE  UNCHANGED <<slots, preloaded>>
      BY <2>2 DEF ReadAfterGetInstance, ReadAgain
    <2>3. ~FinishPreload
      BY DEF FinishPreload
    <2> QED
      BY <2>1, <2>2, <2>3, ConstructStep, CallerStep, WorkerStep DEF Next
  <1> QED
    BY <1>1, StoreInvariance, PTL DEF Spec, ReadersUndisturbed
=============================================================================
