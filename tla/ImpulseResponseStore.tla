------------------------- MODULE ImpulseResponseStore -------------------------
(***************************************************************************)
(* The store of impulse responses: one instance, made by the first caller  *)
(* of GetInstance while the others wait for it; if its constructor throws, *)
(* the next of them tries.  It makes a slot for each file it finds and     *)
(* preloads all of them in parallel; once it is made, StaticIRShare        *)
(* objects on any thread read it without a lock.                           *)
(*                                                                         *)
(* A worker handles one slot in GetGainCompensatedIr, first loading the    *)
(* file, then compensating its gain.  Audio is a file and the number of    *)
(* times its gain was compensated; NoAudio has one channel of no samples.  *)
(* This is the release build: a debug build ends at a file it cannot load. *)
(***************************************************************************)
EXTENDS Naturals

CONSTANTS
  Callers,      \* threads that construct processors and load responses
  FileCounts,   \* how many .wav files there may be
  MaxIRCount,   \* MAX_IR_COUNT
  Unreadable,   \* slots whose .wav file AudioFile cannot load
  NoAudio       \* an AudioFile that was never loaded

ASSUME StoreSizeAssumption ==
  /\ FileCounts \subseteq Nat
  /\ MaxIRCount \in Nat \ {0}

VARIABLES
  instance,   \* "none", "constructing" or "ready"
  creator,    \* the caller whose arguments the constructor got
  files,      \* m_loaded_audio_files
  irs,        \* m_gain_compensated_irs
  loaded,     \* m_per_file_data[i].first
  compensated,\* m_per_file_data[i].second
  preloaded,  \* m_preloaded
  calling,    \* callers inside GetInstance
  seen        \* what callers have got from the store: <<caller, index, audio>>

slots == <<files, irs, loaded, compensated>>
vars  == <<instance, creator, slots, preloaded, calling, seen>>

Audio(file, times) == [file |-> file, compensations |-> times]

TestResponse(caller) == Audio(<<"test", caller>>, 0)
File(i) == <<"file", i>>

ASSUME NoAudioAssumption ==
  \A i \in 0 .. MaxIRCount - 1 : NoAudio # Audio(File(i), 0)

Indices == DOMAIN files

-----------------------------------------------------------------------------
(* The slots the constructor makes for count files; with no file there is  *)
(* one slot, the generated response of the caller, ready for use.          *)

UncappedCount(count) == count   \* mutant
SlotCount(count) == IF count < MaxIRCount THEN count ELSE MaxIRCount

InitializeSlots(caller, count) ==
  LET S == IF count = 0 THEN {0} ELSE 0 .. SlotCount(count) - 1
      audio == IF count = 0 THEN TestResponse(caller) ELSE NoAudio
  IN  /\ files' = [i \in S |-> audio]
      /\ irs' = [i \in S |-> audio]
      /\ loaded' = [i \in S |-> count = 0]
      /\ compensated' = [i \in S |-> count = 0]

Init ==
  /\ instance = "none"
  /\ creator \in Callers
  /\ files = [i \in {} |-> NoAudio] /\ irs = files
  /\ loaded = [i \in {} |-> FALSE] /\ compensated = loaded
  /\ preloaded = FALSE
  /\ calling = {} /\ seen = {}

EnterGetInstance(c) ==
  /\ c \notin calling
  /\ ~ \E s \in seen : s[1] = c
  /\ calling' = calling \cup {c}
  /\ UNCHANGED <<instance, creator, slots, preloaded, seen>>

(* GetInstance: one caller, with its arguments, begins the constructor ... *)
Construct(c) ==
  /\ c \in calling /\ instance = "none"
  /\ instance' = "constructing"
  /\ creator' = c
  /\ \E count \in FileCounts : InitializeSlots(c, count)
  /\ UNCHANGED <<preloaded, calling, seen>>

(* ... or fails in it: searching the directories throws before there is a  *)
(* slot.  The static stays uninitialised, and only this caller is told.    *)
ConstructorThrows(c) ==
  /\ c \in calling /\ instance = "none"
  /\ calling' = calling \ {c}
  /\ UNCHANGED <<instance, creator, slots, preloaded, seen>>

(* GetGainCompensatedIr in a worker of PreloadAudioFiles. *)
LoadFile(i) ==
  /\ ~preloaded /\ ~compensated[i] /\ ~loaded[i]
  /\ i \notin Unreadable
  /\ files' = [files EXCEPT ![i] = Audio(File(i), 0)]
  /\ loaded' = [loaded EXCEPT ![i] = TRUE]
  /\ UNCHANGED <<instance, creator, irs, compensated, preloaded, calling, seen>>

(* The gain is compensated in a copy: the file's own audio stays raw.      *)
CompensateIrGain(audio) ==
  IF audio = NoAudio THEN NoAudio ELSE Audio(audio.file, audio.compensations + 1)

MarkedLoaded(i) == compensated   \* mutant: the other flag of the pair is set
Marked(i) == [compensated EXCEPT ![i] = TRUE]

(* A failing load changes no state, and the worker goes on all the same.   *)
CompensateSlot(i) ==
  /\ ~compensated[i]
  /\ loaded[i] \/ i \in Unreadable
  /\ irs' = [irs EXCEPT ![i] = CompensateIrGain(files[i])]
  /\ compensated' = Marked(i)
  /\ UNCHANGED <<instance, creator, files, loaded, preloaded, calling, seen>>

(* The parallel loop ends when every worker has.                           *)
DoneAtOnce == TRUE   \* mutant
AllDone == \A i \in Indices : compensated[i]

FinishPreload ==
  /\ instance = "constructing"
  /\ AllDone
  /\ preloaded' = TRUE
  /\ instance' = "ready"
  /\ UNCHANGED <<creator, slots, calling, seen>>

(* ... and all callers return when it has.  The index is that of a slot.   *)
ReadAfterGetInstance(c, i) ==
  /\ c \in calling /\ instance = "ready"
  /\ i \in Indices
  /\ calling' = calling \ {c}
  /\ seen' = seen \cup {<<c, i, irs[i]>>}
  /\ UNCHANGED <<instance, creator, slots, preloaded>>

(* A later GetGainCompensatedIr of a caller, which finds all preloaded.    *)
ReadAgain(c, i) ==
  /\ \E s \in seen : s[1] = c
  /\ i \in Indices
  /\ seen' = seen \cup {<<c, i, irs[i]>>}
  /\ UNCHANGED <<instance, creator, slots, preloaded, calling>>

Next ==
  \/ \E c \in Callers :
       \/ EnterGetInstance(c) \/ Construct(c) \/ ConstructorThrows(c)
       \/ \E i \in Indices : ReadAfterGetInstance(c, i) \/ ReadAgain(c, i)
  \/ \E i \in Indices : LoadFile(i) \/ CompensateSlot(i)
  \/ FinishPreload

Spec == Init /\ [][Next]_vars

(* The implementation of the parallel loop gives every index to a running  *)
(* thread; the constructor goes on, and returned calls are not held back.  *)
(* After a failure no waiting caller is passed over for ever; whether its  *)
(* own attempt succeeds is left open.                                      *)
Fairness ==
  /\ \A i \in 0 .. MaxIRCount - 1 :
       WF_vars(i \in Indices /\ (LoadFile(i) \/ CompensateSlot(i)))
  /\ WF_vars(FinishPreload)
  /\ \A c \in Callers :
       /\ WF_vars(Construct(c) \/ ConstructorThrows(c))
       /\ WF_vars(\E i \in Indices : ReadAfterGetInstance(c, i))

FairSpec == Spec /\ Fairness

-----------------------------------------------------------------------------
(* Properties                                                              *)

(* The vectors of the store go together, within their maximal size.        *)
TypeOK ==
  /\ instance \in {"none", "constructing", "ready"}
  /\ creator \in Callers
  /\ Indices \subseteq 0 .. MaxIRCount - 1
  /\ DOMAIN irs = Indices
  /\ loaded \in [Indices -> BOOLEAN] /\ compensated \in [Indices -> BOOLEAN]
  /\ preloaded \in BOOLEAN
  /\ calling \subseteq Callers

(* Whoever reads slot i gets file i, its gain compensated exactly once, or *)
(* the generated response of the thread that made the store, or nothing if *)
(* the file could not be loaded; and all readers of a slot get the same.   *)
ReadersSeeCompensated ==
  \A s \in seen :
    /\ \/ s[3] \in {Audio(File(s[2]), 1), TestResponse(creator)}
       \/ s[3] = NoAudio /\ s[2] \in Unreadable
    /\ \A t \in seen : t[2] = s[2] => t[3] = s[3]

(* Readers take no lock and keep references: what a reader may be reading  *)
(* is never written again.                                                 *)
ReadersUndisturbed == [][instance = "ready" => UNCHANGED <<slots, preloaded>>]_vars

(* Every caller of GetInstance gets the store, or is told that its own     *)
(* attempt to construct it failed: no failure leaves another one waiting.  *)
CallersServed == \A c \in Callers : c \in calling ~> c \notin calling
=============================================================================
