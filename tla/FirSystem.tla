------------------------------- MODULE FirSystem -------------------------------
(***************************************************************************)
(* Processors, the module that makes them and the queues of the engine.    *)
(* Every processor works with its StaticIRShare while chunks it prepared   *)
(* wait and run on the GPU, with the pointers they were prepared with.     *)
(* Chunks of several processors run in any order, those of one processor   *)
(* in the order they were prepared in.                                     *)
(*                                                                         *)
(* The code counts on the engine for one thing: it calls PrepareForProcess *)
(* (which runs SetData), Connect, InputPortUpdated or DeleteProcessor only *)
(* when no chunk of that same processor waits or runs.  Of the chunks of   *)
(* other processors it knows nothing.                                      *)
(***************************************************************************)
EXTENDS StaticIRShare

CONSTANT MaxQueued   \* chunks of a processor that wait or run

ASSUME QueueAssumption == MaxQueued \in Nat

VARIABLES
  recompute,   \* m_recompute_filter
  queue        \* chunks prepared and not finished; the first one runs

systemVars == <<vars, recompute, queue>>

Drained(s) == queue[s] = <<>>

-----------------------------------------------------------------------------
(* FirModule                                                               *)

CreateProcessor(s) ==
  /\ \E ctor \in CtorInfos : Construct(s, ctor)
  /\ recompute' = [recompute EXCEPT ![s] = TRUE]
  /\ UNCHANGED queue

(* The constructor threw: the caller gets no processor and eFail.          *)
CreationFailed(s) ==
  /\ pc[s] = "unwind"
  /\ Destroy(s)
  /\ UNCHANGED <<recompute, queue>>

DeletesNow(s) == pc[s] = "ready" /\ Drained(s)

DeleteProcessor(s) ==
  /\ DeletesNow(s)
  /\ Destroy(s)
  /\ UNCHANGED <<recompute, queue>>

-----------------------------------------------------------------------------
(* FirProcessor                                                            *)

(* SetData, in a launch or in the constructor, and changes of the port.    *)
ChangeFilter(s) ==
  /\ Drained(s)
  /\ Reconnect(s) \/ \E index \in Choices : LoadImpulseResponse(s, index)
  /\ UNCHANGED <<recompute, queue>>

RecomputeUnchanged(s) == recompute   \* mutant
RecomputeSet(s) == [recompute EXCEPT ![s] = TRUE]

(* The rest of UpdateFilterCoefficients.                                   *)
UpdateFilterCoefficients(s) ==
  \/ /\ GetSegments(s)
     /\ recompute' = RecomputeSet(s)
     /\ UNCHANGED queue
  \/ /\ GetRawIR(s) \/ OwnBufferFails(s) \/ RawIRFails(s) \/ SegmentsFail(s)
     /\ UNCHANGED <<recompute, queue>>

(* Mutant: the two tables of pointers are swapped. *)
ChunkSwapped(s) == [raw |-> segments[s], segments |-> raw[s], info |-> info[s],
                    translate |-> recompute[s]]

Chunk(s) == [raw |-> raw[s], segments |-> segments[s], info |-> info[s],
             translate |-> recompute[s]]

PrepareChunk(s) ==
  /\ pc[s] = "ready"
  /\ Len(queue[s]) < MaxQueued
  /\ queue' = [queue EXCEPT ![s] = Append(@, Chunk(s))]
  /\ recompute' = [recompute EXCEPT ![s] = FALSE]
  /\ UNCHANGED vars

-----------------------------------------------------------------------------
(* The GPU: a chunk first translates the filter, when it is to, ...        *)
TranslateChunk(s) ==
  LET c == Head(queue[s])
  IN  /\ ~Drained(s) /\ c.translate
      /\ queue' = [queue EXCEPT ![s][1].translate = FALSE]
      /\ translated' = [translated EXCEPT ![s] = TRUE]
      /\ gpu' = With(gpu, c.segments,
           [size |-> gpu[c.segments].size, content |-> SpectrumOf(c.raw)])
      /\ UNCHANGED <<pc, constructing, fields, sharedIrs, recompute>>

(* ... and then convolves, until it is finished.                           *)
FinishChunk(s) ==
  /\ ~Drained(s) /\ ~Head(queue[s]).translate
  /\ queue' = [queue EXCEPT ![s] = Tail(@)]
  /\ UNCHANGED <<vars, recompute>>

-----------------------------------------------------------------------------
SystemInit ==
  /\ Init
  /\ recompute = [s \in Shares |-> FALSE]
  /\ queue = [s \in Shares |-> <<>>]

ProcessorStep(s) ==
  \/ CreateProcessor(s) \/ CreationFailed(s) \/ DeleteProcessor(s)
  \/ ChangeFilter(s) \/ UpdateFilterCoefficients(s)
  \/ PrepareChunk(s) \/ TranslateChunk(s) \/ FinishChunk(s)

SystemNext == \E s \in Shares : ProcessorStep(s)

SystemSpec == SystemInit /\ [][SystemNext]_systemVars

-----------------------------------------------------------------------------
(* Properties                                                              *)

(* The memory a chunk was prepared with stays allocated until the chunk is *)
(* finished, and holds its filter: whatever other processors unload,       *)
(* allocate or translate meanwhile.                                        *)
ChunksFindTheirFilter ==
  \A s \in Shares : \A i \in DOMAIN queue[s] :
    LET c == queue[s][i]
    IN  /\ {c.raw, c.segments} \subseteq DOMAIN gpu
        /\ gpu[c.raw].content = Samples(c.info)

(* A chunk that convolves finds the spectrum of its own filter: the one    *)
(* chunk that carries the translation is never overtaken by another, and   *)
(* no request to translate is lost between the host and the device.        *)
ChunksFindTheirSpectrum ==
  \A s \in Shares :
    ~Drained(s) /\ ~Head(queue[s]).translate =>
      gpu[Head(queue[s]).segments].content =
        [form |-> "spectrum", of |-> ImpulseResponse(Head(queue[s]).info)]

(* The processors use the cache as it expects to be used, chunks included. *)
UsesCacheAsSpecified == Spec
=============================================================================
