------------------------------- MODULE FirBlock --------------------------------
(***************************************************************************)
(* The threads of one block of the device: what FirDevice takes as one     *)
(* atomic step, init and processInternal, step by step for each thread.    *)
(* A thread loads and multiplies its own bins, but transforms, the overlap *)
(* and the position of the channel cross the threads, and only the         *)
(* barriers of context.synchronize() order them.                           *)
(*                                                                         *)
(* Of the data only the position is kept, on which control depends; of     *)
(* everything else a step tells which cells it reads and writes.           *)
(***************************************************************************)
EXTENDS FirGeometry

CONSTANTS
  Configs,   \* the filters and buffers: length, capacity and size
  Rands      \* values of rand() on the host

ASSUME BlockAssumption ==
  /\ \A c \in Configs :
       /\ c \in [length : Nat \ {0}, capacity : Nat \ {0}, size : Nat \ {0}]
       /\ c.size <= c.capacity
       /\ LET grain == GrainFor(c.capacity)
          IN  c.size > (NumCalls(c.capacity, grain) - 1) * grain
  /\ Rands \subseteq Nat

VARIABLES
  config,    \* the configuration of this launch
  params,    \* fir::ProcessorParameter and the blueprint
  call,      \* context.call()
  pc,        \* per thread: the step it runs next, ...
  waiting,   \* ... and whether it waits at the barrier before that step
  cursor,    \* per thread: the cursor behind this piece
  piece,     \* per thread: processSamples
  index,     \* per thread: a loop's variable
  segmentOffset,      \* _segmentOffset of the channel
  segmentZeroSamples  \* _segmentZeroSamples of the channel

launch   == <<config, params, call>>
locals   == <<cursor, piece, index>>
position == <<segmentOffset, segmentZeroSamples>>
vars     == <<launch, pc, waiting, locals, position>>

BlockSize == FftLengthQuarter
Threads   == 0 .. BlockSize - 1

segments  == params.segments_count
iteration == params.input_samples_per_iteration
overlaps  == params.overlap_length

(* The steps that come behind a barrier.  Mutants: the one after writing   *)
(* the output, or after the overlap, is missing.                           *)
Synchronized ==
  {"loadFilter", "transformFilter", "keepFilter", "transform", "branch", "multiply",
   "store", "expandOlder", "transformOlder", "keepOverlap", "multiplyFirst",
   "rotate", "transformBack", "output", "carry", "advance", "loop"}
CarryUnordered   == Synchronized \ {"carry"}
AdvanceUnordered == Synchronized \ {"advance"}

Barriers == Synchronized

GotoBehind(t, step, barrier) ==
  /\ pc' = [pc EXCEPT ![t] = step]
  /\ waiting' = [waiting EXCEPT ![t] = barrier]

Goto(t, step) == GotoBehind(t, step, step \in Barriers)

At(t, step) == pc[t] = step /\ ~waiting[t]

-----------------------------------------------------------------------------
(* The engine launches a chunk, for a new stream or the next of this one,  *)
(* and runs its calls one after the other.                                 *)

Done == \A t \in Threads : pc[t] = "done"

StartCall ==
  /\ Done
  /\ pc' = [t \in Threads |-> "begin"]
  /\ UNCHANGED <<waiting, locals, position>>

ParametersFor(c) == LaunchParameters(c.length, c.capacity, c.size)

(* All calls of a chunk come before the next one.                          *)
ChunkDone == call + 1 >= params.num_calls

LaunchInit(c) ==
  /\ StartCall /\ ChunkDone
  /\ SegmentCount(c.length) = segments
  /\ config' = c /\ call' = 0
  /\ \E offset \in InitOffsets(c.length, GrainFor(c.capacity), Rands) :
       params' = [ParametersFor(c) EXCEPT !.filter_length_to_translate_init = c.length,
                                          !.init_buffer_offset = offset]

LaunchNext(c) ==
  /\ StartCall /\ ChunkDone
  /\ call < params.num_calls   \* the first launch translates the filter
  /\ c.length = config.length /\ GrainFor(c.capacity) = params.grain
  /\ config' = c /\ call' = 0
  /\ params' = ParametersFor(c)

NextCall ==
  /\ StartCall
  /\ call + 1 < params.num_calls
  /\ call' = call + 1
  /\ UNCHANGED <<config, params>>

(* context.synchronize(): all threads of the block go on together.         *)
Synchronize ==
  /\ \A t \in Threads : waiting[t]
  /\ \A t, u \in Threads : pc[t] = pc[u]
  /\ waiting' = [t \in Threads |-> FALSE]
  /\ UNCHANGED <<launch, pc, locals, position>>

-----------------------------------------------------------------------------
(* process, and init at the first call of a launch that translates.        *)

Begin(t) ==
  /\ At(t, "begin")
  /\ Goto(t, IF params.filter_length_to_translate_init # 0 /\ call = 0
             THEN "place" ELSE "first")
  /\ UNCHANGED <<launch, locals, position>>

Place(t) ==
  /\ At(t, "place")
  /\ Goto(t, "loadFilter")
  /\ index' = [index EXCEPT ![t] = 0]
  /\ segmentZeroSamples' =
       IF t = 0 THEN params.init_buffer_offset % iteration ELSE segmentZeroSamples
  /\ UNCHANGED <<launch, cursor, piece, segmentOffset>>

KeepFilter(t) ==
  /\ At(t, "keepFilter")
  /\ index' = [index EXCEPT ![t] = @ + 1]
  /\ Goto(t, IF index'[t] * params.fir_samples_per_iteration
                < params.filter_length_to_translate_init
             THEN "loadFilter" ELSE "silence")
  /\ UNCHANGED <<launch, cursor, piece, position>>

Remaining == params.input_length - call * params.grain

First(t) ==
  /\ At(t, "first")
  /\ IF segmentZeroSamples # 0
     THEN /\ piece' = [piece EXCEPT ![t] =
               AtMost(Remaining, AtMost(params.grain, iteration - segmentZeroSamples))]
          /\ cursor' = [cursor EXCEPT ![t] = piece'[t]]
          /\ Goto(t, "load")
     ELSE /\ cursor' = [cursor EXCEPT ![t] = 0]
          /\ GotoBehind(t, "loop", FALSE)
          /\ UNCHANGED piece
  /\ UNCHANGED <<launch, index, position>>

PieceStride(t) == piece'[t]   \* mutant
Stride(t) == iteration

Loop(t) ==
  /\ At(t, "loop")
  /\ IF cursor[t] < params.grain
     THEN /\ piece' = [piece EXCEPT ![t] =
               AtMost(AtMost(Remaining, params.grain) - cursor[t], iteration)]
          /\ cursor' = [cursor EXCEPT ![t] = @ + Stride(t)]
          /\ Goto(t, "load")
     ELSE Goto(t, "done") /\ UNCHANGED <<piece, cursor>>
  /\ UNCHANGED <<launch, index, position>>

-----------------------------------------------------------------------------
(* processInternal, but for the steps that only lead to the next one.      *)

Partial(t)   == piece[t] # iteration
Completes(t) == segmentZeroSamples + piece[t] = iteration

Branch(t) ==
  /\ At(t, "branch")
  /\ Goto(t, IF segmentZeroSamples = 0 THEN "older" ELSE "add")
  /\ UNCHANGED <<launch, locals, position>>

Store(t) ==
  /\ At(t, "store")
  /\ Goto(t, IF segments > 1 /\ Partial(t) THEN "expandOlder" ELSE "rotate")
  /\ UNCHANGED <<launch, locals, position>>

NextOffset == (segmentOffset - 1 + segments) % segments

(* Mutant: every thread moves the ring on.                                 *)
AnyRotates(t) == Completes(t)
Rotates(t) == t = 0 /\ Completes(t)

Rotate(t) ==
  /\ At(t, "rotate")
  /\ Goto(t, "expand")
  /\ segmentOffset' = IF Rotates(t) THEN NextOffset ELSE segmentOffset
  /\ UNCHANGED <<launch, locals, segmentZeroSamples>>

Carry(t) ==
  /\ At(t, "carry")
  /\ Goto(t, IF Completes(t) THEN "carryRead" ELSE "advance")
  /\ index' = [index EXCEPT ![t] = 0]
  /\ UNCHANGED <<launch, cursor, piece, position>>

(* Mutant: only the threads with something to read wait.                   *)
ReadersWait(t)  == index[t] + iteration + t < overlaps
CarryWaits(t) == index[t] + iteration < overlaps

CarryRead(t) ==
  /\ At(t, "carryRead")
  /\ GotoBehind(t, "carryWrite", CarryWaits(t))
  /\ UNCHANGED <<launch, locals, position>>

CarryWrite(t) ==
  /\ At(t, "carryWrite")
  /\ index' = [index EXCEPT ![t] = @ + BlockSize]
  /\ Goto(t, IF index'[t] < overlaps THEN "carryRead" ELSE "advance")
  /\ UNCHANGED <<launch, cursor, piece, position>>

Advance(t) ==
  /\ At(t, "advance")
  /\ Goto(t, "loop")
  /\ segmentZeroSamples' =
       IF t = 0 THEN Remainder(segmentZeroSamples + piece[t], iteration) ELSE segmentZeroSamples
  /\ UNCHANGED <<launch, locals, segmentOffset>>

(* The other steps, with what comes after them.                            *)
After ==
  [loadFilter |-> "transformFilter", transformFilter |-> "keepFilter",
   silence |-> "first", load |-> "transform", transform |-> "branch",
   older |-> "multiply", multiply |-> "store", expandOlder |-> "transformOlder",
   transformOlder |-> "keepOverlap", keepOverlap |-> "rotate",
   add |-> "multiplyFirst", multiplyFirst |-> "rotate", expand |-> "transformBack",
   transformBack |-> "output", output |-> "carry"]

Proceed(t) ==
  /\ pc[t] \in DOMAIN After /\ ~waiting[t]
  /\ Goto(t, After[pc[t]])
  /\ UNCHANGED <<launch, locals, position>>

-----------------------------------------------------------------------------
Init ==
  /\ config \in Configs
  /\ params = ParametersFor(config)
  /\ call = params.num_calls
  /\ pc = [t \in Threads |-> "done"] /\ waiting = [t \in Threads |-> FALSE]
  /\ cursor = [t \in Threads |-> 0] /\ piece = cursor /\ index = cursor
  /\ segmentOffset = 0 /\ segmentZeroSamples = 0

ThreadStep(t) ==
  \/ Begin(t) \/ Place(t) \/ KeepFilter(t) \/ First(t) \/ Loop(t)
  \/ Branch(t) \/ Store(t) \/ Rotate(t)
  \/ Carry(t) \/ CarryRead(t) \/ CarryWrite(t) \/ Advance(t)
  \/ Proceed(t)

Next ==
  \/ \E c \in Configs : LaunchInit(c) \/ LaunchNext(c)
  \/ NextCall
  \/ Synchronize
  \/ \E t \in Threads : ThreadStep(t)

Spec == Init /\ [][Next]_vars

(* The GPU runs all threads of a block.                                    *)
Fairness == WF_vars(Synchronize) /\ \A t \in Threads : WF_vars(ThreadStep(t))

FairSpec == Spec /\ Fairness

-----------------------------------------------------------------------------
(* The memory the threads share: the floats of s_input, the bins of the    *)
(* ring and of the response, the overlap, the output and the position.     *)

SymSize == FftLength
Points  == 0 .. 2 * FftLength - 1

Bins(t)        == {k \in 0 .. SymSize - 1 : k % BlockSize = t}
Shared(N)      == {<<"shared", k>> : k \in N \cap Points}
Own(t)         == Shared({k \in Points : k \div 2 \in Bins(t)})
Ring(t, S)     == {<<"ring", s, k>> : s \in S, k \in Bins(t)}
Response(t, S) == {<<"response", s, k>> : s \in S, k \in Bins(t)}
Overlap(N)     == {<<"overlap", k>> : k \in N \cap 0 .. overlaps - 1}
Output(t, N)   == {<<"output", cursor[t], k>> : k \in N}
Offset         == {<<"segmentOffset">>}
Zero           == {<<"segmentZeroSamples">>}

(* for (i = from + threadId; i < to; i += BlockSize)                       *)
Strided(t, from, to) == {k \in from .. to - 1 : (k - from) % BlockSize = t}

Placed(t)   == {segmentZeroSamples + k : k \in Strided(t, 0, piece[t])}
Carried(t)  == {index[t] + t}
CarriedOn(t) == {index[t] + t + iteration}

Reads(t) ==
  CASE pc[t] \in {"first", "load", "branch", "carry"} -> Zero
    [] pc[t] \in {"transform", "transformOlder", "transformBack", "transformFilter"} ->
         Shared(Points)
    [] pc[t] = "older" -> Offset \cup Response(t, 1 .. segments - 1)
         \cup Ring(t, {(segmentOffset + i) % segments : i \in 1 .. segments - 1})
    [] pc[t] \in {"multiply", "multiplyFirst"} -> Own(t) \cup Response(t, {0})
    [] pc[t] = "store" -> IF segments > 1 \/ Partial(t) THEN Offset \cup Own(t) ELSE {}
    [] pc[t] = "keepOverlap" ->
         LET N == Strided(t, piece[t], overlaps) IN Overlap(N) \cup Shared(N)
    [] pc[t] = "add" -> Offset \cup Own(t) \cup Ring(t, {segmentOffset})
    [] pc[t] \in {"rotate", "advance"} -> IF t = 0 THEN Zero \cup Offset ELSE {}
    [] pc[t] = "output" -> Zero \cup Overlap(Placed(t)) \cup Shared(Placed(t))
    [] pc[t] = "carryRead" -> Overlap(CarriedOn(t))
    [] pc[t] = "carryWrite" -> Shared(CarriedOn(t))
    [] pc[t] = "keepFilter" -> Own(t)
    [] OTHER -> {}

Writes(t) ==
  CASE pc[t] \in {"loadFilter", "load", "expandOlder", "expand"} -> Own(t)
    [] pc[t] \in {"transform", "transformOlder", "transformBack", "transformFilter"} ->
         Shared(Points)
    [] pc[t] \in {"place", "advance"} -> IF t = 0 THEN Zero ELSE {}
    [] pc[t] = "keepFilter" -> Response(t, {index[t]})
    [] pc[t] = "silence" ->
         Ring(t, 0 .. segments - 1) \cup Overlap(Strided(t, 0, overlaps))
    [] pc[t] = "store" ->
         IF segments > 1 \/ Partial(t) THEN Ring(t, {segmentOffset}) ELSE {}
    [] pc[t] = "keepOverlap" -> Overlap(Strided(t, piece[t], overlaps))
    [] pc[t] = "add" -> Own(t) \cup Ring(t, {segmentOffset})
    [] pc[t] = "rotate" -> IF t = 0 /\ Completes(t) THEN Offset ELSE {}
    [] pc[t] = "output" -> Output(t, Strided(t, 0, piece[t]))
    [] pc[t] = "carryWrite" -> Overlap(Carried(t))
    [] OTHER -> {}

(* The library's transforms synchronise their own steps.                   *)
InOneTransform(t, u) ==
  pc[t] = pc[u]
  /\ pc[t] \in {"transform", "transformOlder", "transformBack", "transformFilter"}

-----------------------------------------------------------------------------
(* Properties                                                              *)

(* No two threads of a block can be at steps one of which writes what the  *)
(* other reads or writes: the barriers of init, process and                *)
(* processInternal are enough, over pieces, calls and launches.            *)
NoDataRace ==
  \A t, u \in Threads :
    t # u /\ ~waiting[t] /\ ~waiting[u] /\ ~InOneTransform(t, u) =>
      Writes(t) \cap (Reads(u) \cup Writes(u)) = {}

(* All threads take the same branches, those on the position included,     *)
(* which one of them writes: none waits at a barrier another never comes   *)
(* to, nor works on another piece than the rest.                           *)
ThreadsAgree ==
  \A t, u \in Threads :
    waiting[t] =>
      /\ pc[u] # "done"
      /\ waiting[u] => pc[t] = pc[u] /\ piece[t] = piece[u] /\ cursor[t] = cursor[u]

(* What thread t sees of the block's pieces.  The threads take a piece when *)
(* they meet before the ring moves on; cursor has moved before that, and   *)
(* thread 0 moves the position after it.                                   *)
Translates == params.filter_length_to_translate_init # 0 /\ call = 0

BeforeFirst(t) ==
  pc[t] \in {"begin", "place", "loadFilter", "transformFilter", "keepFilter", "silence",
             "first"}

AtPiece(t) ==
  \/ pc[t] \in {"load", "transform", "branch", "older", "multiply", "store", "expandOlder",
                "transformOlder", "keepOverlap", "add", "multiplyFirst"}
  \/ pc[t] = "rotate" /\ waiting[t]

PieceTaken(t) ==
  \/ pc[t] \in {"expand", "transformBack", "output", "carry", "carryRead", "carryWrite",
                "advance"}
  \/ At(t, "rotate")

PhaseSeen(t) ==
  IF pc[t] = "done" THEN IF ChunkDone THEN "idle" ELSE "loop"
  ELSE IF BeforeFirst(t) \/ (AtPiece(t) /\ cursor[t] < iteration) THEN "first" ELSE "loop"

CursorSeen(t) ==
  IF PhaseSeen(t) # "loop" THEN 0
  ELSE IF AtPiece(t) THEN cursor[t] - iteration ELSE cursor[t]

OffsetSeen == IF At(0, "rotate") /\ Completes(0) THEN NextOffset ELSE segmentOffset

ZeroSeen ==
  IF Translates /\ pc[0] \in {"begin", "place"} THEN params.init_buffer_offset % iteration
  ELSE IF PieceTaken(0) THEN Remainder(segmentZeroSamples + piece[0], iteration)
  ELSE segmentZeroSamples

Pieces(t) ==
  INSTANCE FirPieces WITH
    phase <- PhaseSeen(t), cursor <- CursorSeen(t),
    segmentOffset <- OffsetSeen, segmentZeroSamples <- ZeroSeen

(* To every thread the block takes its pieces one by one and each at once, *)
(* as FirDevice has it, although the threads interleave and one of them    *)
(* writes the position in two places.                                      *)
ThreadsTakePieces ==
  /\ \A t \in Threads : Pieces(t)!Init
  /\ [][\A t \in Threads : UNCHANGED Pieces(t)!vars \/ Pieces(t)!Next]_vars

(* Every thread comes to the end of every call.                            *)
CallEnds == ~Done ~> Done
=============================================================================
