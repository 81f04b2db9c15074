---------------------------- MODULE FirBlockProofs -----------------------------
(***************************************************************************)
(* The barriers of init, process and processInternal are enough, for any   *)
(* length of transform and so any number of threads, any filters, buffers  *)
(* and random starts: no two threads touch a cell at once, all take the    *)
(* same branches, and each of them sees the pieces FirPieces has.          *)
(***************************************************************************)
EXTENDS FirBlock, FirGeometryProofs

-----------------------------------------------------------------------------
(* The inductive invariant: the threads of a block are in one phase, the   *)
(* stretch of code from one barrier to the next, which has the name of its *)
(* first step.  c, p and i are the cursor, the piece and the loop's        *)
(* variable with which all threads entered it; where the code branches,    *)
(* all threads behind the branch took it in the same direction.            *)

AtBarrier(t, step) == pc[t] = step /\ waiting[t]

LocalsAre(t, c, p) == cursor[t] = c /\ piece[t] = p

MoreFilter(i) ==
  i * params.fir_samples_per_iteration < params.filter_length_to_translate_init

PieceFrom(c) == AtMost(AtMost(Remaining, params.grain) - c, iteration)

(* The first piece of a call, which fills up an iteration or begins one.   *)
EnteringPiece ==
  IF segmentZeroSamples # 0
  THEN AtMost(Remaining, AtMost(params.grain, iteration - segmentZeroSamples))
  ELSE PieceFrom(0)

EnteringCursor == IF segmentZeroSamples # 0 THEN EnteringPiece ELSE iteration

Loads(t, c, p) == (At(t, "load") \/ AtBarrier(t, "transform")) /\ LocalsAre(t, c, p)

Enters(t) ==
  \/ At(t, "first")
  \/ segmentZeroSamples = 0 /\ At(t, "loop") /\ cursor[t] = 0
  \/ Loads(t, EnteringCursor, EnteringPiece)

InDone(t, c, p) == At(t, "done") /\ LocalsAre(t, c, p)

InBegin(t, c, p) ==
  \/ At(t, "begin") /\ LocalsAre(t, c, p)
  \/ Translates /\ At(t, "place") /\ LocalsAre(t, c, p)
  \/ Translates /\ AtBarrier(t, "loadFilter") /\ LocalsAre(t, c, p) /\ index[t] = 0
  \/ ~Translates /\ Enters(t)

InKeepFilter(t, c, p, i) ==
  \/ At(t, "keepFilter") /\ LocalsAre(t, c, p) /\ index[t] = i
  \/ /\ MoreFilter(i + 1)
     /\ AtBarrier(t, "loadFilter") /\ LocalsAre(t, c, p) /\ index[t] = i + 1
  \/ ~MoreFilter(i + 1) /\ (At(t, "silence") \/ Enters(t))

InLoop(t, c, p) ==
  \/ At(t, "loop") /\ LocalsAre(t, c, p)
  \/ c < params.grain /\ Loads(t, c + iteration, PieceFrom(c))
  \/ ~(c < params.grain) /\ InDone(t, c, p)

InBranch(t) ==
  \/ At(t, "branch")
  \/ segmentZeroSamples = 0 /\ (At(t, "older") \/ AtBarrier(t, "multiply"))
  \/ segmentZeroSamples # 0 /\ (At(t, "add") \/ AtBarrier(t, "multiplyFirst"))

InStore(t, p) ==
  \/ At(t, "store")
  \/ segments > 1 /\ p # iteration /\ AtBarrier(t, "expandOlder")
  \/ ~(segments > 1 /\ p # iteration) /\ AtBarrier(t, "rotate")

InRotate(t) == At(t, "rotate") \/ At(t, "expand") \/ AtBarrier(t, "transformBack")

(* In the loop that moves the overlap, from index j: one more round, if it *)
(* has a barrier, or all the rounds that are left.                         *)
Rounds == {q * BlockSize : q \in Nat}

Carries(t, j) ==
  /\ index[t] \in Rounds
  /\ \/ At(t, "carryRead") /\ index[t] = j
     \/ j + iteration < overlaps /\ AtBarrier(t, "carryWrite") /\ index[t] = j
     \/ /\ ~(j + iteration < overlaps) /\ index[t] >= j
        /\ At(t, "carryRead") \/ At(t, "carryWrite") \/ AtBarrier(t, "advance")

InCarry(t, p) ==
  \/ At(t, "carry")
  \/ segmentZeroSamples + p # iteration /\ AtBarrier(t, "advance")
  \/ segmentZeroSamples + p = iteration /\ Carries(t, 0)

InCarryWrite(t, i) ==
  \/ At(t, "carryWrite") /\ index[t] = i /\ i \in Rounds
  \/ Carries(t, i + BlockSize)

(* The phases that are one step between two barriers.                      *)
FilterSteps   == {"loadFilter", "transformFilter"}
StraightSteps ==
  {"transform", "multiply", "expandOlder", "transformOlder", "keepOverlap",
   "multiplyFirst", "transformBack", "output"}

InStraight(t, s) == At(t, s) \/ AtBarrier(t, After[s])

InPhase(s, t, c, p, i) ==
  \/ s = "done"  /\ InDone(t, c, p)
  \/ s = "begin" /\ InBegin(t, c, p)
  \/ s \in FilterSteps /\ InStraight(t, s) /\ LocalsAre(t, c, p) /\ index[t] = i
  \/ s = "keepFilter" /\ InKeepFilter(t, c, p, i)
  \/ s = "loop" /\ InLoop(t, c, p)
  \/ LocalsAre(t, c, p) /\
       \/ s \in StraightSteps /\ InStraight(t, s)
       \/ s = "branch"  /\ InBranch(t)
       \/ s = "store"   /\ InStore(t, p)
       \/ s = "rotate"  /\ InRotate(t)
       \/ s = "carry"   /\ InCarry(t, p)
       \/ s = "carryWrite" /\ InCarryWrite(t, i)
       \/ s = "advance" /\ (At(t, "advance") \/ AtBarrier(t, "loop"))

Phases ==
  FilterSteps \cup StraightSteps \cup
  {"done", "begin", "keepFilter", "loop", "branch", "store", "rotate", "carry",
   "carryWrite", "advance"}

InOnePhase ==
  \E s \in Phases, c \in Int, p \in Int, i \in Int :
    \A t \in Threads : InPhase(s, t, c, p, i)

(* The parameters of a launch are sizes; pieces need not be positive.      *)
Launched ==
  /\ call \in Int
  /\ params.grain \in Nat \ {0} /\ params.input_length \in Int
  /\ iteration \in FftLength .. 2 * FftLength /\ overlaps \in Int
  /\ segmentZeroSamples \in Int /\ params.init_buffer_offset \in Int

Steps ==
  {"done", "begin", "place", "loadFilter", "transformFilter", "keepFilter", "silence",
   "first", "loop", "load", "transform", "branch", "older", "multiply", "store",
   "expandOlder", "transformOlder", "keepOverlap", "add", "multiplyFirst", "rotate",
   "expand", "transformBack", "output", "carry", "carryRead", "carryWrite", "advance"}

Locals ==
  /\ pc \in [Threads -> Steps] /\ waiting \in [Threads -> BOOLEAN]
  /\ cursor \in [Threads -> Int] /\ piece \in [Threads -> Int]
  /\ index \in [Threads -> Int]

IInv == Launched /\ Locals /\ InOnePhase

-----------------------------------------------------------------------------
(* Threads                                                                 *)

LEMMA BlockSizes ==
  /\ BlockSize \in Nat \ {0} /\ FftLength = 4 * BlockSize /\ SymSize = 4 * BlockSize
  /\ 0 \in Threads /\ Threads \subseteq Nat /\ \A t \in Threads : t < BlockSize
  BY FftLengthAssumption, SMT DEF BlockSize, FftLengthQuarter, Threads, SymSize

LEMMA Moves ==
  ASSUME Locals, NEW t \in Threads, NEW step \in Steps, NEW barrier \in BOOLEAN,
         GotoBehind(t, step, barrier)
  PROVE  /\ pc' \in [Threads -> Steps] /\ waiting' \in [Threads -> BOOLEAN]
         /\ pc'[t] = step /\ (waiting'[t] <=> barrier)
         /\ \A u \in Threads \ {t} : pc'[u] = pc[u] /\ waiting'[u] = waiting[u]
  BY Zenon DEF GotoBehind, Locals

LEMMA MovesTo ==
  ASSUME Locals, NEW t \in Threads, NEW step \in Steps, Goto(t, step)
  PROVE  /\ pc' \in [Threads -> Steps] /\ waiting' \in [Threads -> BOOLEAN]
         /\ pc'[t] = step /\ (waiting'[t] <=> step \in Barriers)
         /\ \A u \in Threads \ {t} : pc'[u] = pc[u] /\ waiting'[u] = waiting[u]
<1>1. (step \in Barriers) \in BOOLEAN
  OBVIOUS
<1> QED
  BY <1>1, Moves, Zenon DEF Goto

LEMMA AfterIs ==
  /\ DOMAIN After =
       {"loadFilter", "transformFilter", "silence", "load", "transform", "older",
        "multiply", "expandOlder", "transformOlder", "keepOverlap", "add",
        "multiplyFirst", "expand", "transformBack", "output"}
  /\ After["loadFilter"] = "transformFilter" /\ After["transformFilter"] = "keepFilter"
  /\ After["silence"] = "first" /\ After["load"] = "transform"
  /\ After["transform"] = "branch" /\ After["older"] = "multiply"
  /\ After["multiply"] = "store" /\ After["expandOlder"] = "transformOlder"
  /\ After["transformOlder"] = "keepOverlap" /\ After["keepOverlap"] = "rotate"
  /\ After["add"] = "multiplyFirst" /\ After["multiplyFirst"] = "rotate"
  /\ After["expand"] = "transformBack" /\ After["transformBack"] = "output"
  /\ After["output"] = "carry"
  BY DEF After

(* A step of a thread keeps the types and leaves the other threads alone.  *)
OthersStay(t) ==
  \A u \in Threads \ {t} :
    /\ pc'[u] = pc[u] /\ waiting'[u] = waiting[u]
    /\ cursor'[u] = cursor[u] /\ piece'[u] = piece[u] /\ index'[u] = index[u]

LEMMA StepTypes ==
  ASSUME Launched, Locals, NEW t \in Threads, ThreadStep(t)
  PROVE  Launched' /\ Locals' /\ OthersStay(t) /\ UNCHANGED launch
<1>1. /\ iteration \in Nat \ {0} /\ Remaining \in Int /\ params.grain \in Int
      /\ cursor[t] \in Int /\ piece[t] \in Int /\ index[t] \in Int
      /\ BlockSize \in Int
  BY BlockSizes, SMT DEF Launched, Locals, Remaining
<1>2. UNCHANGED launch
  BY DEF ThreadStep, Begin, Place, KeepFilter, First, Loop, Branch, Store, Rotate, Carry,
     CarryRead, CarryWrite, Advance, Proceed
<1>3. \E step \in Steps, barrier \in BOOLEAN : GotoBehind(t, step, barrier)
  <2>1. \A step : Goto(t, step) => GotoBehind(t, step, step \in Barriers)
    BY DEF Goto
  <2>2. ASSUME NEW step \in Steps, Goto(t, step)
        PROVE  \E to \in Steps, barrier \in BOOLEAN : GotoBehind(t, to, barrier)
    <3>1. (step \in Barriers) \in BOOLEAN
      OBVIOUS
    <3> HIDE DEF Goto, GotoBehind
    <3> QED
      BY <2>1, <2>2, <3>1, Zenon
  <2>3. \A s \in DOMAIN After : After[s] \in Steps
    BY AfterIs, SMT DEF Steps
  <2>4. CarryWaits(t) \in BOOLEAN
    BY DEF CarryWaits
  <2> HIDE DEF Goto, GotoBehind
  <2>5. CASE Proceed(t)
    BY <2>2, <2>3, <2>5, SMT DEF Proceed
  <2>6. CASE First(t)
    <3>1. Goto(t, "load") \/ GotoBehind(t, "loop", FALSE)
      BY <2>6 DEF First
    <3>2. "load" \in Steps /\ "loop" \in Steps /\ FALSE \in BOOLEAN
      BY DEF Steps
    <3> QED
      BY <2>2, <3>1, <3>2, Zenon
  <2>7. CASE CarryRead(t)
    BY <2>4, <2>7, SMT DEF CarryRead, Steps
  <2>8. CASE Begin(t) \/ Place(t)
    BY <2>2, <2>8, SMT DEF Begin, Place, Steps
  <2>10. CASE KeepFilter(t)
    BY <2>2, <2>10, SMT DEF KeepFilter, Steps
  <2>11. CASE Loop(t)
    <3>1. Goto(t, "load") \/ Goto(t, "done")
      BY <2>11 DEF Loop
    <3> QED
      BY <2>2, <3>1, SMT DEF Steps
  <2>9. CASE Branch(t) \/ Store(t) \/ Rotate(t) \/ Carry(t) \/ CarryWrite(t) \/ Advance(t)
    BY <2>2, <2>9, SMT DEF Branch, Store, Rotate, Carry, CarryWrite, Advance, Steps
  <2> QED
    BY <2>5, <2>6, <2>7, <2>8, <2>9, <2>10, <2>11 DEF ThreadStep
<1>4. /\ pc' \in [Threads -> Steps] /\ waiting' \in [Threads -> BOOLEAN]
      /\ \A u \in Threads \ {t} : pc'[u] = pc[u] /\ waiting'[u] = waiting[u]
  BY <1>3, Moves
<1>5. EnteringPiece \in Int
  <2>1. segmentZeroSamples \in Int /\ iteration - segmentZeroSamples \in Int
    BY <1>1, SMT DEF Launched
  <2> QED
    BY <1>1, <2>1, SMT DEF EnteringPiece, PieceFrom, AtMost
<1>6. \E n \in Int : cursor' = [cursor EXCEPT ![t] = n]
  <2>1. CASE UNCHANGED cursor
    BY <1>1, <2>1 DEF Locals
  <2>2. CASE First(t)
    <3>1. \/ cursor' = [cursor EXCEPT ![t] = piece'[t]]
             /\ piece' = [piece EXCEPT ![t] = EnteringPiece] /\ segmentZeroSamples # 0
          \/ cursor' = [cursor EXCEPT ![t] = 0]
      BY <2>2 DEF First, EnteringPiece
    <3>2. EnteringPiece \in Int
      BY <1>5
    <3>3. piece' = [piece EXCEPT ![t] = EnteringPiece] => piece'[t] = EnteringPiece
      BY DEF Locals
    <3> QED
      BY <3>1, <3>2, <3>3
  <2>3. CASE Loop(t)
    BY <1>1, <2>1, <2>3, SMT DEF Loop, Stride, Locals
  <2> QED
    BY <2>1, <2>2, <2>3 DEF ThreadStep, Begin, Place, KeepFilter, Branch, Store, Rotate,
       Carry, CarryRead, CarryWrite, Advance, Proceed, locals
<1>7. \E n \in Int : piece' = [piece EXCEPT ![t] = n]
  <2>1. CASE UNCHANGED piece
    BY <1>1, <2>1 DEF Locals
  <2>2. CASE First(t)
    <3>1. piece' = [piece EXCEPT ![t] = EnteringPiece] \/ UNCHANGED piece
      BY <2>2 DEF First, EnteringPiece
    <3> QED
      BY <1>5, <2>1, <3>1
  <2>3. CASE Loop(t)
    <3>1. piece' = [piece EXCEPT ![t] = PieceFrom(cursor[t])] \/ UNCHANGED piece
      BY <2>3 DEF Loop, PieceFrom
    <3>2. PieceFrom(cursor[t]) \in Int
      BY <1>1, SMT DEF PieceFrom, AtMost
    <3> QED
      BY <2>1, <3>1, <3>2
  <2> QED
    BY <2>1, <2>2, <2>3 DEF ThreadStep, Begin, Place, KeepFilter, Branch, Store, Rotate,
       Carry, CarryRead, CarryWrite, Advance, Proceed, locals
<1>8. \E n \in Int : index' = [index EXCEPT ![t] = n]
  <2>1. CASE UNCHANGED index
    BY <1>1, <2>1 DEF Locals
  <2>2. CASE Place(t) \/ Carry(t)
    BY <2>2 DEF Place, Carry
  <2>3. CASE KeepFilter(t) \/ CarryWrite(t)
    BY <1>1, <2>3, SMT DEF KeepFilter, CarryWrite, Locals
  <2> QED
    BY <2>1, <2>2, <2>3 DEF ThreadStep, Begin, First, Loop, Branch, Store, Rotate,
       CarryRead, Advance, Proceed, locals
<1>9. segmentZeroSamples' \in Int
  <2>1. CASE Place(t)
    BY <1>1, <2>1, SMT DEF Place, Launched
  <2>2. CASE Advance(t)
    <3>1. segmentZeroSamples + piece[t] \in Int
      BY <1>1, SMT DEF Launched
    <3> QED
      BY <1>1, <2>2, <3>1, RemainderIsInt DEF Advance, Launched
  <2> QED
    BY <2>1, <2>2 DEF ThreadStep, Begin, KeepFilter, First, Loop, Branch, Store, Rotate,
       Carry, CarryRead, CarryWrite, Proceed, position, Launched
<1>10. Launched'
  BY <1>2, <1>9, Zenon DEF Launched, launch, iteration, overlaps
<1>11. Locals' /\ OthersStay(t)
  BY <1>4, <1>6, <1>7, <1>8 DEF Locals, OthersStay
<1> QED
  BY <1>2, <1>10, <1>11

(* A phase is about one thread, the launch and the position.               *)
LEMMA OthersKeepPhase ==
  ASSUME NEW u, NEW s, NEW c, NEW p, NEW i, UNCHANGED launch,
         pc'[u] = pc[u], waiting'[u] = waiting[u],
         cursor'[u] = cursor[u], piece'[u] = piece[u], index'[u] = index[u],
         InPhase(s, u, c, p, i),
         \/ segmentZeroSamples' = segmentZeroSamples
         \/ s = "begin" /\ Translates
         \/ s = "advance"
  PROVE  InPhase(s, u, c, p, i)'
<1>1. \A step : At(u, step)' <=> At(u, step)
  BY DEF At
<1>2. \A step : AtBarrier(u, step)' <=> AtBarrier(u, step)
  BY DEF AtBarrier
<1>3. \A a, b : LocalsAre(u, a, b)' <=> LocalsAre(u, a, b)
  BY DEF LocalsAre
<1>4. /\ params' = params /\ iteration' = iteration /\ overlaps' = overlaps
      /\ segments' = segments /\ (Translates' <=> Translates) /\ Remaining' = Remaining
  BY DEF launch, iteration, overlaps, segments, Translates, Remaining
<1>5. \A a : (MoreFilter(a)' <=> MoreFilter(a)) /\ PieceFrom(a)' = PieceFrom(a)
  BY <1>4 DEF MoreFilter, PieceFrom
<1>6. /\ InDone(u, c, p)' <=> InDone(u, c, p)
      /\ InLoop(u, c, p)' <=> InLoop(u, c, p)
      /\ InStore(u, p)' <=> InStore(u, p)
      /\ InRotate(u)' <=> InRotate(u)
      /\ \A j : Carries(u, j)' <=> Carries(u, j)
  BY <1>1, <1>2, <1>3, <1>4, <1>5 DEF InDone, InLoop, Loads, InStore, InRotate, Carries, Rounds
<1>7. /\ InCarryWrite(u, i)' <=> InCarryWrite(u, i)
      /\ \A step : InStraight(u, step)' <=> InStraight(u, step)
  BY <1>1, <1>2, <1>6 DEF InCarryWrite, InStraight, Rounds
<1>8. CASE segmentZeroSamples' = segmentZeroSamples
  <2>1. Enters(u)' <=> Enters(u)
    BY <1>1, <1>2, <1>3, <1>4, <1>5, <1>8
       DEF Enters, Loads, EnteringCursor, EnteringPiece
  <2>2. /\ InBegin(u, c, p)' <=> InBegin(u, c, p)
        /\ InKeepFilter(u, c, p, i)' <=> InKeepFilter(u, c, p, i)
        /\ InBranch(u)' <=> InBranch(u)
        /\ InCarry(u, p)' <=> InCarry(u, p)
    BY <1>1, <1>2, <1>3, <1>4, <1>5, <1>6, <1>8, <2>1
       DEF InBegin, InKeepFilter, InBranch, InCarry
  <2> QED
    BY <1>1, <1>2, <1>3, <1>6, <1>7, <2>2 DEF InPhase
<1>9. CASE s = "begin" /\ Translates
  BY <1>1, <1>2, <1>3, <1>4, <1>9, SMT
     DEF InPhase, InBegin, FilterSteps, StraightSteps
<1>10. CASE s = "advance"
  BY <1>1, <1>2, <1>3, <1>10, SMT DEF InPhase, FilterSteps, StraightSteps
<1> QED
  BY <1>8, <1>9, <1>10

(* Where a thread is tells its phase, but for the ways into the first piece. *)
LEMMA PhaseAt ==
  ASSUME NEW t, NEW s, NEW c, NEW p, NEW i, InPhase(s, t, c, p, i), ~waiting[t]
  PROVE  /\ pc[t] \in {"begin", "place"} =>
              s = "begin" /\ LocalsAre(t, c, p) /\ (pc[t] = "place" => Translates)
         /\ pc[t] \in {"keepFilter", "silence"} => s = "keepFilter"
         /\ pc[t] = "keepFilter" => LocalsAre(t, c, p) /\ index[t] = i
         /\ pc[t] = "silence" => ~MoreFilter(i + 1)
         /\ pc[t] \in {"first", "load", "loop"} =>
              \/ s = "begin" /\ ~Translates /\ Enters(t)
              \/ s = "keepFilter" /\ ~MoreFilter(i + 1) /\ Enters(t)
              \/ s = "loop" /\ pc[t] # "first" /\ InLoop(t, c, p)
         /\ pc[t] \in {"branch", "older", "add"} => s = "branch" /\ LocalsAre(t, c, p)
         /\ pc[t] = "older" => segmentZeroSamples = 0
         /\ pc[t] = "add" => segmentZeroSamples # 0
         /\ pc[t] = "store" => s = "store" /\ LocalsAre(t, c, p)
         /\ pc[t] \in {"rotate", "expand"} => s = "rotate" /\ LocalsAre(t, c, p)
         /\ pc[t] = "advance" => s = "advance" /\ LocalsAre(t, c, p)
         /\ pc[t] = "carry" => s = "carry" /\ LocalsAre(t, c, p)
         /\ pc[t] \in {"carryRead", "carryWrite"} =>
              /\ LocalsAre(t, c, p)
              /\ \/ s = "carry" /\ segmentZeroSamples + p = iteration /\ Carries(t, 0)
                 \/ s = "carryWrite" /\ InCarryWrite(t, i)
         /\ pc[t] = "done" => s \in {"done", "loop"} /\ InDone(t, c, p)
         /\ pc[t] \in FilterSteps => s = pc[t] /\ LocalsAre(t, c, p) /\ index[t] = i
         /\ pc[t] \in StraightSteps => s = pc[t] /\ LocalsAre(t, c, p)
<1>1. \A step : ~AtBarrier(t, step)
  BY DEF AtBarrier
<1>2. \A step : At(t, step) <=> pc[t] = step
  BY DEF At
<1>3. InDone(t, c, p) => pc[t] = "done"
  BY <1>2 DEF InDone
<1>4. \A step : InStraight(t, step) => pc[t] = step
  BY <1>1, <1>2 DEF InStraight
<1>5. Enters(t) => pc[t] \in {"first", "loop", "load"}
  BY <1>1, <1>2 DEF Enters, Loads
<1>6. InBegin(t, c, p) =>
        \/ pc[t] = "begin" /\ LocalsAre(t, c, p)
        \/ pc[t] = "place" /\ LocalsAre(t, c, p) /\ Translates
        \/ ~Translates /\ Enters(t)
  BY <1>1, <1>2 DEF InBegin
<1>7. InKeepFilter(t, c, p, i) =>
        \/ pc[t] = "keepFilter" /\ LocalsAre(t, c, p) /\ index[t] = i
        \/ pc[t] = "silence" /\ ~MoreFilter(i + 1)
        \/ ~MoreFilter(i + 1) /\ Enters(t)
  BY <1>1, <1>2 DEF InKeepFilter
<1>8. InLoop(t, c, p) => pc[t] \in {"loop", "load"} \/ InDone(t, c, p)
  BY <1>1, <1>2 DEF InLoop, Loads
<1>9. InBranch(t) =>
        \/ pc[t] = "branch"
        \/ pc[t] = "older" /\ segmentZeroSamples = 0
        \/ pc[t] = "add" /\ segmentZeroSamples # 0
  BY <1>1, <1>2 DEF InBranch
<1>10. /\ InStore(t, p) => pc[t] = "store"
       /\ InRotate(t) => pc[t] \in {"rotate", "expand"}
  BY <1>1, <1>2 DEF InStore, InRotate
<1>11. \A j : Carries(t, j) => pc[t] \in {"carryRead", "carryWrite"}
  BY <1>1, <1>2 DEF Carries
<1>12. /\ InCarry(t, p) =>
            \/ pc[t] = "carry"
            \/ segmentZeroSamples + p = iteration /\ Carries(t, 0)
       /\ InCarryWrite(t, i) => pc[t] \in {"carryRead", "carryWrite"}
  BY <1>1, <1>2, <1>11 DEF InCarry, InCarryWrite
<1>13. CASE s \in FilterSteps
  BY <1>4, <1>13, SMT DEF InPhase, FilterSteps, StraightSteps
<1>14. CASE s \in StraightSteps
  BY <1>4, <1>14, SMT DEF InPhase, FilterSteps, StraightSteps
<1>15. CASE s = "done" /\ InDone(t, c, p)
  BY <1>3, <1>15, SMT DEF FilterSteps, StraightSteps
<1>16. CASE s = "begin" /\ InBegin(t, c, p)
  BY <1>5, <1>6, <1>16, SMT DEF FilterSteps, StraightSteps
<1>17. CASE s = "keepFilter" /\ InKeepFilter(t, c, p, i)
  BY <1>5, <1>7, <1>17, SMT DEF FilterSteps, StraightSteps
<1>18. CASE s = "loop" /\ InLoop(t, c, p)
  BY <1>3, <1>8, <1>18, SMT DEF FilterSteps, StraightSteps
<1>19. CASE s = "branch" /\ LocalsAre(t, c, p) /\ InBranch(t)
  BY <1>9, <1>19, SMT DEF FilterSteps, StraightSteps
<1>20. CASE /\ LocalsAre(t, c, p)
            /\ (s = "store" /\ InStore(t, p)) \/ (s = "rotate" /\ InRotate(t))
  BY <1>10, <1>20, SMT DEF FilterSteps, StraightSteps
<1>21. CASE LocalsAre(t, c, p) /\ s = "carry" /\ InCarry(t, p)
  BY <1>11, <1>12, <1>21, SMT DEF FilterSteps, StraightSteps
<1>22. CASE LocalsAre(t, c, p) /\ s = "carryWrite" /\ InCarryWrite(t, i)
  BY <1>12, <1>22, SMT DEF FilterSteps, StraightSteps
<1>23. CASE LocalsAre(t, c, p) /\ s = "advance" /\ At(t, "advance")
  BY <1>2, <1>23, SMT DEF FilterSteps, StraightSteps
<1>24. \/ s \in FilterSteps \/ s \in StraightSteps
       \/ s = "done" /\ InDone(t, c, p)
       \/ s = "begin" /\ InBegin(t, c, p)
       \/ s = "keepFilter" /\ InKeepFilter(t, c, p, i)
       \/ s = "loop" /\ InLoop(t, c, p)
       \/ s = "branch" /\ LocalsAre(t, c, p) /\ InBranch(t)
       \/ /\ LocalsAre(t, c, p)
          /\ (s = "store" /\ InStore(t, p)) \/ (s = "rotate" /\ InRotate(t))
       \/ LocalsAre(t, c, p) /\ s = "carry" /\ InCarry(t, p)
       \/ LocalsAre(t, c, p) /\ s = "carryWrite" /\ InCarryWrite(t, i)
       \/ LocalsAre(t, c, p) /\ s = "advance" /\ At(t, "advance")
  BY <1>1 DEF InPhase
<1> QED
  BY <1>13, <1>14, <1>15, <1>16, <1>17, <1>18, <1>19, <1>20, <1>21, <1>22, <1>23, <1>24,
     Zenon

-----------------------------------------------------------------------------
(* Every step of a thread stays in the phase.                              *)

LEMMA Same ==
  ASSUME UNCHANGED launch
  PROVE  /\ params' = params /\ call' = call /\ iteration' = iteration
         /\ overlaps' = overlaps /\ segments' = segments /\ Remaining' = Remaining
         /\ Translates' <=> Translates
         /\ \A a : (MoreFilter(a)' <=> MoreFilter(a)) /\ PieceFrom(a)' = PieceFrom(a)
         /\ segmentZeroSamples' = segmentZeroSamples =>
              EnteringPiece' = EnteringPiece /\ EnteringCursor' = EnteringCursor
<1>1. /\ params' = params /\ call' = call /\ iteration' = iteration
      /\ overlaps' = overlaps /\ segments' = segments /\ Remaining' = Remaining
  BY DEF launch, iteration, overlaps, segments, Remaining
<1>2. \A a : PieceFrom(a)' = PieceFrom(a)
  BY <1>1 DEF PieceFrom
<1>3. /\ Translates' <=> Translates
      /\ \A a : MoreFilter(a)' <=> MoreFilter(a)
  BY <1>1 DEF MoreFilter, Translates
<1>4. segmentZeroSamples' = segmentZeroSamples =>
        EnteringPiece' = EnteringPiece /\ EnteringCursor' = EnteringCursor
  BY <1>1, <1>2 DEF EnteringPiece, EnteringCursor
<1> QED
  BY <1>1, <1>2, <1>3, <1>4

LEMMA InitStepsKeepPhase ==
  ASSUME Launched, Locals, NEW t \in Threads, NEW s, NEW c, NEW p, NEW i,
         InPhase(s, t, c, p, i), Begin(t) \/ Place(t) \/ KeepFilter(t), UNCHANGED launch
  PROVE  InPhase(s, t, c, p, i)'
<1>1. CASE Begin(t)
  <2>1. s = "begin" /\ LocalsAre(t, c, p)
    BY <1>1, PhaseAt DEF Begin, At
  <2>2. LocalsAre(t, c, p)'
    BY <1>1, <2>1 DEF Begin, locals, LocalsAre
  <2>3. \/ Translates /\ Goto(t, "place")
        \/ ~Translates /\ Goto(t, "first")
    BY <1>1 DEF Begin, Translates
  <2>4. InBegin(t, c, p)'
    <3>1. "place" \in Steps /\ "first" \in Steps /\ "place" \notin Barriers
          /\ "first" \notin Barriers
      BY DEF Steps, Barriers, Synchronized
    <3>2. CASE Translates /\ Goto(t, "place")
      BY <3>1, <3>2, <2>2, MovesTo, Same DEF InBegin, At
    <3>3. CASE ~Translates /\ Goto(t, "first")
      BY <3>1, <3>3, <2>2, MovesTo, Same DEF InBegin, At, Enters
    <3> QED
      BY <2>3, <3>2, <3>3
  <2> QED
    BY <2>1, <2>4 DEF InPhase
<1>2. CASE Place(t)
  <2>1. s = "begin" /\ LocalsAre(t, c, p) /\ Translates
    BY <1>2, PhaseAt DEF Place, At
  <2>2. LocalsAre(t, c, p)' /\ index'[t] = 0
    BY <1>2, <2>1 DEF Place, LocalsAre, Locals
  <2>3. AtBarrier(t, "loadFilter")'
    <3>1. "loadFilter" \in Steps /\ "loadFilter" \in Barriers
      BY DEF Steps, Barriers, Synchronized
    <3> QED
      BY <1>2, <3>1, MovesTo DEF Place, AtBarrier
  <2> QED
    BY <2>1, <2>2, <2>3, Same DEF InPhase, InBegin
<1>3. CASE KeepFilter(t)
  <2>1. s = "keepFilter" /\ LocalsAre(t, c, p) /\ index[t] = i
    BY <1>3, PhaseAt DEF KeepFilter, At
  <2>2. LocalsAre(t, c, p)' /\ index'[t] = i + 1
    BY <1>3, <2>1 DEF KeepFilter, LocalsAre, Locals
  <2>3. \/ MoreFilter(i + 1) /\ Goto(t, "loadFilter")
        \/ ~MoreFilter(i + 1) /\ Goto(t, "silence")
    BY <1>3, <2>2 DEF KeepFilter, MoreFilter
  <2>4. InKeepFilter(t, c, p, i)'
    <3>1. "loadFilter" \in Steps /\ "loadFilter" \in Barriers
          /\ "silence" \in Steps /\ "silence" \notin Barriers
      BY DEF Steps, Barriers, Synchronized
    <3>2. CASE MoreFilter(i + 1) /\ Goto(t, "loadFilter")
      BY <3>1, <3>2, <2>2, MovesTo, Same DEF InKeepFilter, AtBarrier
    <3>3. CASE ~MoreFilter(i + 1) /\ Goto(t, "silence")
      BY <3>1, <3>3, <2>2, MovesTo, Same DEF InKeepFilter, At
    <3> QED
      BY <2>3, <3>2, <3>3
  <2> QED
    BY <2>1, <2>4 DEF InPhase
<1> QED
  BY <1>1, <1>2, <1>3

LEMMA LoopStepsKeepPhase ==
  ASSUME Launched, Locals, NEW t \in Threads, NEW s, NEW c, NEW p, NEW i,
         InPhase(s, t, c, p, i), First(t) \/ Loop(t), UNCHANGED launch
  PROVE  InPhase(s, t, c, p, i)'
<1> DEFINE Entering == \/ s = "begin" /\ ~Translates
                       \/ s = "keepFilter" /\ ~MoreFilter(i + 1)
<1>1. segmentZeroSamples' = segmentZeroSamples
  BY DEF First, Loop, position
<1>2. Entering /\ Enters(t)' => InPhase(s, t, c, p, i)'
  BY Same DEF InPhase, InBegin, InKeepFilter
<1>3. iteration \in Int /\ params.grain \in Int /\ 0 < params.grain
      /\ segmentZeroSamples \in Int
  BY BlockSizes, SMT DEF Launched
<1>4. /\ "load" \in Steps /\ "transform" \in Steps /\ "loop" \in Steps /\ "done" \in Steps
      /\ "load" \notin Barriers /\ "done" \notin Barriers
  BY DEF Steps, Barriers, Synchronized
<1>5. CASE First(t)
  <2>1. Entering /\ Enters(t)
    BY <1>5, PhaseAt, SMT DEF First, At
  <2>2. CASE segmentZeroSamples # 0
    <3>1. piece'[t] = EnteringPiece /\ cursor'[t] = piece'[t] /\ Goto(t, "load")
      BY <1>5, <2>2 DEF First, EnteringPiece, Locals
    <3>2. LocalsAre(t, EnteringCursor, EnteringPiece)'
      BY <1>1, <2>2, <3>1, Same DEF LocalsAre, EnteringCursor
    <3>3. At(t, "load")'
      BY <1>4, <3>1, MovesTo DEF At
    <3> QED
      BY <1>2, <2>1, <3>2, <3>3 DEF Enters, Loads
  <2>3. CASE segmentZeroSamples = 0
    <3>1. cursor'[t] = 0 /\ GotoBehind(t, "loop", FALSE)
      BY <1>5, <2>3 DEF First, Locals
    <3>2. At(t, "loop")'
      BY <1>4, <3>1, Moves DEF At
    <3> QED
      BY <1>1, <1>2, <2>1, <2>3, <3>1, <3>2 DEF Enters
  <2> QED
    BY <2>2, <2>3
<1>6. CASE Loop(t)
  <2>1. \/ Entering /\ Enters(t)
        \/ s = "loop" /\ InLoop(t, c, p)
    BY <1>6, PhaseAt, SMT DEF Loop, At
  <2>2. pc[t] = "loop" /\ ~waiting[t]
    BY <1>6 DEF Loop, At
  <2>3. CASE cursor[t] < params.grain
    <3>1. /\ piece'[t] = PieceFrom(cursor[t]) /\ cursor'[t] = cursor[t] + iteration
          /\ Goto(t, "load")
      BY <1>6, <2>3 DEF Loop, PieceFrom, Locals, Stride
    <3>2. At(t, "load")'
      BY <1>4, <3>1, MovesTo DEF At
    <3>3. CASE Entering /\ Enters(t)
      <4>1. segmentZeroSamples = 0 /\ cursor[t] = 0
        BY <2>2, <3>3 DEF Enters, At, Loads, AtBarrier
      <4>2. LocalsAre(t, EnteringCursor, EnteringPiece)'
        <5>1. EnteringCursor = iteration /\ EnteringPiece = PieceFrom(0)
          BY <4>1 DEF EnteringCursor, EnteringPiece
        <5>2. piece'[t] = PieceFrom(0) /\ cursor'[t] = iteration
          BY <3>1, <4>1, <1>3
        <5> QED
          BY <1>1, <5>1, <5>2, Same DEF LocalsAre
      <4> QED
        BY <1>2, <3>2, <3>3, <4>2 DEF Enters, Loads
    <3>4. CASE s = "loop" /\ InLoop(t, c, p)
      <4>1. cursor[t] = c
        BY <2>2, <3>4 DEF InLoop, At, Loads, AtBarrier, InDone, LocalsAre
      <4> QED
        BY <2>3, <3>1, <3>2, <3>4, <4>1, Same DEF InPhase, InLoop, Loads, LocalsAre
    <3> QED
      BY <2>1, <3>3, <3>4
  <2>4. CASE ~(cursor[t] < params.grain)
    <3>1. Goto(t, "done") /\ UNCHANGED <<piece, cursor>>
      BY <1>6, <2>4 DEF Loop
    <3>2. s = "loop" /\ InLoop(t, c, p)
      BY <1>3, <2>1, <2>2, <2>4 DEF Enters, At, Loads, AtBarrier
    <3>3. LocalsAre(t, c, p)
      BY <2>2, <3>2 DEF InLoop, At, Loads, AtBarrier, InDone
    <3>4. InDone(t, c, p)'
      BY <1>4, <3>1, <3>3, MovesTo DEF InDone, At, LocalsAre
    <3> QED
      BY <2>4, <3>2, <3>3, <3>4, Same DEF InPhase, InLoop, LocalsAre
  <2> QED
    BY <2>3, <2>4
<1> QED
  BY <1>5, <1>6

LEMMA RoundsGoOn ==
  /\ 0 \in Rounds /\ Rounds \subseteq Nat
  /\ \A j \in Rounds : j + BlockSize \in Rounds
<1>1. BlockSize \in Nat
  BY BlockSizes
<1>2. 0 * BlockSize = 0 /\ 0 \in Nat
  BY <1>1, SMT
<1>3. \A q \in Nat : q * BlockSize \in Nat
  BY <1>1, SMT
<1>4. \A q \in Nat : q * BlockSize + BlockSize = (q + 1) * BlockSize /\ q + 1 \in Nat
  BY <1>1, SMT
<1> QED
  BY <1>2, <1>3, <1>4, Zenon DEF Rounds

LEMMA CarryStepsKeepPhase ==
  ASSUME Launched, Locals, NEW t \in Threads, NEW s, NEW c, NEW p, NEW i \in Int,
         InPhase(s, t, c, p, i), Carry(t) \/ CarryRead(t) \/ CarryWrite(t),
         UNCHANGED launch
  PROVE  InPhase(s, t, c, p, i)'
<1>1. /\ iteration \in Nat \ {0} /\ overlaps \in Int /\ index[t] \in Int
      /\ BlockSize \in Nat \ {0}
  BY BlockSizes, SMT DEF Launched, Locals
<1>2. segmentZeroSamples' = segmentZeroSamples
  BY DEF Carry, CarryRead, CarryWrite, position
<1>3. LocalsAre(t, c, p) => LocalsAre(t, c, p)'
  BY DEF LocalsAre, Carry, CarryRead, CarryWrite, locals
<1>4. /\ "carryRead" \in Steps /\ "carryWrite" \in Steps /\ "advance" \in Steps
      /\ "carryRead" \notin Barriers /\ "advance" \in Barriers
  BY DEF Steps, Barriers, Synchronized
<1>5. Rounds' = Rounds
  BY DEF Rounds
<1>6. CASE Carry(t)
  <2>1. s = "carry" /\ LocalsAre(t, c, p)
    BY <1>6, PhaseAt DEF Carry, At
  <2>2. index'[t] = 0
    BY <1>6 DEF Carry, Locals
  <2>3. CASE Completes(t)
    <3>1. At(t, "carryRead")'
      BY <1>4, <1>6, <2>3, MovesTo DEF Carry, At
    <3>2. Carries(t, 0)'
      BY <2>2, <3>1, RoundsGoOn, <1>5 DEF Carries
    <3> QED
      BY <1>2, <1>3, <2>1, <2>3, <3>2, Same DEF InPhase, InCarry, Completes, LocalsAre
  <2>4. CASE ~Completes(t)
    <3>1. AtBarrier(t, "advance")'
      BY <1>4, <1>6, <2>4, MovesTo DEF Carry, AtBarrier
    <3> QED
      BY <1>2, <1>3, <2>1, <2>4, <3>1, Same DEF InPhase, InCarry, Completes, LocalsAre
  <2> QED
    BY <2>3, <2>4
<1>7. ASSUME NEW j \in Int, Carries(t, j), CarryRead(t)
      PROVE  Carries(t, j)'
  <2>1. index'[t] = index[t] /\ GotoBehind(t, "carryWrite", CarryWaits(t))
    BY <1>7 DEF CarryRead, locals
  <2>2. pc[t] = "carryRead" /\ ~waiting[t]
    BY <1>7 DEF CarryRead, At
  <2>3. /\ index[t] \in Rounds
        /\ \/ index[t] = j
           \/ ~(j + iteration < overlaps) /\ index[t] >= j
    BY <1>7, <2>2 DEF Carries, At, AtBarrier
  <2>4. CarryWaits(t) \in BOOLEAN
    BY DEF CarryWaits
  <2>5. pc'[t] = "carryWrite" /\ (waiting'[t] <=> CarryWaits(t))
    BY <1>4, <2>1, <2>4, Moves
  <2>6. CASE CarryWaits(t)
    <3>1. index[t] = j /\ j + iteration < overlaps
      BY <1>1, <2>3, <2>6 DEF CarryWaits
    <3> QED
      BY <1>5, <2>1, <2>3, <2>5, <2>6, <3>1, Same DEF Carries, AtBarrier
  <2>7. CASE ~CarryWaits(t)
    <3>1. ~(j + iteration < overlaps) /\ index[t] >= j
      BY <1>1, <2>3, <2>7 DEF CarryWaits
    <3> QED
      BY <1>5, <2>1, <2>3, <2>5, <2>7, <3>1, Same DEF Carries, At
  <2> QED
    BY <2>6, <2>7
<1>8. ASSUME NEW j \in Int, CarryWrite(t), index[t] \in Rounds,
             \/ index[t] + BlockSize = j
             \/ ~(j + iteration < overlaps) /\ index[t] >= j
      PROVE  Carries(t, j)'
  <2>1. index'[t] = index[t] + BlockSize
    BY <1>8 DEF CarryWrite, Locals
  <2>2. index'[t] \in Rounds
    BY <1>8, <2>1, RoundsGoOn
  <2>3. CASE index'[t] < overlaps
    <3>1. At(t, "carryRead")'
      BY <1>4, <1>8, <2>3, MovesTo DEF CarryWrite, At
    <3>2. \/ index'[t] = j
          \/ ~(j + iteration < overlaps) /\ index'[t] >= j
      BY <1>1, <1>8, <2>1
    <3> QED
      BY <1>5, <2>2, <3>1, <3>2, Same DEF Carries
  <2>4. CASE ~(index'[t] < overlaps)
    <3>1. AtBarrier(t, "advance")'
      BY <1>4, <1>8, <2>4, MovesTo DEF CarryWrite, AtBarrier
    <3>2. ~(j + iteration < overlaps) /\ index'[t] >= j
      BY <1>1, <1>8, <2>1, <2>4
    <3> QED
      BY <1>5, <2>2, <3>1, <3>2, Same DEF Carries
  <2> QED
    BY <2>3, <2>4
<1>9. CASE CarryRead(t) \/ CarryWrite(t)
  <2>1. /\ LocalsAre(t, c, p) /\ ~waiting[t]
        /\ \/ s = "carry" /\ segmentZeroSamples + p = iteration /\ Carries(t, 0)
           \/ s = "carryWrite" /\ InCarryWrite(t, i)
    BY <1>9, PhaseAt DEF CarryRead, CarryWrite, At
  <2>2. ASSUME NEW j \in Int, Carries(t, j)
        PROVE  Carries(t, j)'
    <3>1. CASE CarryWrite(t)
      <4>1. index[t] \in Rounds /\ ~(j + iteration < overlaps) /\ index[t] >= j
        BY <2>2, <3>1 DEF CarryWrite, Carries, At, AtBarrier
      <4> QED
        BY <1>8, <2>2, <3>1, <4>1
    <3> QED
      BY <1>7, <1>9, <2>2, <3>1
  <2>3. CASE s = "carry" /\ segmentZeroSamples + p = iteration /\ Carries(t, 0)
    BY <1>2, <1>3, <2>1, <2>2, <2>3, Same DEF InPhase, InCarry
  <2>4. CASE s = "carryWrite" /\ Carries(t, i + BlockSize)
    <3>1. Carries(t, i + BlockSize)'
      BY <1>1, <2>2, <2>4
    <3>2. Carries(t, i + BlockSize)' => InCarryWrite(t, i)'
      BY DEF InCarryWrite, BlockSize, FftLengthQuarter
    <3> QED
      BY <1>3, <2>1, <2>4, <3>1, <3>2 DEF InPhase
  <2>5. CASE s = "carryWrite" /\ At(t, "carryWrite") /\ index[t] = i /\ i \in Rounds
    <3>1. CarryWrite(t)
      BY <1>9, <2>5 DEF CarryRead, At
    <3>2. i + BlockSize \in Int
      BY <2>5, <1>1
    <3>3. Carries(t, i + BlockSize)'
      BY <1>8, <2>5, <3>1, <3>2
    <3>4. Carries(t, i + BlockSize)' => InCarryWrite(t, i)'
      BY DEF InCarryWrite, BlockSize, FftLengthQuarter
    <3> QED
      BY <1>3, <2>1, <2>5, <3>3, <3>4 DEF InPhase
  <2> QED
    BY <2>1, <2>3, <2>4, <2>5 DEF InCarryWrite
<1> QED
  BY <1>6, <1>9

LEMMA StraightStepsKeepPhase ==
  ASSUME Launched, Locals, NEW t \in Threads, NEW s, NEW c, NEW p, NEW i,
         InPhase(s, t, c, p, i), UNCHANGED launch,
         Branch(t) \/ Store(t) \/ Rotate(t) \/ Advance(t) \/ Proceed(t)
  PROVE  InPhase(s, t, c, p, i)'
<1>1. /\ cursor'[t] = cursor[t] /\ piece'[t] = piece[t] /\ index'[t] = index[t]
      /\ ~waiting[t]
  BY DEF Branch, Store, Rotate, Advance, Proceed, locals, At
<1>2. ~Advance(t) => segmentZeroSamples' = segmentZeroSamples
  BY DEF Branch, Store, Rotate, Proceed, position
<1>3. \A a, b : LocalsAre(t, a, b) => LocalsAre(t, a, b)'
  BY <1>1 DEF LocalsAre
<1>4. \A step \in Barriers \cap Steps : Goto(t, step) => AtBarrier(t, step)'
  BY MovesTo DEF AtBarrier
<1>5. \A step \in Steps \ Barriers : Goto(t, step) => At(t, step)'
  BY MovesTo DEF At
<1>6. CASE Branch(t)
  <2>1. s = "branch" /\ LocalsAre(t, c, p)
    BY <1>6, PhaseAt DEF Branch, At
  <2>2. "older" \in Steps \ Barriers /\ "add" \in Steps \ Barriers
    BY DEF Steps, Barriers, Synchronized
  <2>3. \/ segmentZeroSamples = 0 /\ Goto(t, "older")
        \/ segmentZeroSamples # 0 /\ Goto(t, "add")
    BY <1>6 DEF Branch
  <2>4. \/ segmentZeroSamples = 0 /\ At(t, "older")'
        \/ segmentZeroSamples # 0 /\ At(t, "add")'
    BY <1>5, <2>2, <2>3, Zenon
  <2> QED
    BY <1>2, <1>3, <1>6, <2>1, <2>4 DEF InPhase, InBranch, Branch, position
<1>7. CASE Store(t)
  <2>1. s = "store" /\ LocalsAre(t, c, p)
    BY <1>7, PhaseAt DEF Store, At
  <2>2. "expandOlder" \in Barriers \cap Steps /\ "rotate" \in Barriers \cap Steps
    BY DEF Steps, Barriers, Synchronized
  <2>3. \/ segments > 1 /\ p # iteration /\ Goto(t, "expandOlder")
        \/ ~(segments > 1 /\ p # iteration) /\ Goto(t, "rotate")
    BY <1>7, <2>1 DEF Store, Partial, LocalsAre
  <2>4. \/ segments > 1 /\ p # iteration /\ AtBarrier(t, "expandOlder")'
        \/ ~(segments > 1 /\ p # iteration) /\ AtBarrier(t, "rotate")'
    BY <1>4, <2>2, <2>3, Zenon
  <2> QED
    BY <1>3, <2>1, <2>4, Same DEF InPhase, InStore
<1>8. CASE Rotate(t)
  <2>1. s = "rotate" /\ LocalsAre(t, c, p)
    BY <1>8, PhaseAt DEF Rotate, At
  <2>2. "expand" \in Steps \ Barriers
    BY DEF Steps, Barriers, Synchronized
  <2>3. At(t, "expand")'
    BY <1>5, <1>8, <2>2 DEF Rotate
  <2> QED
    BY <1>3, <2>1, <2>3 DEF InPhase, InRotate
<1>9. CASE Advance(t)
  <2>1. s = "advance" /\ LocalsAre(t, c, p)
    BY <1>9, PhaseAt DEF Advance, At
  <2>2. "loop" \in Barriers \cap Steps
    BY DEF Steps, Barriers, Synchronized
  <2>3. AtBarrier(t, "loop")'
    BY <1>4, <1>9, <2>2 DEF Advance
  <2> QED
    BY <1>3, <2>1, <2>3 DEF InPhase
<1>10. CASE Proceed(t)
  <2>1. pc[t] \in DOMAIN After /\ Goto(t, After[pc[t]])
    BY <1>10 DEF Proceed
  <2>2. segmentZeroSamples' = segmentZeroSamples
    BY <1>10 DEF Proceed, position
  <2>3. \A step \in DOMAIN After : step # "silence" => After[step] \in Barriers \cap Steps
    BY AfterIs, SMT DEF Steps, Barriers, Synchronized
  <2>4. \A step : step = After[pc[t]] /\ pc[t] # "silence" => AtBarrier(t, step)'
    BY <1>4, <2>1, <2>3
  <2>5. CASE pc[t] \in FilterSteps \cup StraightSteps
    <3>1. pc[t] # "silence" /\ s = pc[t] /\ LocalsAre(t, c, p)
      BY <1>1, <2>5, PhaseAt, SMT DEF FilterSteps, StraightSteps
    <3>2. pc[t] \in FilterSteps => index[t] = i
      BY <1>1, PhaseAt, Zenon
    <3>3. \A step : step = After[s] => AtBarrier(t, step)'
      BY <2>4, <3>1
    <3>4. InStraight(t, s)'
      BY <3>3 DEF InStraight, After
    <3> QED
      BY <1>1, <1>3, <2>5, <3>1, <3>2, <3>4 DEF InPhase
  <2>6. CASE pc[t] = "silence"
    <3>1. s = "keepFilter" /\ ~MoreFilter(i + 1)
      BY <1>1, <2>6, PhaseAt
    <3>2. "first" \in Steps \ Barriers
      BY DEF Steps, Barriers, Synchronized
    <3>3. At(t, "first")'
      BY <1>5, <2>1, <2>6, <3>2, AfterIs
    <3> QED
      BY <3>1, <3>3, Same DEF InPhase, InKeepFilter, Enters
  <2>7. CASE pc[t] = "load"
    <3>1. AtBarrier(t, "transform")'
      BY <2>4, <2>7, AfterIs
    <3>2. \A a, b : Loads(t, a, b) => Loads(t, a, b)'
      BY <1>3, <3>1 DEF Loads
    <3>3. Enters(t) => Loads(t, EnteringCursor, EnteringPiece)
      BY <1>1, <2>7 DEF Enters, At
    <3>4. Loads(t, EnteringCursor, EnteringPiece) => Enters(t)'
      BY <2>2, <3>2, Same DEF Enters, Loads, LocalsAre, At, AtBarrier
    <3>5. InLoop(t, c, p) => c < params.grain /\ Loads(t, c + iteration, PieceFrom(c))
      BY <1>1, <2>7 DEF InLoop, InDone, At
    <3>6. c < params.grain /\ Loads(t, c + iteration, PieceFrom(c)) => InLoop(t, c, p)'
      BY <2>2, <3>2, Same DEF InLoop, Loads, LocalsAre, At, AtBarrier
    <3>7. \/ s = "begin" /\ ~Translates /\ Enters(t)'
          \/ s = "keepFilter" /\ ~MoreFilter(i + 1) /\ Enters(t)'
          \/ s = "loop" /\ InLoop(t, c, p)'
      BY <1>1, <2>7, <3>3, <3>4, <3>5, <3>6, PhaseAt
    <3> QED
      BY <3>7, Same DEF InPhase, InBegin, InKeepFilter
  <2>8. CASE pc[t] \in {"older", "add"}
    <3>1. /\ s = "branch" /\ LocalsAre(t, c, p)
          /\ \/ segmentZeroSamples = 0 /\ pc[t] = "older"
             \/ segmentZeroSamples # 0 /\ pc[t] = "add"
      BY <1>1, <2>8, PhaseAt
    <3>2. \/ segmentZeroSamples = 0 /\ AtBarrier(t, "multiply")'
          \/ segmentZeroSamples # 0 /\ AtBarrier(t, "multiplyFirst")'
      BY <2>4, <3>1, AfterIs
    <3> QED
      BY <1>3, <2>2, <3>1, <3>2 DEF InPhase, InBranch
  <2>9. CASE pc[t] = "expand"
    <3>1. s = "rotate" /\ LocalsAre(t, c, p)
      BY <1>1, <2>9, PhaseAt
    <3>2. AtBarrier(t, "transformBack")'
      BY <2>4, <2>9, AfterIs
    <3> QED
      BY <1>3, <3>1, <3>2 DEF InPhase, InRotate
  <2> QED
    BY <2>1, <2>5, <2>6, <2>7, <2>8, <2>9, AfterIs, SMT DEF FilterSteps, StraightSteps
<1> QED
  BY <1>6, <1>7, <1>8, <1>9, <1>10

LEMMA ThreadStepKeepsIInv ==
  ASSUME IInv, NEW t \in Threads, ThreadStep(t)
  PROVE  IInv'
<1>1. Launched /\ Locals /\ InOnePhase
  BY DEF IInv
<1>2. Launched' /\ Locals' /\ OthersStay(t) /\ UNCHANGED launch
  BY <1>1, StepTypes
<1>3. PICK s \in Phases, c \in Int, p \in Int, i \in Int :
        \A u \in Threads : InPhase(s, u, c, p, i)
  BY <1>1, Zenon DEF InOnePhase
<1>4. InPhase(s, t, c, p, i)'
  BY <1>1, <1>2, <1>3, InitStepsKeepPhase, LoopStepsKeepPhase, CarryStepsKeepPhase,
     StraightStepsKeepPhase, Zenon DEF ThreadStep
<1>5. ASSUME NEW u \in Threads \ {t}
      PROVE  InPhase(s, u, c, p, i)'
  <2>1. /\ pc'[u] = pc[u] /\ waiting'[u] = waiting[u]
        /\ cursor'[u] = cursor[u] /\ piece'[u] = piece[u] /\ index'[u] = index[u]
    BY <1>2 DEF OthersStay
  <2>2. \/ segmentZeroSamples' = segmentZeroSamples
        \/ s = "begin" /\ Translates
        \/ s = "advance"
    <3>1. CASE Place(t)
      BY <1>3, <3>1, PhaseAt DEF Place, At
    <3>2. CASE Advance(t)
      BY <1>3, <3>2, PhaseAt DEF Advance, At
    <3> QED
      BY <3>1, <3>2 DEF ThreadStep, Begin, KeepFilter, First, Loop, Branch, Store, Rotate,
         Carry, CarryRead, CarryWrite, Proceed, position
  <2> QED
    BY <1>2, <1>3, <2>1, <2>2, OthersKeepPhase, Zenon
<1>6. InOnePhase'
  <2>1. \A u \in Threads : InPhase(s, u, c, p, i)'
    BY <1>4, <1>5, Zenon
  <2> QED
    BY <2>1, Zenon DEF InOnePhase, Phases, FilterSteps, StraightSteps, Threads, BlockSize,
       FftLengthQuarter
<1> QED
  BY <1>2, <1>6 DEF IInv

-----------------------------------------------------------------------------
(* Behind a barrier the threads enter the phase of that name together.     *)

EnteredCursor(s, step, c) ==
  IF step # "transform" THEN c ELSE IF s = "loop" THEN c + iteration ELSE EnteringCursor

EnteredPiece(s, step, c, p) ==
  IF step # "transform" THEN p ELSE IF s = "loop" THEN PieceFrom(c) ELSE EnteringPiece

EnteredIndex(s, step, i) ==
  CASE s = "begin" \/ s = "carry" -> 0
    [] s = "keepFilter"           -> i + 1
    [] s = "carryWrite"           -> i + BlockSize
    [] OTHER                      -> i

LEMMA WaitsAt ==
  ASSUME NEW t, NEW s, NEW c, NEW p, NEW i, InPhase(s, t, c, p, i), waiting[t]
  PROVE  /\ pc[t] \in Barriers \cup {"carryWrite"} /\ pc[t] \in Phases
         /\ LocalsAre(t, EnteredCursor(s, pc[t], c), EnteredPiece(s, pc[t], c, p))
         /\ pc[t] \in FilterSteps \cup {"keepFilter", "carryWrite"} =>
              index[t] = EnteredIndex(s, pc[t], i)
         /\ pc[t] = "carryWrite" => index[t] \in Rounds
<1>1. \A step : ~At(t, step)
  BY DEF At
<1>2. \A step : AtBarrier(t, step) <=> pc[t] = step
  BY DEF AtBarrier
<1>3. ~InDone(t, c, p)
  BY <1>1 DEF InDone
<1>4. \A step : InStraight(t, step) => pc[t] = After[step]
  BY <1>1, <1>2 DEF InStraight
<1>5. Enters(t) => pc[t] = "transform" /\ LocalsAre(t, EnteringCursor, EnteringPiece)
  BY <1>1, <1>2 DEF Enters, Loads
<1>6. \A j : Carries(t, j) =>
               /\ pc[t] = "carryWrite" \/ pc[t] = "advance"
               /\ pc[t] = "carryWrite" => index[t] = j /\ index[t] \in Rounds
  BY <1>1, <1>2, SMT DEF Carries
<1>7. CASE s \in FilterSteps /\ InStraight(t, s) /\ LocalsAre(t, c, p) /\ index[t] = i
  <2>1. pc[t] \in {"transformFilter", "keepFilter"}
    BY <1>4, <1>7, AfterIs DEF FilterSteps
  <2>2. s \in {"loadFilter", "transformFilter"}
    BY <1>7 DEF FilterSteps
  <2> QED
    BY <1>7, <2>1, <2>2, SMT DEF EnteredCursor, EnteredPiece, EnteredIndex, Barriers,
       Synchronized, Phases, FilterSteps
<1>8. CASE s \in StraightSteps /\ InStraight(t, s) /\ LocalsAre(t, c, p)
  <2>1. pc[t] \in {"branch", "store", "transformOlder", "keepOverlap", "rotate",
                   "multiplyFirst", "output", "carry"}
    BY <1>4, <1>8, AfterIs, SMT DEF StraightSteps
  <2> QED
    BY <1>8, <2>1, SMT DEF EnteredCursor, EnteredPiece, Barriers, Synchronized, Phases,
       FilterSteps, StraightSteps
<1>9. CASE s = "begin" /\ InBegin(t, c, p)
  <2>1. \/ pc[t] = "loadFilter" /\ LocalsAre(t, c, p) /\ index[t] = 0
        \/ pc[t] = "transform" /\ LocalsAre(t, EnteringCursor, EnteringPiece)
    BY <1>1, <1>2, <1>5, <1>9 DEF InBegin
  <2> QED
    BY <1>9, <2>1, SMT DEF EnteredCursor, EnteredPiece, EnteredIndex, Barriers,
       Synchronized, Phases, FilterSteps, StraightSteps
<1>10. CASE s = "keepFilter" /\ InKeepFilter(t, c, p, i)
  <2>1. \/ pc[t] = "loadFilter" /\ LocalsAre(t, c, p) /\ index[t] = i + 1
        \/ pc[t] = "transform" /\ LocalsAre(t, EnteringCursor, EnteringPiece)
    BY <1>1, <1>2, <1>5, <1>10 DEF InKeepFilter
  <2> QED
    BY <1>10, <2>1, SMT DEF EnteredCursor, EnteredPiece, EnteredIndex, Barriers,
       Synchronized, Phases, FilterSteps, StraightSteps
<1>11. CASE s = "loop" /\ InLoop(t, c, p)
  <2>1. pc[t] = "transform" /\ LocalsAre(t, c + iteration, PieceFrom(c))
    BY <1>1, <1>2, <1>3, <1>11 DEF InLoop, Loads
  <2> QED
    BY <1>11, <2>1, SMT DEF EnteredCursor, EnteredPiece, Barriers, Synchronized, Phases,
       FilterSteps, StraightSteps
<1>12. CASE /\ LocalsAre(t, c, p)
            /\ \/ s = "branch" /\ InBranch(t)
               \/ s = "store" /\ InStore(t, p)
               \/ s = "rotate" /\ InRotate(t)
               \/ s = "advance" /\ (At(t, "advance") \/ AtBarrier(t, "loop"))
  <2>1. pc[t] \in {"multiply", "multiplyFirst", "expandOlder", "rotate", "transformBack",
                   "loop"}
    BY <1>1, <1>2, <1>12 DEF InBranch, InStore, InRotate
  <2> QED
    BY <1>12, <2>1, SMT DEF EnteredCursor, EnteredPiece, Barriers, Synchronized, Phases,
       FilterSteps, StraightSteps
<1>13. CASE /\ LocalsAre(t, c, p)
            /\ \/ s = "carry" /\ InCarry(t, p)
               \/ s = "carryWrite" /\ InCarryWrite(t, i)
  <2>1. /\ pc[t] = "carryWrite" \/ pc[t] = "advance"
        /\ pc[t] = "carryWrite" =>
             /\ index[t] \in Rounds
             /\ index[t] = IF s = "carry" THEN 0 ELSE i + BlockSize
    BY <1>1, <1>2, <1>6, <1>13 DEF InCarry, InCarryWrite
  <2>2. index[t] = EnteredIndex(s, pc[t], i) \/ pc[t] = "advance"
    BY <1>13, <2>1 DEF EnteredIndex
  <2>3. pc[t] \in Barriers \cup {"carryWrite"} /\ pc[t] \in Phases
    BY <2>1 DEF Barriers, Synchronized, Phases
  <2>4. EnteredCursor(s, pc[t], c) = c /\ EnteredPiece(s, pc[t], c, p) = p
    BY <2>1 DEF EnteredCursor, EnteredPiece
  <2>5. "advance" \notin FilterSteps \cup {"keepFilter", "carryWrite"}
    BY DEF FilterSteps
  <2> QED
    BY <1>13, <2>1, <2>2, <2>3, <2>4, <2>5
<1>14. \/ s \in FilterSteps /\ InStraight(t, s) /\ LocalsAre(t, c, p) /\ index[t] = i
       \/ s \in StraightSteps /\ InStraight(t, s) /\ LocalsAre(t, c, p)
       \/ s = "begin" /\ InBegin(t, c, p)
       \/ s = "keepFilter" /\ InKeepFilter(t, c, p, i)
       \/ s = "loop" /\ InLoop(t, c, p)
       \/ /\ LocalsAre(t, c, p)
          /\ \/ s = "branch" /\ InBranch(t)
             \/ s = "store" /\ InStore(t, p)
             \/ s = "rotate" /\ InRotate(t)
             \/ s = "advance" /\ (At(t, "advance") \/ AtBarrier(t, "loop"))
       \/ /\ LocalsAre(t, c, p)
          /\ \/ s = "carry" /\ InCarry(t, p)
             \/ s = "carryWrite" /\ InCarryWrite(t, i)
  BY <1>3 DEF InPhase
<1> QED
  BY <1>7, <1>8, <1>9, <1>10, <1>11, <1>12, <1>13, <1>14, Zenon

LEMMA EntersPhase ==
  ASSUME NEW t, NEW s \in Barriers \cup {"carryWrite"}, NEW c, NEW p, NEW i,
         At(t, s)', LocalsAre(t, c, p)',
         s \in FilterSteps \cup {"keepFilter", "carryWrite"} => index'[t] = i,
         s = "carryWrite" => index'[t] \in Rounds
  PROVE  InPhase(s, t, c, p, i)'
<1>1. CASE s \in FilterSteps \cup StraightSteps
  BY <1>1 DEF InPhase, InStraight, FilterSteps, StraightSteps
<1>2. CASE s = "keepFilter" \/ s = "loop" \/ s = "branch" \/ s = "store" \/ s = "rotate"
  BY <1>2 DEF InPhase, InKeepFilter, InLoop, InBranch, InStore, InRotate
<1>3. CASE s = "carry" \/ s = "carryWrite" \/ s = "advance"
  BY <1>3 DEF InPhase, InCarry, InCarryWrite, Rounds
<1> QED
  BY <1>1, <1>2, <1>3, SMT DEF Barriers, Synchronized, FilterSteps, StraightSteps

LEMMA SynchronizeKeepsIInv ==
  ASSUME IInv, Synchronize
  PROVE  IInv'
<1>1. Launched /\ Locals
  BY DEF IInv
<1>2. PICK s \in Phases, c \in Int, p \in Int, i \in Int :
        \A t \in Threads : InPhase(s, t, c, p, i)
  BY Zenon DEF IInv, InOnePhase
<1>3. /\ UNCHANGED <<launch, pc, locals, position>>
      /\ waiting' = [t \in Threads |-> FALSE]
  BY DEF Synchronize
<1>4. Launched' /\ Locals'
  <2>1. Launched'
    BY <1>1, <1>3, Zenon DEF Launched, launch, position, iteration, overlaps
  <2> QED
    BY <1>1, <1>3, <2>1 DEF Locals, locals
<1>5. PICK step : step = pc[0]
  OBVIOUS
<1>6. \A t \in Threads : waiting[t] /\ pc[t] = step
  BY <1>5, BlockSizes, Zenon DEF Synchronize
<1> DEFINE c2 == EnteredCursor(s, step, c)
           p2 == EnteredPiece(s, step, c, p)
           i2 == EnteredIndex(s, step, i)
<1>7. step \in Barriers \cup {"carryWrite"} /\ step \in Phases
  BY <1>2, <1>6, BlockSizes, WaitsAt
<1>8. ASSUME NEW t \in Threads, NEW c3, NEW p3, NEW i3, c3 = c2, p3 = p2, i3 = i2
      PROVE  InPhase(step, t, c3, p3, i3)'
  <2>1. /\ LocalsAre(t, c3, p3)
        /\ step \in FilterSteps \cup {"keepFilter", "carryWrite"} => index[t] = i3
        /\ step = "carryWrite" => index[t] \in Rounds
    BY <1>2, <1>6, <1>8, WaitsAt
  <2>2. At(t, step)'
    BY <1>3, <1>6 DEF At
  <2>3. LocalsAre(t, c3, p3)' /\ index'[t] = index[t] /\ Rounds' = Rounds
    BY <1>3, <2>1 DEF LocalsAre, locals, Rounds
  <2> QED
    BY <1>7, <2>1, <2>2, <2>3, EntersPhase
<1>9. c2 \in Int /\ p2 \in Int /\ i2 \in Int
  <2>1. /\ iteration \in Int /\ params.grain \in Int /\ Remaining \in Int
        /\ segmentZeroSamples \in Int /\ BlockSize \in Int
    BY <1>1, BlockSizes, SMT DEF Launched, Remaining
  <2>2. i2 \in Int
    BY <2>1 DEF EnteredIndex
  <2>3. PieceFrom(c) \in Int /\ PieceFrom(0) \in Int
    BY <2>1, SMT DEF PieceFrom, AtMost
  <2>4. EnteringPiece \in Int
    BY <2>1, <2>3, SMT DEF EnteringPiece, AtMost
  <2>5. EnteringCursor \in Int
    BY <2>1, <2>4 DEF EnteringCursor
  <2> QED
    BY <2>1, <2>2, <2>3, <2>4, <2>5 DEF EnteredCursor, EnteredPiece
<1>10. InOnePhase'
  <2>1. PICK c3 \in Int, p3 \in Int, i3 \in Int : c3 = c2 /\ p3 = p2 /\ i3 = i2
    BY <1>9
  <2>2. \A t \in Threads : InPhase(step, t, c3, p3, i3)'
    BY <1>8, <2>1
  <2> QED
    BY <1>7, <2>2, Zenon DEF InOnePhase, Phases, FilterSteps, StraightSteps, Threads,
       BlockSize, FftLengthQuarter
<1> QED
  BY <1>4, <1>10 DEF IInv

-----------------------------------------------------------------------------
(* A launch or a call begins when all threads have ended the one before.   *)

LEMMA ParametersTypes ==
  ASSUME NEW c \in Configs
  PROVE  LET launched == ParametersFor(c)
         IN  /\ launched.grain \in Nat \ {0} /\ launched.input_length \in Int
             /\ launched.input_samples_per_iteration \in FftLength .. 2 * FftLength
             /\ launched.overlap_length \in Int /\ launched.init_buffer_offset \in Int
             /\ launched.num_calls \in Int
             /\ InitOffsets(c.length, GrainFor(c.capacity), Rands) \subseteq Int
<1>1. /\ c.length \in Nat \ {0} /\ c.capacity \in Nat \ {0} /\ c.size \in Nat \ {0}
      /\ Rands \subseteq Nat
  BY BlockAssumption
<1>2. GrainFor(c.capacity) \in 1 .. FftLength
  BY <1>1, FftLengthAssumption, SMT DEF GrainFor, AtMost
<1>3. /\ InputSizePerIteration(c.length, GrainFor(c.capacity)) \in FftLength .. 2 * FftLength
      /\ OverlapLength(c.length) \in Int
  <2>1. GrainFor(c.capacity) \in 0 .. FftLength
    BY <1>2, FftLengthAssumption
  <2>2. /\ \A n \in FftLength .. 2 * FftLength - 1 : n \in FftLength .. 2 * FftLength
        /\ \A n \in 1 .. 2 * FftLength : n \in Int
    BY FftLengthAssumption
  <2> QED
    BY <1>1, <2>1, <2>2, GeometryTypes
<1>4. NumCalls(c.capacity, GrainFor(c.capacity)) \in Int
  BY <1>1, <1>2, FftLengthAssumption, SMT DEF NumCalls, DivUp
<1>5. InitOffsets(c.length, GrainFor(c.capacity), Rands) \subseteq Int
  <2>1. \A r \in Rands :
          (GrainFor(c.capacity) * r) % InputSizePerIteration(c.length, GrainFor(c.capacity))
            \in Int
    BY <1>1, <1>2, <1>3, FftLengthAssumption, SMT
  <2> QED
    BY <2>1 DEF InitOffsets
<1> QED
  BY <1>1, <1>2, <1>3, <1>4, <1>5, FftLengthAssumption
     DEF ParametersFor, LaunchParameters

LEMMA StartCallKeepsIInv ==
  ASSUME IInv, StartCall, Launched'
  PROVE  IInv'
<1>1. Locals
  BY DEF IInv
<1>2. PICK s \in Phases, c \in Int, p \in Int, i \in Int :
        \A t \in Threads : InPhase(s, t, c, p, i)
  BY Zenon DEF IInv, InOnePhase
<1>3. ASSUME NEW t \in Threads
      PROVE  LocalsAre(t, c, p) /\ ~waiting[t]
  <2>1. pc[t] = "done"
    BY DEF StartCall, Done
  <2>2. ~waiting[t]
    BY <1>2, <2>1, WaitsAt, SMT DEF Barriers, Synchronized
  <2> QED
    BY <1>2, <2>1, <2>2, PhaseAt DEF InDone
<1>4. /\ pc' = [t \in Threads |-> "begin"]
      /\ UNCHANGED <<waiting, locals, position>>
  BY DEF StartCall
<1>5. Locals'
  BY <1>1, <1>4 DEF Locals, locals, Steps
<1>6. \A t \in Threads : InPhase("begin", t, c, p, i)'
  <2>1. ASSUME NEW t \in Threads
        PROVE  At(t, "begin")' /\ LocalsAre(t, c, p)'
    BY <1>3, <1>4 DEF At, LocalsAre, locals
  <2> QED
    BY <2>1 DEF InPhase, InBegin
<1>7. InOnePhase'
  <2>1. "begin" \in Phases'
    BY DEF Phases
  <2>2. Threads' = Threads
    BY DEF Threads, BlockSize, FftLengthQuarter
  <2> QED
    BY <1>6, <2>1, <2>2, Zenon DEF InOnePhase
<1> QED
  BY <1>5, <1>7 DEF IInv

LEMMA StartsLaunched ==
  ASSUME Launched,
         NextCall \/ \E c \in Configs : LaunchInit(c) \/ LaunchNext(c)
  PROVE  Launched' /\ StartCall
<1>1. segmentZeroSamples' = segmentZeroSamples /\ StartCall
  BY DEF NextCall, LaunchInit, LaunchNext, StartCall, position
<1>2. CASE NextCall
  BY <1>1, <1>2, SMT DEF NextCall, Launched, iteration, overlaps
<1>3. ASSUME NEW c \in Configs, LaunchInit(c)
      PROVE  Launched'
  <2>1. PICK offset \in InitOffsets(c.length, GrainFor(c.capacity), Rands) :
          params' = [ParametersFor(c) EXCEPT !.filter_length_to_translate_init = c.length,
                                             !.init_buffer_offset = offset]
    BY <1>3 DEF LaunchInit
  <2>2. /\ params'.grain = ParametersFor(c).grain
        /\ params'.input_length = ParametersFor(c).input_length
        /\ iteration' = ParametersFor(c).input_samples_per_iteration
        /\ overlaps' = ParametersFor(c).overlap_length
        /\ params'.init_buffer_offset = offset
    BY <2>1 DEF ParametersFor, LaunchParameters, iteration, overlaps
  <2>3. call' = 0 /\ offset \in Int
    BY <1>3, <2>1, ParametersTypes DEF LaunchInit
  <2> QED
    BY <1>1, <2>2, <2>3, ParametersTypes DEF Launched
<1>4. ASSUME NEW c \in Configs, LaunchNext(c)
      PROVE  Launched'
  <2>1. params' = ParametersFor(c) /\ call' = 0
    BY <1>4 DEF LaunchNext
  <2> QED
    BY <1>1, <2>1, ParametersTypes DEF Launched, iteration, overlaps
<1> QED
  BY <1>1, <1>2, <1>3, <1>4

THEOREM InitIInv == Init => IInv
<1> SUFFICES ASSUME Init PROVE IInv
  OBVIOUS
<1>1. /\ config \in Configs /\ params = ParametersFor(config) /\ call = params.num_calls
      /\ pc = [t \in Threads |-> "done"] /\ waiting = [t \in Threads |-> FALSE]
      /\ cursor = [t \in Threads |-> 0] /\ piece = cursor /\ index = cursor
      /\ segmentZeroSamples = 0
  BY DEF Init
<1>2. Launched
  BY <1>1, ParametersTypes DEF Launched, iteration, overlaps
<1>3. Locals
  BY <1>1 DEF Locals, Steps
<1>4. \A t \in Threads : InPhase("done", t, 0, 0, 0)
  BY <1>1 DEF InPhase, InDone, At, LocalsAre
<1>5. InOnePhase
  BY <1>4 DEF InOnePhase, Phases
<1> QED
  BY <1>2, <1>3, <1>5 DEF IInv

THEOREM NextIInv == IInv /\ [Next]_vars => IInv'
<1> SUFFICES ASSUME IInv, [Next]_vars PROVE IInv'
  OBVIOUS
<1>1. CASE \E c \in Configs : LaunchInit(c) \/ LaunchNext(c)
  BY <1>1, StartsLaunched, StartCallKeepsIInv DEF IInv
<1>2. CASE NextCall
  BY <1>2, StartsLaunched, StartCallKeepsIInv DEF IInv
<1>3. CASE Synchronize
  BY <1>3, SynchronizeKeepsIInv
<1>4. CASE \E t \in Threads : ThreadStep(t)
  BY <1>4, ThreadStepKeepsIInv
<1>5. CASE UNCHANGED vars
  <2>1. /\ UNCHANGED <<launch, pc, waiting, cursor, piece, index, segmentZeroSamples>>
        /\ Launched /\ Locals
    BY <1>5 DEF vars, locals, position, IInv
  <2>2. Launched'
    BY <2>1, Zenon DEF Launched, launch, iteration, overlaps
  <2>3. Locals'
    BY <2>1, Zenon DEF Locals, Threads, BlockSize, FftLengthQuarter, Steps
  <2>4. PICK s \in Phases, c \in Int, p \in Int, i \in Int :
          \A t \in Threads : InPhase(s, t, c, p, i)
    BY Zenon DEF IInv, InOnePhase
  <2>5. \A t \in Threads : InPhase(s, t, c, p, i)'
    BY <2>1, <2>4, OthersKeepPhase
  <2> QED
    BY <2>2, <2>3, <2>5, Zenon DEF IInv, InOnePhase, Phases, FilterSteps, StraightSteps,
       Threads, BlockSize, FftLengthQuarter
<1> QED
  BY <1>1, <1>2, <1>3, <1>4, <1>5 DEF Next

THEOREM IInvAlways == Spec => []IInv
  BY InitIInv, NextIInv, PTL DEF Spec

-----------------------------------------------------------------------------
(* All threads take the same branches.                                     *)

(* The barrier behind a phase.                                             *)
Successor(s, p, i) ==
  CASE s \in FilterSteps \cup StraightSteps -> After[s]
    [] s = "begin"      -> IF Translates THEN "loadFilter" ELSE "transform"
    [] s = "keepFilter" -> IF MoreFilter(i + 1) THEN "loadFilter" ELSE "transform"
    [] s = "loop"       -> "transform"
    [] s = "branch"     -> IF segmentZeroSamples = 0 THEN "multiply" ELSE "multiplyFirst"
    [] s = "store"      -> IF segments > 1 /\ p # iteration THEN "expandOlder" ELSE "rotate"
    [] s = "rotate"     -> "transformBack"
    [] s = "carry"      -> IF segmentZeroSamples + p = iteration /\ 0 + iteration < overlaps
                           THEN "carryWrite" ELSE "advance"
    [] s = "carryWrite" -> IF (i + BlockSize) + iteration < overlaps
                           THEN "carryWrite" ELSE "advance"
    [] s = "advance"    -> "loop"

LEMMA WaitsForSuccessor ==
  ASSUME NEW t, NEW s, NEW c, NEW p, NEW i, InPhase(s, t, c, p, i), waiting[t]
  PROVE  /\ pc[t] = Successor(s, p, i) /\ s # "done"
         /\ s = "loop" => c < params.grain
<1>1. \A step : ~At(t, step)
  BY DEF At
<1>2. \A step : AtBarrier(t, step) <=> pc[t] = step
  BY DEF AtBarrier
<1>3. ~InDone(t, c, p)
  BY <1>1 DEF InDone
<1>4. Enters(t) => pc[t] = "transform"
  BY <1>1, <1>2 DEF Enters, Loads
<1>5. \A j : Carries(t, j) =>
               pc[t] = IF j + iteration < overlaps THEN "carryWrite" ELSE "advance"
  BY <1>1, <1>2 DEF Carries
<1>6. CASE s \in FilterSteps \cup StraightSteps /\ InStraight(t, s)
  <2>1. pc[t] = After[s]
    BY <1>1, <1>2, <1>6 DEF InStraight
  <2> QED
    BY <1>6, <2>1, SMT DEF Successor, FilterSteps, StraightSteps
<1>7. CASE s = "begin" /\ InBegin(t, c, p)
  BY <1>1, <1>2, <1>4, <1>7, SMT DEF InBegin, Successor, FilterSteps, StraightSteps
<1>8. CASE s = "keepFilter" /\ InKeepFilter(t, c, p, i)
  BY <1>1, <1>2, <1>4, <1>8, SMT DEF InKeepFilter, Successor, FilterSteps, StraightSteps
<1>9. CASE s = "loop" /\ InLoop(t, c, p)
  BY <1>1, <1>2, <1>3, <1>9, SMT DEF InLoop, Loads, Successor, FilterSteps, StraightSteps
<1>10. CASE s = "branch" /\ InBranch(t)
  BY <1>1, <1>2, <1>10, SMT DEF InBranch, Successor, FilterSteps, StraightSteps
<1>11. CASE s = "store" /\ InStore(t, p)
  BY <1>1, <1>2, <1>11, SMT DEF InStore, Successor, FilterSteps, StraightSteps
<1>12. CASE s = "rotate" /\ InRotate(t)
  BY <1>1, <1>2, <1>12, SMT DEF InRotate, Successor, FilterSteps, StraightSteps
<1>13. CASE s = "carry" /\ InCarry(t, p)
  BY <1>1, <1>2, <1>5, <1>13, SMT DEF InCarry, Successor, FilterSteps, StraightSteps
<1>14. CASE s = "carryWrite" /\ InCarryWrite(t, i)
  BY <1>1, <1>5, <1>14, SMT DEF InCarryWrite, Successor, FilterSteps, StraightSteps
<1>15. CASE s = "advance" /\ AtBarrier(t, "loop")
  BY <1>2, <1>15, SMT DEF Successor, FilterSteps, StraightSteps
<1>16. \/ s \in FilterSteps \cup StraightSteps /\ InStraight(t, s)
       \/ s = "begin" /\ InBegin(t, c, p)
       \/ s = "keepFilter" /\ InKeepFilter(t, c, p, i)
       \/ s = "loop" /\ InLoop(t, c, p)
       \/ s = "branch" /\ InBranch(t)
       \/ s = "store" /\ InStore(t, p)
       \/ s = "rotate" /\ InRotate(t)
       \/ s = "carry" /\ InCarry(t, p)
       \/ s = "carryWrite" /\ InCarryWrite(t, i)
       \/ s = "advance" /\ AtBarrier(t, "loop")
  BY <1>1, <1>3 DEF InPhase
<1> QED
  BY <1>6, <1>7, <1>8, <1>9, <1>10, <1>11, <1>12, <1>13, <1>14, <1>15, <1>16, Zenon

LEMMA IInvAgree == IInv => ThreadsAgree
<1> SUFFICES ASSUME IInv, NEW t \in Threads, NEW u \in Threads, waiting[t]
             PROVE  /\ pc[u] # "done"
                    /\ waiting[u] =>
                         pc[t] = pc[u] /\ piece[t] = piece[u] /\ cursor[t] = cursor[u]
  BY DEF ThreadsAgree
<1>1. PICK s \in Phases, c \in Int, p \in Int, i \in Int :
        \A v \in Threads : InPhase(s, v, c, p, i)
  BY Zenon DEF IInv, InOnePhase
<1>2. pc[u] # "done"
  <2>1. SUFFICES ASSUME pc[u] = "done" PROVE FALSE
    OBVIOUS
  <2>2. ~waiting[u]
    BY <1>1, <2>1, WaitsAt, SMT DEF Barriers, Synchronized
  <2>3. s = "loop" /\ c < params.grain
    BY <1>1, <2>1, <2>2, PhaseAt, WaitsForSuccessor
  <2>4. InLoop(u, c, p)
    BY <1>1, <2>3, SMT DEF InPhase, FilterSteps, StraightSteps
  <2> QED
    BY <2>1, <2>3, <2>4 DEF InLoop, Loads, At, AtBarrier
<1>3. ASSUME waiting[u]
      PROVE  pc[t] = pc[u] /\ piece[t] = piece[u] /\ cursor[t] = cursor[u]
  <2>1. pc[t] = pc[u]
    BY <1>1, <1>3, WaitsForSuccessor
  <2>2. \A v \in {t, u} :
          LocalsAre(v, EnteredCursor(s, pc[v], c), EnteredPiece(s, pc[v], c, p))
    BY <1>1, <1>3, WaitsAt
  <2> QED
    BY <2>1, <2>2 DEF LocalsAre
<1> QED
  BY <1>2, <1>3

(* No thread waits at a barrier another never comes to, nor works on       *)
(* another piece of the input, whatever the position says in between; in   *)
(* launches as BlockAssumption and LaunchInit have them.                   *)
THEOREM BarriersMatch == Spec => []ThreadsAgree
  BY IInvAlways, IInvAgree, PTL

-----------------------------------------------------------------------------
(* No two threads touch a cell at once.                                    *)

Transforms == {"transform", "transformOlder", "transformBack", "transformFilter"}

LEMMA ReadsAre ==
  ASSUME NEW t, NEW x \in Reads(t)
  PROVE  \/ pc[t] \in {"first", "load", "branch", "carry"} /\ x \in Zero
         \/ pc[t] \in Transforms
         \/ pc[t] = "older" /\
              \/ x \in Offset \/ x \in Response(t, 1 .. segments - 1)
              \/ x \in Ring(t, {(segmentOffset + i) % segments : i \in 1 .. segments - 1})
         \/ pc[t] \in {"multiply", "multiplyFirst"} /\
              (x \in Own(t) \/ x \in Response(t, {0}))
         \/ pc[t] = "store" /\ (x \in Offset \/ x \in Own(t))
         \/ pc[t] = "keepOverlap" /\
              \/ x \in Overlap(Strided(t, piece[t], overlaps))
              \/ x \in Shared(Strided(t, piece[t], overlaps))
         \/ pc[t] = "add" /\
              (x \in Offset \/ x \in Own(t) \/ x \in Ring(t, {segmentOffset}))
         \/ pc[t] \in {"rotate", "advance"} /\ t = 0 /\ (x \in Zero \/ x \in Offset)
         \/ pc[t] = "output" /\
              (x \in Zero \/ x \in Overlap(Placed(t)) \/ x \in Shared(Placed(t)))
         \/ pc[t] = "carryRead" /\ x \in Overlap(CarriedOn(t))
         \/ pc[t] = "carryWrite" /\ x \in Shared(CarriedOn(t))
         \/ pc[t] = "keepFilter" /\ x \in Own(t)
<1>1. CASE pc[t] \in {"first", "load", "branch", "carry"}
  BY <1>1, SMT DEF Reads
<1>2. CASE pc[t] \in {"older", "multiply", "multiplyFirst", "store"}
  BY <1>2, SMT DEF Reads
<1>3. CASE pc[t] \in {"keepOverlap", "add", "rotate", "advance"}
  BY <1>3, SMT DEF Reads
<1>4. CASE pc[t] \in {"output", "carryRead", "carryWrite", "keepFilter"}
  BY <1>4, SMT DEF Reads
<1> QED
  BY <1>1, <1>2, <1>3, <1>4, SMT DEF Reads, Transforms

LEMMA WritesAre ==
  ASSUME NEW t, NEW x \in Writes(t)
  PROVE  \/ pc[t] \in {"loadFilter", "load", "expandOlder", "expand"} /\ x \in Own(t)
         \/ pc[t] \in Transforms
         \/ pc[t] \in {"place", "advance"} /\ t = 0 /\ x \in Zero
         \/ pc[t] = "keepFilter" /\ x \in Response(t, {index[t]})
         \/ pc[t] = "silence" /\
              \/ x \in Ring(t, 0 .. segments - 1)
              \/ x \in Overlap(Strided(t, 0, overlaps))
         \/ pc[t] = "store" /\ x \in Ring(t, {segmentOffset})
         \/ pc[t] = "keepOverlap" /\ x \in Overlap(Strided(t, piece[t], overlaps))
         \/ pc[t] = "add" /\ (x \in Own(t) \/ x \in Ring(t, {segmentOffset}))
         \/ pc[t] = "rotate" /\ t = 0 /\ x \in Offset
         \/ pc[t] = "output" /\ x \in Output(t, Strided(t, 0, piece[t]))
         \/ pc[t] = "carryWrite" /\ x \in Overlap(Carried(t))
<1>1. CASE pc[t] \in {"loadFilter", "load", "expandOlder", "expand", "place", "advance"}
  BY <1>1, SMT DEF Writes
<1>2. CASE pc[t] \in {"keepFilter", "silence", "store", "keepOverlap", "add"}
  BY <1>2, SMT DEF Writes
<1>3. CASE pc[t] \in {"rotate", "output", "carryWrite"}
  BY <1>3, SMT DEF Writes
<1> QED
  BY <1>1, <1>2, <1>3, SMT DEF Writes, Transforms

(* What kind of cell, and which.                                           *)
LEMMA Cells ==
  ASSUME NEW t, NEW x
  PROVE  /\ \A N : x \in Shared(N) => x[1] = "shared" /\ x[2] \in N
         /\ x \in Own(t) => x[1] = "shared" /\ x[2] \in Points /\ x[2] \div 2 \in Bins(t)
         /\ \A S : x \in Ring(t, S) => x[1] = "ring" /\ x[3] \in Bins(t)
         /\ \A S : x \in Response(t, S) => x[1] = "response" /\ x[3] \in Bins(t)
         /\ \A N : x \in Overlap(N) =>
              x[1] = "overlap" /\ x[2] \in N /\ x[2] \in 0 .. overlaps - 1
         /\ \A N : x \in Output(t, N) => x[1] = "output" /\ x[3] \in N
         /\ x \in Zero => x[1] = "segmentZeroSamples"
         /\ x \in Offset => x[1] = "segmentOffset"
<1>1. \A N : x \in Shared(N) => x[1] = "shared" /\ x[2] \in N /\ x[2] \in Points
  BY DEF Shared
<1>2. x \in Own(t) => x[1] = "shared" /\ x[2] \in Points /\ x[2] \div 2 \in Bins(t)
  BY <1>1 DEF Own
<1>3. \A S : x \in Ring(t, S) => x[1] = "ring" /\ x[3] \in Bins(t)
  BY DEF Ring
<1>4. \A S : x \in Response(t, S) => x[1] = "response" /\ x[3] \in Bins(t)
  BY DEF Response
<1>5. \A N : x \in Overlap(N) =>
         x[1] = "overlap" /\ x[2] \in N /\ x[2] \in 0 .. overlaps - 1
  BY DEF Overlap
<1>6. \A N : x \in Output(t, N) => x[1] = "output" /\ x[3] \in N
  BY DEF Output
<1>7. /\ x \in Zero => x[1] = "segmentZeroSamples"
      /\ x \in Offset => x[1] = "segmentOffset"
  BY DEF Zero, Offset
<1> QED
  BY <1>1, <1>2, <1>3, <1>4, <1>5, <1>6, <1>7, Zenon

(* Which cells of each kind a thread touches outside a transform.          *)
LEMMA OtherKinds ==
  ASSUME NEW t, NEW x
  PROVE  /\ x[1] # "shared" => x \notin Own(t) /\ \A N : x \notin Shared(N)
         /\ x[1] # "ring" => \A S : x \notin Ring(t, S)
         /\ x[1] # "response" => \A S : x \notin Response(t, S)
         /\ x[1] # "overlap" => \A N : x \notin Overlap(N)
         /\ x[1] # "output" => \A N : x \notin Output(t, N)
         /\ x[1] # "segmentZeroSamples" => x \notin Zero
         /\ x[1] # "segmentOffset" => x \notin Offset
  BY Cells, Zenon

LEMMA ReadKinds ==
  ASSUME NEW t, NEW x \in Reads(t), pc[t] \notin Transforms
  PROVE  /\ x[1] = "shared" =>
              x \in Own(t) \/ pc[t] \in {"keepOverlap", "output", "carryWrite"}
         /\ x[1] \in {"ring", "response"} => x[3] \in Bins(t)
         /\ x[1] = "overlap" =>
              \/ pc[t] = "keepOverlap" /\ x \in Overlap(Strided(t, piece[t], overlaps))
              \/ pc[t] = "output"
              \/ pc[t] = "carryRead" /\ x \in Overlap(CarriedOn(t))
         /\ x[1] = "segmentZeroSamples" =>
              t = 0 \/ pc[t] \in {"first", "load", "branch", "carry", "output"}
         /\ x[1] = "segmentOffset" => t = 0 \/ pc[t] \in {"older", "store", "add"}
         /\ x[1] # "output"
<1>1. CASE x[1] = "shared"
  <2>1. /\ x \notin Zero /\ x \notin Offset /\ \A N : x \notin Overlap(N)
        /\ \A S : x \notin Ring(t, S) /\ x \notin Response(t, S)
    BY <1>1, OtherKinds
  <2> QED
    BY <1>1, <2>1, ReadsAre
<1>2. CASE x[1] \in {"ring", "response"}
  <2>1. /\ x \notin Zero /\ x \notin Offset /\ x \notin Own(t)
        /\ \A N : x \notin Overlap(N) /\ x \notin Shared(N)
    BY <1>2, OtherKinds
  <2>2. \A S : x \in Ring(t, S) \/ x \in Response(t, S) => x[3] \in Bins(t)
    BY Cells
  <2> QED
    BY <1>2, <2>1, <2>2, ReadsAre
<1>3. CASE x[1] = "overlap"
  <2>1. /\ x \notin Zero /\ x \notin Offset /\ x \notin Own(t)
        /\ \A N : x \notin Shared(N)
        /\ \A S : x \notin Ring(t, S) /\ x \notin Response(t, S)
    BY <1>3, OtherKinds
  <2> QED
    BY <1>3, <2>1, ReadsAre
<1>4. CASE x[1] = "segmentZeroSamples"
  <2>1. /\ x \notin Offset /\ x \notin Own(t)
        /\ \A N : x \notin Shared(N) /\ x \notin Overlap(N)
        /\ \A S : x \notin Ring(t, S) /\ x \notin Response(t, S)
    BY <1>4, OtherKinds
  <2> QED
    BY <1>4, <2>1, ReadsAre
<1>5. CASE x[1] = "segmentOffset"
  <2>1. /\ x \notin Zero /\ x \notin Own(t)
        /\ \A N : x \notin Shared(N) /\ x \notin Overlap(N)
        /\ \A S : x \notin Ring(t, S) /\ x \notin Response(t, S)
    BY <1>5, OtherKinds
  <2> QED
    BY <1>5, <2>1, ReadsAre
<1>6. x[1] # "output"
  <2>1. SUFFICES ASSUME x[1] = "output" PROVE FALSE
    OBVIOUS
  <2>2. /\ x \notin Zero /\ x \notin Offset /\ x \notin Own(t)
        /\ \A N : x \notin Shared(N) /\ x \notin Overlap(N)
        /\ \A S : x \notin Ring(t, S) /\ x \notin Response(t, S)
    BY <2>1, OtherKinds
  <2> QED
    BY <2>2, ReadsAre
<1> QED
  BY <1>1, <1>2, <1>3, <1>4, <1>5, <1>6

LEMMA WriteKinds ==
  ASSUME NEW t, NEW x \in Writes(t), pc[t] \notin Transforms
  PROVE  /\ x[1] = "shared" =>
              /\ x \in Own(t)
              /\ pc[t] \in {"loadFilter", "load", "expandOlder", "expand", "add"}
         /\ x[1] \in {"ring", "response"} => x[3] \in Bins(t)
         /\ x[1] = "overlap" =>
              \/ pc[t] = "silence" /\ x \in Overlap(Strided(t, 0, overlaps))
              \/ pc[t] = "keepOverlap" /\ x \in Overlap(Strided(t, piece[t], overlaps))
              \/ pc[t] = "carryWrite" /\ x \in Overlap(Carried(t))
         /\ x[1] = "output" => pc[t] = "output" /\ x \in Output(t, Strided(t, 0, piece[t]))
         /\ x[1] = "segmentZeroSamples" => t = 0 /\ pc[t] \in {"place", "advance"}
         /\ x[1] = "segmentOffset" => t = 0 /\ pc[t] = "rotate"
         /\ x[1] \in {"shared", "ring", "response", "overlap", "output",
                      "segmentZeroSamples", "segmentOffset"}
<1>1. CASE x[1] = "shared"
  <2>1. /\ x \notin Zero /\ x \notin Offset
        /\ \A N : x \notin Overlap(N) /\ x \notin Output(t, N)
        /\ \A S : x \notin Ring(t, S) /\ x \notin Response(t, S)
    BY <1>1, OtherKinds
  <2> QED
    BY <1>1, <2>1, WritesAre
<1>2. CASE x[1] \in {"ring", "response"}
  <2>1. /\ x \notin Zero /\ x \notin Offset /\ x \notin Own(t)
        /\ \A N : x \notin Overlap(N) /\ x \notin Output(t, N)
    BY <1>2, OtherKinds
  <2>2. \A S : x \in Ring(t, S) \/ x \in Response(t, S) => x[3] \in Bins(t)
    BY Cells
  <2> QED
    BY <1>2, <2>1, <2>2, WritesAre
<1>3. CASE x[1] = "overlap"
  <2>1. /\ x \notin Zero /\ x \notin Offset /\ x \notin Own(t)
        /\ \A N : x \notin Output(t, N)
        /\ \A S : x \notin Ring(t, S) /\ x \notin Response(t, S)
    BY <1>3, OtherKinds
  <2> QED
    BY <1>3, <2>1, WritesAre
<1>4. CASE x[1] = "output"
  <2>1. /\ x \notin Zero /\ x \notin Offset /\ x \notin Own(t)
        /\ \A N : x \notin Overlap(N)
        /\ \A S : x \notin Ring(t, S) /\ x \notin Response(t, S)
    BY <1>4, OtherKinds
  <2> QED
    BY <1>4, <2>1, WritesAre
<1>5. CASE x[1] = "segmentZeroSamples"
  <2>1. /\ x \notin Offset /\ x \notin Own(t)
        /\ \A N : x \notin Overlap(N) /\ x \notin Output(t, N)
        /\ \A S : x \notin Ring(t, S) /\ x \notin Response(t, S)
    BY <1>5, OtherKinds
  <2> QED
    BY <1>5, <2>1, WritesAre
<1>6. CASE x[1] = "segmentOffset"
  <2>1. /\ x \notin Zero /\ x \notin Own(t)
        /\ \A N : x \notin Overlap(N) /\ x \notin Output(t, N)
        /\ \A S : x \notin Ring(t, S) /\ x \notin Response(t, S)
    BY <1>6, OtherKinds
  <2> QED
    BY <1>6, <2>1, WritesAre
<1>7. x[1] \in {"shared", "ring", "response", "overlap", "output",
                "segmentZeroSamples", "segmentOffset"}
  <2>1. SUFFICES ASSUME x[1] \notin {"shared", "ring", "response", "overlap", "output",
                                     "segmentZeroSamples", "segmentOffset"}
                 PROVE  FALSE
    OBVIOUS
  <2>2. /\ x \notin Zero /\ x \notin Offset /\ x \notin Own(t)
        /\ \A N : x \notin Overlap(N) /\ x \notin Output(t, N)
        /\ \A S : x \notin Ring(t, S) /\ x \notin Response(t, S)
    BY <2>1, OtherKinds
  <2> QED
    BY <2>2, WritesAre
<1> QED
  BY <1>1, <1>2, <1>3, <1>4, <1>5, <1>6, <1>7

(* Bins, and the points a loop with the stride of a block visits, belong   *)
(* to one thread each.                                                     *)
LEMMA OneThread ==
  ASSUME NEW t \in Threads, NEW u \in Threads, NEW k,
         \/ k \in Bins(t) /\ k \in Bins(u)
         \/ \E from, to : k \in Strided(t, from, to) /\ k \in Strided(u, from, to)
  PROVE  t = u
  BY DEF Bins, Strided

(* The threads at work in a phase.                                         *)
LEMMA Together ==
  ASSUME Locals, NEW t \in Threads, NEW u \in Threads, ~waiting[t], ~waiting[u],
         NEW s, NEW c, NEW p, NEW i, InPhase(s, t, c, p, i), InPhase(s, u, c, p, i)
  PROVE  /\ pc[t] \in FilterSteps \cup StraightSteps \cup {"store", "advance"} =>
              pc[u] = pc[t]
         /\ pc[t] = "place" => pc[u] \in {"begin", "place"}
         /\ pc[t] \in {"rotate", "expand"} => pc[u] \in {"rotate", "expand"}
         /\ pc[t] \in {"carry", "carryRead", "carryWrite"} =>
              pc[u] \in {"carry", "carryRead", "carryWrite"}
         /\ pc[t] \in {"branch", "older", "add"} => pc[u] \in {"branch", "older", "add"}
         /\ pc[t] \in {"keepFilter", "silence", "load"} =>
              pc[u] \in {"begin", "keepFilter", "silence", "first", "load", "loop", "done"}
<1>1. pc[t] \in Steps /\ pc[u] \in Steps
  BY DEF Locals
<1>2. pc[t] \in FilterSteps \cup StraightSteps \cup {"store", "advance"} => s = pc[t]
  BY PhaseAt
<1>3. pc[u] \in FilterSteps \cup StraightSteps \cup {"store", "advance"} => s = pc[u]
  BY PhaseAt
<1> QED
  BY <1>1, <1>2, <1>3, PhaseAt, SMT DEF Steps, FilterSteps, StraightSteps

(* The overlap moves down by one iteration.  A thread reads what another   *)
(* has yet to write only a round later, and a round that reads anything    *)
(* ends at a barrier.                                                      *)
LEMMA CarriesApart ==
  ASSUME Launched, Locals, NEW t \in Threads, NEW u \in Threads, t # u,
         NEW s, NEW c \in Int, NEW p \in Int, NEW i \in Int,
         InPhase(s, t, c, p, i), InPhase(s, u, c, p, i),
         At(t, "carryWrite"), At(u, "carryRead") \/ At(u, "carryWrite")
  PROVE  /\ index[t] + t # index[u] + u
         /\ pc[u] = "carryRead" =>
              \/ index[t] + t # index[u] + u + iteration
              \/ ~(index[u] + u + iteration < overlaps)
<1>1. /\ BlockSize \in Nat \ {0} /\ iteration \in Nat \ {0} /\ overlaps \in Int
      /\ t \in Nat /\ u \in Nat /\ t < BlockSize /\ u < BlockSize
      /\ index[t] \in Int /\ index[u] \in Int
  BY BlockSizes, SMT DEF Launched, Locals
<1>2. \/ s = "carry" /\ Carries(t, 0) /\ Carries(u, 0)
      \/ s = "carryWrite" /\ InCarryWrite(t, i) /\ InCarryWrite(u, i)
  BY PhaseAt, SMT DEF At
<1>3. index[t] \in Rounds /\ index[u] \in Rounds
  <2>1. \A v \in {t, u} : InCarryWrite(v, i) /\ ~waiting[v] => index[v] \in Rounds
    BY DEF InCarryWrite, Carries
  <2> QED
    BY <1>2, <2>1 DEF Carries, At
<1>4. index[t] + t # index[u] + u
  <2>1. PICK a \in Nat, b \in Nat : index[t] = a * BlockSize /\ index[u] = b * BlockSize
    BY <1>3 DEF Rounds
  <2>2. CASE a = b
    BY <1>1, <2>1, <2>2
  <2>3. CASE a > b
    <3>1. a * BlockSize >= b * BlockSize + BlockSize
      BY <1>1, <2>3, SMT
    <3> QED
      BY <1>1, <2>1, <3>1
  <2>4. CASE a < b
    <3>1. b * BlockSize >= a * BlockSize + BlockSize
      BY <1>1, <2>4, SMT
    <3> QED
      BY <1>1, <2>1, <3>1
  <2> QED
    BY <2>2, <2>3, <2>4
<1>5. ASSUME pc[u] = "carryRead", index[u] + u + iteration < overlaps
      PROVE  index[t] + t # index[u] + u + iteration
  <2>1. ASSUME NEW j \in Int, Carries(u, j)
        PROVE  index[u] = j /\ j + iteration < overlaps
    BY <1>1, <1>5, <2>1 DEF Carries, At, AtBarrier
  <2>2. ASSUME NEW j \in Int, Carries(t, j), Carries(u, j)
        PROVE  FALSE
    BY <2>1, <2>2 DEF Carries, At, AtBarrier
  <2>3. s = "carryWrite" /\ Carries(u, i + BlockSize) /\ index[t] = i
    <3>1. i + BlockSize \in Int /\ 0 \in Int
      BY <1>1
    <3>2. s = "carryWrite" /\ InCarryWrite(t, i) /\ InCarryWrite(u, i)
      BY <1>2, <2>2, <3>1
    <3>3. Carries(u, i + BlockSize)
      BY <1>5, <3>2 DEF InCarryWrite, At
    <3> QED
      BY <2>2, <3>1, <3>2, <3>3 DEF InCarryWrite
  <2>4. index[u] = i + BlockSize
    BY <1>1, <2>1, <2>3
  <2> QED
    BY <1>1, <2>3, <2>4
<1> QED
  BY <1>4, <1>5

LEMMA IInvNoRace == IInv => NoDataRace
<1> SUFFICES ASSUME IInv, NEW t \in Threads, NEW u \in Threads, t # u,
                    ~waiting[t], ~waiting[u], ~InOneTransform(t, u), NEW x \in Writes(t),
                    x \in Reads(u) \/ x \in Writes(u)
             PROVE  FALSE
  BY DEF NoDataRace
<1>1. Launched /\ Locals
  BY DEF IInv
<1>2. PICK s \in Phases, c \in Int, p \in Int, i \in Int :
        \A v \in Threads : InPhase(s, v, c, p, i)
  BY Zenon DEF IInv, InOnePhase
<1>3. InPhase(s, t, c, p, i) /\ InPhase(s, u, c, p, i)
  BY <1>2
<1>4. pc[t] \notin Transforms /\ pc[u] \notin Transforms
  <2>1. Transforms \subseteq FilterSteps \cup StraightSteps
    BY DEF Transforms, FilterSteps, StraightSteps
  <2>2. pc[t] \in Transforms \/ pc[u] \in Transforms => pc[t] = pc[u]
    BY <1>1, <1>3, <2>1, Together
  <2> QED
    BY <2>2 DEF InOneTransform, Transforms
<1>5. \A k : ~(k \in Bins(t) /\ k \in Bins(u))
  BY OneThread
<1>6. \A k, from, to : ~(k \in Strided(t, from, to) /\ k \in Strided(u, from, to))
  BY OneThread
<1>7. CASE x[1] = "shared"
  <2>1. x \in Own(t) /\ pc[t] \in {"loadFilter", "load", "expandOlder", "expand", "add"}
    BY <1>4, <1>7, WriteKinds
  <2>2. pc[u] \notin {"keepOverlap", "output", "carryWrite"}
    BY <1>1, <1>3, <2>1, Together, SMT DEF FilterSteps, StraightSteps
  <2>3. x \in Own(u)
    <3>1. x \in Reads(u) => x \in Own(u)
      BY <1>4, <1>7, <2>2, ReadKinds
    <3>2. x \in Writes(u) => x \in Own(u)
      BY <1>4, <1>7, <2>2, WriteKinds
    <3> QED
      BY <3>1, <3>2
  <2> QED
    BY <1>5, <2>1, <2>3, Cells
<1>8. CASE x[1] \in {"ring", "response"}
  <2>1. ASSUME NEW v \in {t, u}, x \in Reads(v) \/ x \in Writes(v)
        PROVE  x[3] \in Bins(v)
    <3>1. x \in Reads(v) => x[3] \in Bins(v)
      BY <1>4, <1>8, <2>1, ReadKinds
    <3>2. x \in Writes(v) => x[3] \in Bins(v)
      BY <1>4, <1>8, <2>1, WriteKinds
    <3> QED
      BY <2>1, <3>1, <3>2
  <2> QED
    BY <1>5, <2>1
<1>9. CASE x[1] = "overlap"
  <2>1. \/ pc[t] = "silence" /\ x \in Overlap(Strided(t, 0, overlaps))
        \/ pc[t] = "keepOverlap" /\ x \in Overlap(Strided(t, piece[t], overlaps))
        \/ pc[t] = "carryWrite" /\ x \in Overlap(Carried(t))
    BY <1>4, <1>9, WriteKinds
  <2>2. \/ pc[u] = "silence" /\ x \in Overlap(Strided(u, 0, overlaps))
        \/ pc[u] = "keepOverlap" /\ x \in Overlap(Strided(u, piece[u], overlaps))
        \/ pc[u] = "output"
        \/ pc[u] = "carryRead" /\ x \in Overlap(CarriedOn(u))
        \/ pc[u] = "carryWrite" /\ x \in Overlap(Carried(u))
    <3>1. x \in Reads(u) =>
            \/ pc[u] = "keepOverlap" /\ x \in Overlap(Strided(u, piece[u], overlaps))
            \/ pc[u] = "output"
            \/ pc[u] = "carryRead" /\ x \in Overlap(CarriedOn(u))
      BY <1>4, <1>9, ReadKinds
    <3>2. x \in Writes(u) =>
            \/ pc[u] = "silence" /\ x \in Overlap(Strided(u, 0, overlaps))
            \/ pc[u] = "keepOverlap" /\ x \in Overlap(Strided(u, piece[u], overlaps))
            \/ pc[u] = "carryWrite" /\ x \in Overlap(Carried(u))
      BY <1>4, <1>9, WriteKinds
    <3> QED
      BY <3>1, <3>2
  <2>3. CASE pc[t] = "silence"
    <3>1. pc[u] = "silence"
      BY <1>1, <1>3, <2>2, <2>3, Together, SMT
    <3>2. x[2] \in Strided(t, 0, overlaps) /\ x[2] \in Strided(u, 0, overlaps)
      BY <2>1, <2>2, <2>3, <3>1, Cells
    <3> QED
      BY <1>6, <3>2
  <2>4. CASE pc[t] = "keepOverlap"
    <3>1. pc[u] = "keepOverlap"
      BY <1>1, <1>3, <2>4, Together DEF StraightSteps
    <3>2. piece[t] = p /\ piece[u] = p
      BY <1>3, <2>4, <3>1, PhaseAt DEF StraightSteps, LocalsAre
    <3>3. x[2] \in Strided(t, p, overlaps) /\ x[2] \in Strided(u, p, overlaps)
      BY <2>1, <2>2, <2>4, <3>1, <3>2, Cells
    <3> QED
      BY <1>6, <3>3
  <2>5. CASE pc[t] = "carryWrite"
    <3>1. pc[u] \in {"carryRead", "carryWrite"}
      BY <1>1, <1>3, <2>2, <2>5, Together, SMT
    <3>2. At(t, "carryWrite") /\ (At(u, "carryRead") \/ At(u, "carryWrite"))
      BY <2>5, <3>1 DEF At
    <3>3. x[2] = index[t] + t
      BY <2>1, <2>5, Cells DEF Carried
    <3>4. CASE pc[u] = "carryRead"
      <4>1. x[2] = index[u] + u + iteration /\ x[2] \in 0 .. overlaps - 1
        BY <2>2, <3>4, Cells DEF CarriedOn
      <4>2. index[u] + u + iteration < overlaps
        BY <1>1, <4>1, SMT DEF Launched
      <4> QED
        BY <1>1, <1>3, <3>2, <3>3, <3>4, <4>1, <4>2, CarriesApart
    <3>5. CASE pc[u] = "carryWrite"
      <4>1. x[2] = index[u] + u
        BY <2>2, <3>5, Cells DEF Carried
      <4> QED
        BY <1>1, <1>3, <3>2, <3>3, <4>1, CarriesApart
    <3> QED
      BY <3>1, <3>4, <3>5
  <2> QED
    BY <2>1, <2>3, <2>4, <2>5
<1>10. CASE x[1] = "output"
  <2>1. pc[t] = "output" /\ x \in Output(t, Strided(t, 0, piece[t]))
    BY <1>4, <1>10, WriteKinds
  <2>2. pc[u] = "output" /\ x \in Output(u, Strided(u, 0, piece[u]))
    <3>1. x \notin Reads(u)
      BY <1>4, <1>10, ReadKinds
    <3> QED
      BY <1>4, <1>10, <3>1, WriteKinds
  <2>3. piece[t] = p /\ piece[u] = p
    BY <1>3, <2>1, <2>2, PhaseAt DEF StraightSteps, LocalsAre
  <2>4. x[3] \in Strided(t, 0, p) /\ x[3] \in Strided(u, 0, p)
    BY <2>1, <2>2, <2>3, Cells
  <2> QED
    BY <1>6, <2>4
<1>11. CASE x[1] = "segmentZeroSamples"
  <2>1. pc[t] \in {"place", "advance"} /\ t = 0
    BY <1>4, <1>11, WriteKinds
  <2>2. pc[u] \in {"begin", "place", "advance"}
    BY <1>1, <1>3, <2>1, Together
  <2>3. x \notin Reads(u) /\ x \notin Writes(u)
    BY <1>4, <1>11, <2>1, <2>2, ReadKinds, WriteKinds, SMT
  <2> QED
    BY <2>3
<1>12. CASE x[1] = "segmentOffset"
  <2>1. pc[t] = "rotate" /\ t = 0
    BY <1>4, <1>12, WriteKinds
  <2>2. pc[u] \in {"rotate", "expand"}
    BY <1>1, <1>3, <2>1, Together
  <2>3. x \notin Reads(u) /\ x \notin Writes(u)
    BY <1>4, <1>12, <2>1, <2>2, ReadKinds, WriteKinds, SMT
  <2> QED
    BY <2>3
<1> QED
  BY <1>4, <1>7, <1>8, <1>9, <1>10, <1>11, <1>12, WriteKinds

(* The barriers are enough: whatever one thread of a block writes, no other *)
(* reads or writes between the same two barriers; chunks reach into their  *)
(* last call, and filters that follow each other have equally many         *)
(* segments (BlockAssumption, LaunchInit).                                 *)
THEOREM BarriersSuffice == Spec => []NoDataRace
  BY IInvAlways, IInvNoRace, PTL

-----------------------------------------------------------------------------
(* Every thread implements FirPieces.  The invariant says, of the launch,  *)
(* of the position and of every thread's cursor, what the pieces depend    *)
(* on: cursor is already behind the piece a thread works at.               *)

LaunchIs(c) ==
  /\ c \in Configs /\ params.grain = GrainFor(c.capacity)
  /\ params.input_length = c.size
  /\ iteration = InputSizePerIteration(c.length, params.grain)
  /\ params.num_calls = NumCalls(c.capacity, params.grain)

Placing == Translates /\ pc[0] \in {"begin", "place"}

CursorBehind(t) ==
  /\ AtPiece(t) =>
       \/ /\ segmentZeroSamples # 0 /\ cursor[t] \in 0 .. iteration - 1
          /\ cursor[t] = EnteringPiece /\ piece[t] = cursor[t]
       \/ /\ cursor[t] - iteration \in 0 .. params.grain - 1
          /\ piece[t] = PieceFrom(cursor[t] - iteration)
  /\ AtPiece(t) \/ PieceTaken(t) => piece[t] \in Nat
  /\ AtPiece(t) \/ PieceTaken(t) \/ pc[t] = "loop" =>
       (cursor[t] < params.grain => cursor[t] <= Remaining)
  /\ PieceTaken(t) \/ pc[t] = "loop" => cursor[t] \in Nat
  /\ pc[t] = "done" /\ call < params.num_calls => cursor[t] >= params.grain

PInv ==
  /\ LaunchIs(config)
  /\ call \in 0 .. params.num_calls /\ (call = params.num_calls => Done)
  /\ Placing \/ segmentZeroSamples \in 0 .. iteration - 1
  /\ \A t \in Threads : CursorBehind(t)

LEMMA LaunchSizes ==
  ASSUME NEW c \in Configs
  PROVE  LET grain == GrainFor(c.capacity)
             calls == NumCalls(c.capacity, grain)
         IN  /\ grain \in Nat \ {0} /\ calls \in Nat \ {0} /\ c.length \in Nat \ {0}
             /\ InputSizePerIteration(c.length, grain) \in Nat \ {0}
             /\ grain <= InputSizePerIteration(c.length, grain)
             /\ \A k \in 0 .. calls - 1 : c.size - k * grain \in Nat \ {0}
<1> DEFINE grain == GrainFor(c.capacity)
           calls == NumCalls(c.capacity, grain)
<1>1. /\ c.length \in Nat \ {0} /\ c.capacity \in Nat \ {0} /\ c.size \in Nat \ {0}
      /\ c.size > (calls - 1) * grain
  BY BlockAssumption
<1>2. grain \in 1 .. FftLength /\ grain \in Nat \ {0}
  BY <1>1, FftLengthAssumption, SMT DEF GrainFor, AtMost
<1>3. /\ InputSizePerIteration(c.length, grain) \in Nat \ {0}
      /\ grain <= InputSizePerIteration(c.length, grain)
  BY <1>1, <1>2, FftLengthAssumption, SMT DEF InputSizePerIteration, AtLeast
<1>4. calls \in Nat \ {0}
  BY <1>1, <1>2, DivUpCovers DEF NumCalls
<1> HIDE DEF grain, calls
<1>5. ASSUME NEW k \in 0 .. calls - 1
      PROVE  c.size - k * grain \in Nat \ {0}
  <2>1. k * grain <= (calls - 1) * grain
    BY <1>2, <1>4, SMT
  <2>2. k * grain \in Int /\ (calls - 1) * grain \in Int
    BY <1>2, <1>4, SMT
  <2> QED
    BY <1>1, <2>1, <2>2, SMT
<1> QED
  BY <1>1, <1>2, <1>3, <1>4, <1>5 DEF grain, calls

(* While a call runs there is input left for it.                           *)
LEMMA InputRemains ==
  ASSUME PInv
  PROVE  /\ params.grain \in Nat \ {0} /\ iteration \in Nat \ {0} /\ call \in Nat
         /\ params.num_calls \in Nat \ {0} /\ params.grain <= iteration
         /\ call < params.num_calls => Remaining \in Nat \ {0}
<1>1. /\ params.grain \in Nat \ {0} /\ iteration \in Nat \ {0}
      /\ params.num_calls \in Nat \ {0} /\ params.grain <= iteration
  BY LaunchSizes DEF PInv, LaunchIs
<1>2. call \in Nat
  BY <1>1 DEF PInv
<1>3. ASSUME call < params.num_calls PROVE Remaining \in Nat \ {0}
  <2>1. call \in 0 .. params.num_calls - 1
    BY <1>1, <1>2, <1>3
  <2> QED
    BY <2>1, LaunchSizes DEF PInv, LaunchIs, Remaining
<1> QED
  BY <1>1, <1>2, <1>3

(* The position is read only when thread 0 has placed the channel, and     *)
(* stays while any thread works at a piece.                                *)
LEMMA PositionHeld ==
  ASSUME Locals, NEW t \in Threads, NEW s, NEW c, NEW p, NEW i,
         InPhase(s, t, c, p, i), InPhase(s, 0, c, p, i)
  PROVE  /\ At(t, "first") => ~PieceTaken(0) /\ ~Placing
         /\ At(0, "place") => Translates /\ ~AtPiece(t)
         /\ At(0, "advance") => ~AtPiece(t)
<1>1. s = "begin" /\ InBegin(t, c, p) =>
        pc[t] \in {"begin", "place", "loadFilter", "first", "loop", "load", "transform"}
        /\ (Translates => pc[t] \in {"begin", "place", "loadFilter"})
  BY DEF InBegin, Enters, Loads, At, AtBarrier
<1>2. s = "begin" /\ InBegin(0, c, p) =>
        pc[0] \in {"begin", "place", "loadFilter", "first", "loop", "load", "transform"}
  BY DEF InBegin, Enters, Loads, At, AtBarrier
<1>3. s = "keepFilter" /\ InKeepFilter(0, c, p, i) =>
        pc[0] \in {"keepFilter", "loadFilter", "silence", "first", "loop", "load", "transform"}
  BY DEF InKeepFilter, Enters, Loads, At, AtBarrier
<1>4. s \in {"begin", "keepFilter", "advance"} =>
        /\ s = "begin" => InBegin(t, c, p) /\ InBegin(0, c, p)
        /\ s = "keepFilter" => InKeepFilter(0, c, p, i)
        /\ s = "advance" => At(t, "advance") \/ AtBarrier(t, "loop")
  BY DEF InPhase, FilterSteps, StraightSteps
<1>5. ASSUME At(t, "first") PROVE ~PieceTaken(0) /\ ~Placing
  <2>1. (s = "begin" /\ ~Translates) \/ s = "keepFilter"
    BY <1>5, PhaseAt, SMT DEF At
  <2> QED
    BY <1>2, <1>3, <1>4, <2>1, SMT DEF PieceTaken, Placing, At
<1>6. ASSUME At(0, "place") PROVE Translates /\ ~AtPiece(t)
  <2>1. s = "begin" /\ Translates
    BY <1>6, PhaseAt DEF At
  <2> QED
    BY <1>1, <1>4, <2>1, SMT DEF AtPiece
<1>7. ASSUME At(0, "advance") PROVE ~AtPiece(t)
  <2>1. s = "advance"
    BY <1>7, PhaseAt DEF At
  <2> QED
    BY <1>4, <2>1, SMT DEF AtPiece, At, AtBarrier
<1> QED
  BY <1>5, <1>6, <1>7

(* Where a step leads: only First and Loop go from one part of a call to   *)
(* the next.                                                               *)
LEMMA StepStays ==
  ASSUME Locals, NEW t \in Threads, ThreadStep(t), ~First(t), ~Loop(t)
  PROVE  /\ UNCHANGED <<cursor, piece>>
         /\ \/ /\ BeforeFirst(t) /\ BeforeFirst(t)'
               /\ \/ Begin(t) \/ Place(t)
                  \/ pc[t] \notin {"begin", "place"} /\ pc'[t] \notin {"begin", "place"}
            \/ AtPiece(t) /\ AtPiece(t)'
            \/ /\ PieceTaken(t) /\ (At(t, "rotate") => Rotate(t)) /\ ~At(t, "rotate")'
               /\ PieceTaken(t)' \/ (Advance(t) /\ AtBarrier(t, "loop")')
<1>1. UNCHANGED <<cursor, piece>>
  BY DEF ThreadStep, Begin, Place, KeepFilter, Branch, Store, Rotate, Carry, CarryRead,
     CarryWrite, Advance, Proceed, locals
<1>2. \A step \in Steps : Goto(t, step) => pc'[t] = step /\ (waiting'[t] <=> step \in Barriers)
  BY MovesTo
<1>3. CASE Begin(t) \/ Place(t) \/ KeepFilter(t)
  <2>1. /\ \/ (Begin(t) \/ Place(t)) /\ pc[t] \in {"begin", "place"}
              /\ \E step \in {"place", "first", "loadFilter"} : Goto(t, step)
           \/ pc[t] = "keepFilter" /\ \E step \in {"loadFilter", "silence"} : Goto(t, step)
    BY <1>3 DEF Begin, Place, KeepFilter, At
  <2>2. \/ (Begin(t) \/ Place(t)) /\ pc[t] \in {"begin", "place"}
           /\ pc'[t] \in {"place", "first", "loadFilter"}
        \/ pc[t] = "keepFilter" /\ pc'[t] \in {"loadFilter", "silence"}
    BY <1>2, <2>1, SMT DEF Steps
  <2> QED
    BY <1>1, <2>1, <2>2, SMT DEF BeforeFirst
<1>4. CASE Branch(t) \/ Store(t)
  <2>1. pc[t] \in {"branch", "store"}
        /\ \E step \in {"older", "add", "expandOlder", "rotate"} : Goto(t, step)
    BY <1>4 DEF Branch, Store, At
  <2>2. \/ pc'[t] \in {"older", "add", "expandOlder"}
        \/ pc'[t] = "rotate" /\ waiting'[t]
    BY <1>2, <2>1, SMT DEF Steps, Barriers, Synchronized
  <2> QED
    BY <1>1, <2>1, <2>2, SMT DEF AtPiece
<1>5. CASE Rotate(t) \/ Carry(t) \/ CarryWrite(t)
  <2>1. /\ At(t, "rotate") \/ pc[t] \in {"carry", "carryWrite"}
        /\ At(t, "rotate") => Rotate(t)
        /\ \E step \in {"expand", "carryRead", "advance"} : Goto(t, step)
    BY <1>5 DEF Rotate, Carry, CarryWrite, At
  <2>2. pc'[t] \in {"expand", "carryRead", "advance"}
    BY <1>2, <2>1, SMT DEF Steps
  <2> QED
    BY <1>1, <2>1, <2>2, SMT DEF PieceTaken, At
<1>6. CASE CarryRead(t)
  <2>1. pc[t] = "carryRead" /\ pc'[t] = "carryWrite"
    BY <1>6 DEF CarryRead, At, GotoBehind, Locals
  <2> QED
    BY <1>1, <2>1, SMT DEF PieceTaken, At
<1>7. CASE Advance(t)
  <2>1. pc[t] = "advance" /\ pc'[t] = "loop" /\ waiting'[t]
    BY <1>2, <1>7, SMT DEF Advance, At, Steps, Barriers, Synchronized
  <2> QED
    BY <1>1, <1>7, <2>1, SMT DEF PieceTaken, At, AtBarrier
<1>8. CASE Proceed(t)
  <2>1. pc[t] \in DOMAIN After /\ Goto(t, After[pc[t]])
    BY <1>8 DEF Proceed
  <2>2. \A s \in DOMAIN After : After[s] \in Steps
    BY AfterIs, SMT DEF Steps
  <2>3. pc'[t] = After[pc[t]] /\ (waiting'[t] <=> After[pc[t]] \in Barriers)
    BY <1>2, <2>1, <2>2
  <2>4. CASE pc[t] \in {"loadFilter", "transformFilter", "silence"}
    BY <1>1, <2>3, <2>4, AfterIs, SMT DEF BeforeFirst
  <2>5. CASE pc[t] \in {"load", "transform", "older", "multiply", "expandOlder",
                        "transformOlder", "keepOverlap", "add", "multiplyFirst"}
    <3>1. \/ pc'[t] \in {"transform", "branch", "multiply", "store", "transformOlder",
                         "keepOverlap", "multiplyFirst"}
          \/ pc'[t] = "rotate" /\ waiting'[t]
      BY <2>3, <2>5, AfterIs, SMT DEF Barriers, Synchronized
    <3> QED
      BY <1>1, <2>5, <3>1, SMT DEF AtPiece
  <2>6. CASE pc[t] \in {"expand", "transformBack", "output"}
    BY <1>1, <2>3, <2>6, AfterIs, SMT DEF PieceTaken, At
  <2> QED
    BY <2>1, <2>4, <2>5, <2>6, AfterIs, SMT
<1> QED
  BY <1>3, <1>4, <1>5, <1>6, <1>7, <1>8 DEF ThreadStep

(* The parts of a call.                                                    *)
LEMMA PartsApart ==
  ASSUME NEW t
  PROVE  /\ BeforeFirst(t) => ~AtPiece(t) /\ ~PieceTaken(t) /\ pc[t] \notin {"loop", "done"}
         /\ AtPiece(t) => ~PieceTaken(t) /\ pc[t] \notin {"loop", "done"}
         /\ PieceTaken(t) => pc[t] \notin {"loop", "done", "first", "begin", "place"}
         /\ pc[t] = "first" => BeforeFirst(t)
  BY SMT DEF BeforeFirst, AtPiece, PieceTaken, At

(* What First and Loop do.                                                 *)
LEMMA LoopSteps ==
  ASSUME Launched, Locals, NEW t \in Threads
  PROVE  /\ First(t) =>
              /\ At(t, "first") /\ UNCHANGED <<launch, position>>
              /\ \/ /\ segmentZeroSamples # 0 /\ AtPiece(t)'
                    /\ piece'[t] = EnteringPiece /\ cursor'[t] = EnteringPiece
                 \/ segmentZeroSamples = 0 /\ At(t, "loop")' /\ cursor'[t] = 0
         /\ Loop(t) =>
              /\ At(t, "loop") /\ UNCHANGED <<launch, position>>
              /\ \/ /\ cursor[t] < params.grain /\ AtPiece(t)'
                    /\ piece'[t] = PieceFrom(cursor[t])
                    /\ cursor'[t] = cursor[t] + iteration
                 \/ /\ ~(cursor[t] < params.grain) /\ pc'[t] = "done"
                    /\ cursor'[t] = cursor[t]
<1>1. "load" \in Steps /\ "done" \in Steps /\ "loop" \in Steps /\ FALSE \in BOOLEAN
  BY DEF Steps
<1>2. Goto(t, "load") => AtPiece(t)'
  BY <1>1, MovesTo DEF AtPiece
<1>3. Goto(t, "done") => pc'[t] = "done"
  BY <1>1, MovesTo
<1>4. GotoBehind(t, "loop", FALSE) => At(t, "loop")'
  BY <1>1, Moves DEF At
<1>5. ASSUME First(t)
      PROVE  \/ /\ segmentZeroSamples # 0 /\ Goto(t, "load")
                /\ piece'[t] = EnteringPiece /\ cursor'[t] = EnteringPiece
             \/ segmentZeroSamples = 0 /\ GotoBehind(t, "loop", FALSE) /\ cursor'[t] = 0
  <2>1. CASE segmentZeroSamples # 0
    <3>1. piece'[t] = EnteringPiece
      BY <1>5, <2>1 DEF First, EnteringPiece, Locals
    <3> QED
      BY <1>5, <2>1, <3>1 DEF First, Locals
  <2>2. CASE segmentZeroSamples = 0
    BY <1>5, <2>2 DEF First, Locals
  <2> QED
    BY <2>1, <2>2
<1>6. ASSUME Loop(t)
      PROVE  \/ /\ cursor[t] < params.grain /\ Goto(t, "load")
                /\ piece'[t] = PieceFrom(cursor[t]) /\ cursor'[t] = cursor[t] + iteration
             \/ ~(cursor[t] < params.grain) /\ Goto(t, "done") /\ cursor'[t] = cursor[t]
  BY <1>6 DEF Loop, PieceFrom, Stride, Locals
<1>7. /\ First(t) => At(t, "first") /\ UNCHANGED <<launch, position>>
      /\ Loop(t) => At(t, "loop") /\ UNCHANGED <<launch, position>>
  BY DEF First, Loop
<1> QED
  BY <1>2, <1>3, <1>4, <1>5, <1>6, <1>7, Zenon

(* A thread sees the position the block has after the pieces taken so far, *)
(* before and after thread 0 writes it.                                    *)
LEMMA PositionSeen ==
  ASSUME IInv, NEW t \in Threads, ThreadStep(t)
  PROVE  OffsetSeen' = OffsetSeen /\ ZeroSeen' = ZeroSeen
<1>1. Launched /\ Locals
  BY DEF IInv
<1>2. OthersStay(t) /\ UNCHANGED launch
  BY <1>1, StepTypes
<1>3. /\ iteration' = iteration /\ params' = params /\ segments' = segments
      /\ Translates' <=> Translates
  BY <1>2, Same
<1>4. CASE t # 0
  <2>1. pc'[0] = pc[0] /\ waiting'[0] = waiting[0] /\ piece'[0] = piece[0]
    BY <1>2, <1>4, BlockSizes DEF OthersStay
  <2>2. UNCHANGED position
    BY <1>4 DEF ThreadStep, Begin, Place, KeepFilter, First, Loop, Branch, Store, Rotate,
       Rotates, Carry, CarryRead, CarryWrite, Advance, Proceed, position
  <2>3. (PieceTaken(0)' <=> PieceTaken(0)) /\ (At(0, "rotate")' <=> At(0, "rotate"))
    BY <2>1 DEF PieceTaken, At
  <2> QED
    BY <1>3, <2>1, <2>2, <2>3
       DEF position, OffsetSeen, ZeroSeen, Completes, NextOffset
<1>5. ASSUME t = 0 PROVE OffsetSeen' = OffsetSeen /\ ZeroSeen' = ZeroSeen
  <2>1. ASSUME ~Begin(0), ~Place(0), ~Rotate(0), ~Advance(0)
        PROVE  OffsetSeen' = OffsetSeen /\ ZeroSeen' = ZeroSeen
    <3>1. UNCHANGED position
      BY <1>5, <2>1 DEF ThreadStep, KeepFilter, First, Loop, Branch, Store, Carry, CarryRead,
         CarryWrite, Proceed, position
    <3>2. CASE First(0) \/ Loop(0)
      <4>1. pc[0] \in {"first", "loop"} /\ (AtPiece(0)' \/ pc'[0] \in {"loop", "done"})
        BY <1>1, <1>5, <3>2, LoopSteps DEF At
      <4>2. ~PieceTaken(0) /\ ~PieceTaken(0)' /\ ~At(0, "rotate") /\ ~At(0, "rotate")'
            /\ pc[0] \notin {"begin", "place"} /\ pc'[0] \notin {"begin", "place"}
        BY <4>1, SMT DEF AtPiece, PieceTaken, At
      <4> QED
        BY <1>3, <3>1, <4>2 DEF position, OffsetSeen, ZeroSeen
    <3>3. CASE ~First(0) /\ ~Loop(0)
      <4>1. UNCHANGED piece
            /\ \/ /\ BeforeFirst(0) /\ BeforeFirst(0)'
                  /\ pc[0] \notin {"begin", "place"} /\ pc'[0] \notin {"begin", "place"}
               \/ AtPiece(0) /\ AtPiece(0)'
               \/ /\ PieceTaken(0) /\ PieceTaken(0)'
                  /\ ~At(0, "rotate") /\ ~At(0, "rotate")'
        BY <1>1, <1>5, <2>1, <3>3, StepStays
      <4>2. (PieceTaken(0)' <=> PieceTaken(0)) /\ ~At(0, "rotate") /\ ~At(0, "rotate")'
            /\ pc[0] \notin {"begin", "place"} /\ pc'[0] \notin {"begin", "place"}
        BY <4>1, SMT DEF BeforeFirst, AtPiece, PieceTaken, At
      <4> QED
        BY <1>3, <3>1, <4>1, <4>2 DEF position, OffsetSeen, ZeroSeen
    <3> QED
      BY <3>2, <3>3
  <2>2. CASE Begin(0)
    <3>1. /\ pc[0] = "begin" /\ UNCHANGED position
          /\ \/ Translates /\ Goto(0, "place")
             \/ ~Translates /\ Goto(0, "first")
      BY <2>2 DEF Begin, At, Translates
    <3>2. \/ Translates /\ pc'[0] = "place"
          \/ ~Translates /\ pc'[0] = "first"
      BY <1>1, <1>5, <3>1, MovesTo, SMT DEF Steps
    <3>3. ~PieceTaken(0) /\ ~PieceTaken(0)' /\ ~At(0, "rotate") /\ ~At(0, "rotate")'
      BY <3>1, <3>2, SMT DEF PieceTaken, At
    <3> QED
      BY <1>3, <3>1, <3>2, <3>3 DEF position, OffsetSeen, ZeroSeen
  <2>3. CASE Place(0)
    <3>1. pc[0] = "place" /\ Translates
      <4>1. PICK s \in Phases, c \in Int, p \in Int, i \in Int :
              \A u \in Threads : InPhase(s, u, c, p, i)
        BY Zenon DEF IInv, InOnePhase
      <4> QED
        BY <1>5, <2>3, <4>1, PhaseAt DEF Place, At
    <3>2. /\ pc'[0] = "loadFilter" /\ segmentOffset' = segmentOffset
          /\ segmentZeroSamples' = params.init_buffer_offset % iteration
      BY <1>1, <1>5, <2>3, MovesTo, SMT DEF Place, Steps
    <3>3. ~PieceTaken(0)' /\ ~At(0, "rotate") /\ ~At(0, "rotate")'
      BY <3>1, <3>2, SMT DEF PieceTaken, At
    <3> QED
      BY <1>3, <3>1, <3>2, <3>3 DEF OffsetSeen, ZeroSeen
  <2>4. CASE Rotate(0)
    <3>1. /\ At(0, "rotate") /\ UNCHANGED <<piece, segmentZeroSamples>>
          /\ segmentOffset' = IF Completes(0) THEN NextOffset ELSE segmentOffset
      BY <2>4 DEF Rotate, Rotates, locals
    <3>2. pc'[0] = "expand"
      BY <1>1, <1>5, <2>4, MovesTo, SMT DEF Rotate, Steps
    <3>3. PieceTaken(0) /\ PieceTaken(0)' /\ ~At(0, "rotate")'
          /\ pc[0] \notin {"begin", "place"} /\ pc'[0] \notin {"begin", "place"}
      BY <3>1, <3>2, SMT DEF PieceTaken, At
    <3> QED
      BY <1>3, <3>1, <3>3 DEF OffsetSeen, ZeroSeen
  <2>5. CASE Advance(0)
    <3>1. /\ pc[0] = "advance" /\ segmentOffset' = segmentOffset
          /\ segmentZeroSamples' = Remainder(segmentZeroSamples + piece[0], iteration)
      BY <2>5 DEF Advance, At
    <3>2. pc'[0] = "loop"
      BY <1>1, <1>5, <2>5, MovesTo, SMT DEF Advance, Steps
    <3>3. PieceTaken(0) /\ ~PieceTaken(0)' /\ ~At(0, "rotate") /\ ~At(0, "rotate")'
      BY <3>1, <3>2, SMT DEF PieceTaken, At
    <3> QED
      BY <1>3, <3>1, <3>2, <3>3 DEF OffsetSeen, ZeroSeen
  <2> QED
    BY <2>1, <2>2, <2>3, <2>4, <2>5
<1> QED
  BY <1>4, <1>5

(* What CursorBehind says of another thread depends on the position only   *)
(* while that thread works at a piece.                                     *)
LEMMA CursorStaysBehind ==
  ASSUME Locals, NEW u \in Threads, CursorBehind(u), UNCHANGED launch,
         pc'[u] = pc[u], cursor'[u] = cursor[u], piece'[u] = piece[u],
         AtPiece(u)' => AtPiece(u), PieceTaken(u)' => PieceTaken(u) \/ AtPiece(u),
         AtPiece(u) => segmentZeroSamples' = segmentZeroSamples,
         iteration \in Nat
  PROVE  CursorBehind(u)'
<1>1. iteration' = iteration /\ params' = params /\ call' = call
      /\ Remaining' = Remaining
      /\ (\A a : PieceFrom(a)' = PieceFrom(a))
      /\ (segmentZeroSamples' = segmentZeroSamples => EnteringPiece' = EnteringPiece)
  BY Same DEF Remaining, launch
<1>2. AtPiece(u) => cursor[u] \in Nat
  <2>1. cursor[u] \in Int
    BY DEF Locals
  <2> QED
    BY <2>1, SMT DEF CursorBehind
<1> QED
  BY <1>1, <1>2 DEF CursorBehind

LEMMA OwnCursorBehind ==
  ASSUME IInv, PInv, NEW t \in Threads, ThreadStep(t), call < params.num_calls
  PROVE  CursorBehind(t)'
<1>1. Launched /\ Locals /\ CursorBehind(t)
  BY DEF IInv, PInv
<1>2. UNCHANGED launch
  BY <1>1, StepTypes
<1>3. /\ iteration' = iteration /\ params' = params /\ call' = call
      /\ Remaining' = Remaining
      /\ \A a : PieceFrom(a)' = PieceFrom(a)
      /\ segmentZeroSamples' = segmentZeroSamples => EnteringPiece' = EnteringPiece
  BY <1>2, Same DEF Remaining, launch
<1>4. /\ params.grain \in Nat \ {0} /\ iteration \in Nat \ {0} /\ Remaining \in Nat \ {0}
      /\ params.grain <= iteration
  BY InputRemains
<1>5. CASE First(t)
  <2>1. PICK s \in Phases, c \in Int, p \in Int, i \in Int :
          \A u \in Threads : InPhase(s, u, c, p, i)
    BY Zenon DEF IInv, InOnePhase
  <2>2. /\ At(t, "first") /\ UNCHANGED <<launch, position>>
        /\ \/ /\ segmentZeroSamples # 0 /\ AtPiece(t)'
              /\ piece'[t] = EnteringPiece /\ cursor'[t] = EnteringPiece
           \/ segmentZeroSamples = 0 /\ At(t, "loop")' /\ cursor'[t] = 0
    BY <1>1, <1>5, LoopSteps
  <2>3. segmentZeroSamples \in 0 .. iteration - 1
    BY <1>1, <2>1, <2>2, BlockSizes, PositionHeld DEF PInv
  <2>4. CASE segmentZeroSamples # 0
    <3>1. /\ EnteringPiece \in 0 .. iteration - 1 /\ EnteringPiece \in Nat
          /\ EnteringPiece <= Remaining
      BY <1>4, <2>3, <2>4, SMT DEF EnteringPiece, AtMost
    <3>2. AtPiece(t)' /\ segmentZeroSamples' = segmentZeroSamples
      BY <2>2, <2>4 DEF position
    <3>3. ~PieceTaken(t)' /\ (pc[t])' \notin {"loop", "done"}
      BY <3>2, SMT DEF AtPiece, PieceTaken, At
    <3> QED
      BY <1>3, <2>2, <2>4, <3>1, <3>2, <3>3 DEF CursorBehind
  <2>5. CASE segmentZeroSamples = 0
    <3>1. /\ ~AtPiece(t)' /\ ~PieceTaken(t)' /\ (pc[t])' = "loop"
          /\ cursor'[t] \in Nat /\ cursor'[t] <= Remaining
      BY <1>4, <2>2, <2>5, SMT DEF AtPiece, PieceTaken, At
    <3> QED
      BY <1>3, <3>1 DEF CursorBehind
  <2> QED
    BY <2>4, <2>5
<1>6. CASE Loop(t)
  <2>1. /\ At(t, "loop") /\ UNCHANGED <<launch, position>>
        /\ \/ /\ cursor[t] < params.grain /\ AtPiece(t)'
              /\ piece'[t] = PieceFrom(cursor[t]) /\ cursor'[t] = cursor[t] + iteration
           \/ ~(cursor[t] < params.grain) /\ pc'[t] = "done" /\ cursor'[t] = cursor[t]
    BY <1>1, <1>6, LoopSteps
  <2>2. cursor[t] \in Nat /\ (cursor[t] < params.grain => cursor[t] <= Remaining)
    BY <1>1, <2>1 DEF CursorBehind, At
  <2>3. CASE cursor[t] < params.grain
    <3>1. /\ AtPiece(t)' /\ piece'[t] = PieceFrom(cursor[t])
          /\ cursor'[t] - iteration = cursor[t] /\ cursor[t] \in 0 .. params.grain - 1
          /\ ~(cursor'[t] < params.grain)
      BY <1>4, <2>1, <2>2, <2>3
    <3>3. PieceFrom(cursor[t]) \in Nat
      BY <1>4, <2>2, <2>3, SMT DEF PieceFrom, AtMost
    <3>2. ~PieceTaken(t)' /\ (pc[t])' \notin {"loop", "done"}
      BY <3>1, SMT DEF AtPiece, PieceTaken, At
    <3> QED
      BY <1>3, <3>1, <3>2, <3>3 DEF CursorBehind
  <2>4. CASE ~(cursor[t] < params.grain)
    <3>1. pc'[t] = "done" /\ cursor'[t] >= params.grain
      BY <1>4, <2>1, <2>2, <2>4
    <3>2. ~AtPiece(t)' /\ ~PieceTaken(t)' /\ (pc[t])' # "loop"
      BY <3>1, SMT DEF AtPiece, PieceTaken, At
    <3> QED
      BY <1>3, <3>1, <3>2 DEF CursorBehind
  <2> QED
    BY <2>3, <2>4
<1>7. CASE ~First(t) /\ ~Loop(t)
  <2>1. /\ UNCHANGED <<cursor, piece>>
        /\ \/ BeforeFirst(t)'
           \/ AtPiece(t) /\ AtPiece(t)'
           \/ PieceTaken(t) /\ (PieceTaken(t)' \/ pc'[t] = "loop")
    BY <1>1, <1>7, StepStays DEF AtBarrier
  <2>2. CASE BeforeFirst(t)'
    <3>1. ~AtPiece(t)' /\ ~PieceTaken(t)' /\ (pc[t])' \notin {"loop", "done"}
      BY <2>2, SMT DEF BeforeFirst, AtPiece, PieceTaken, At
    <3> QED
      BY <3>1 DEF CursorBehind
  <2>3. CASE AtPiece(t) /\ AtPiece(t)'
    <3>1. segmentZeroSamples' = segmentZeroSamples
      <4>1. ~Place(t) /\ ~Advance(t)
        BY <2>3, SMT DEF Place, Advance, At, AtPiece
      <4> QED
        BY <1>7, <4>1 DEF ThreadStep, Begin, KeepFilter, Branch, Store, Rotate, Carry,
           CarryRead, CarryWrite, Proceed, position
    <3>2. ~PieceTaken(t)' /\ (pc[t])' \notin {"loop", "done"}
      BY <2>3, SMT DEF AtPiece, PieceTaken, At
    <3> QED
      BY <1>1, <1>3, <2>1, <2>3, <3>1, <3>2 DEF CursorBehind
  <2>4. CASE PieceTaken(t) /\ (PieceTaken(t)' \/ pc'[t] = "loop")
    <3>1. ~AtPiece(t)' /\ (pc[t])' # "done"
      BY <2>4, SMT DEF AtPiece, PieceTaken, At
    <3> QED
      BY <1>1, <1>3, <2>1, <2>4, <3>1 DEF CursorBehind
  <2> QED
    BY <2>1, <2>2, <2>3, <2>4
<1> QED
  BY <1>5, <1>6, <1>7

(* Once placed, the position is inside an iteration.                       *)
LEMMA ZeroStaysBounded ==
  ASSUME IInv, PInv, NEW t \in Threads, ThreadStep(t)
  PROVE  Placing' \/ segmentZeroSamples' \in 0 .. iteration - 1
<1>1. Launched /\ Locals
  BY DEF IInv
<1>2. OthersStay(t) /\ (Translates' <=> Translates)
  BY <1>1, StepTypes, Same
<1>3. iteration \in Nat \ {0} /\ params.init_buffer_offset \in Int
      /\ segmentZeroSamples \in Int /\ \A u \in Threads : piece[u] \in Int
  BY <1>1, InputRemains DEF Launched, Locals
<1>4. Placing \/ segmentZeroSamples \in 0 .. iteration - 1
  BY DEF PInv
<1>5. CASE t # 0
  <2>1. segmentZeroSamples' = segmentZeroSamples
    BY <1>5 DEF ThreadStep, Begin, Place, KeepFilter, First, Loop, Branch, Store, Rotate,
       Carry, CarryRead, CarryWrite, Advance, Proceed, position
  <2>2. Placing' <=> Placing
    BY <1>2, <1>5, BlockSizes DEF Placing, OthersStay
  <2> QED
    BY <1>4, <2>1, <2>2
<1>6. CASE Place(t) /\ t = 0
  BY <1>3, <1>6, SMT DEF Place
<1>7. CASE Advance(t) /\ t = 0
  <2>1. /\ pc[t] = "advance"
        /\ segmentZeroSamples' = Remainder(segmentZeroSamples + piece[t], iteration)
    BY <1>7 DEF Advance, At
  <2>2. piece[t] \in Nat
    <3>1. PieceTaken(t)
      BY <2>1, SMT DEF PieceTaken
    <3> QED
      BY <3>1 DEF PInv, CursorBehind
  <2>3. segmentZeroSamples \in 0 .. iteration - 1
    <3>1. ~Placing
      BY <1>7, <2>1 DEF Placing
    <3> QED
      BY <1>4, <3>1
  <2>4. segmentZeroSamples + piece[t] \in Nat
    BY <1>3, <2>2, <2>3, SMT
  <2>5. segmentZeroSamples' = (segmentZeroSamples + piece[t]) % iteration
    BY <1>3, <2>1, <2>4, RemainderOfNat
  <2> QED
    BY <1>3, <2>4, <2>5, SMT
<1>8. CASE ~Place(t) /\ ~Advance(t) /\ t = 0
  <2>1. segmentZeroSamples' = segmentZeroSamples
    BY <1>8 DEF ThreadStep, Begin, KeepFilter, First, Loop, Branch, Store, Rotate,
       Carry, CarryRead, CarryWrite, Proceed, position
  <2>2. ASSUME Placing PROVE Placing'
    <3>1. Translates /\ pc[t] \in {"begin", "place"}
      BY <1>8, <2>2 DEF Placing
    <3>2. Begin(t)
      <4>1. ~First(t) /\ ~Loop(t)
        BY <3>1 DEF First, Loop, At
      <4>2. ~AtPiece(t) /\ ~PieceTaken(t)
        BY <3>1, SMT DEF AtPiece, PieceTaken, At
      <4> QED
        BY <1>1, <1>8, <3>1, <4>1, <4>2, StepStays
    <3>3. Goto(t, "place")
      BY <3>1, <3>2 DEF Begin, Translates
    <3>4. pc'[t] = "place"
      BY <1>1, <3>3, MovesTo, SMT DEF Steps
    <3> QED
      BY <1>2, <1>8, <3>1, <3>4 DEF Placing
  <2> QED
    BY <1>4, <2>1, <2>2
<1> QED
  BY <1>5, <1>6, <1>7, <1>8

LEMMA ThreadStepKeepsPInv ==
  ASSUME IInv, PInv, NEW t \in Threads, ThreadStep(t)
  PROVE  PInv'
<1>1. Launched /\ Locals
  BY DEF IInv
<1>2. OthersStay(t) /\ UNCHANGED launch
  BY <1>1, StepTypes
<1>3. config' = config /\ params' = params /\ call' = call /\ iteration' = iteration
  BY <1>2, Same DEF launch
<1>4. pc[t] # "done" /\ call < params.num_calls
  <2>1. pc[t] # "done"
    <3>1. First(t) \/ Loop(t) \/ (~First(t) /\ ~Loop(t))
      OBVIOUS
    <3>2. BeforeFirst(t) \/ AtPiece(t) \/ PieceTaken(t) => pc[t] # "done"
      BY PartsApart
    <3> QED
      BY <1>1, <3>2, StepStays DEF First, Loop, At
  <2> QED
    BY <2>1, InputRemains DEF PInv, Done
<1>5. LaunchIs(config)'
  BY <1>3 DEF PInv, LaunchIs
<1>6. call' \in 0 .. params'.num_calls /\ call' # params'.num_calls
  BY <1>3, <1>4, InputRemains DEF PInv
<1>7. Placing' \/ segmentZeroSamples' \in 0 .. iteration' - 1
  BY <1>3, ZeroStaysBounded
<1>8. ASSUME NEW u \in Threads, u # t
      PROVE  CursorBehind(u)'
  <2>1. /\ pc'[u] = pc[u] /\ waiting'[u] = waiting[u]
        /\ cursor'[u] = cursor[u] /\ piece'[u] = piece[u]
    BY <1>2, <1>8 DEF OthersStay
  <2>2. (AtPiece(u)' <=> AtPiece(u)) /\ (PieceTaken(u)' <=> PieceTaken(u))
    BY <2>1 DEF AtPiece, PieceTaken, At
  <2>3. AtPiece(u) => segmentZeroSamples' = segmentZeroSamples
    <3>1. PICK s \in Phases, c \in Int, p \in Int, i \in Int :
            \A v \in Threads : InPhase(s, v, c, p, i)
      BY Zenon DEF IInv, InOnePhase
    <3>2. (At(0, "place") \/ At(0, "advance")) => ~AtPiece(u)
      BY <1>1, <3>1, BlockSizes, PositionHeld
    <3>3. \/ segmentZeroSamples' = segmentZeroSamples
          \/ At(0, "place") \/ At(0, "advance")
      BY DEF ThreadStep, Begin, Place, KeepFilter, First, Loop, Branch, Store, Rotate,
         Carry, CarryRead, CarryWrite, Advance, Proceed, position
    <3> QED
      BY <3>2, <3>3
  <2>4. CursorBehind(u) /\ iteration \in Nat
    BY InputRemains DEF PInv
  <2> QED
    BY <1>1, <1>2, <2>1, <2>2, <2>3, <2>4, CursorStaysBehind
<1>9. \A u \in Threads : CursorBehind(u)'
  BY <1>4, <1>8, OwnCursorBehind
<1> QED
  BY <1>5, <1>6, <1>7, <1>9 DEF PInv, Threads, BlockSize, FftLengthQuarter

(* What a launch sets, and that the block is at its start.                 *)
LEMMA ParametersAre ==
  ASSUME NEW c
  PROVE  /\ ParametersFor(c).grain = GrainFor(c.capacity)
         /\ ParametersFor(c).input_length = c.size
         /\ ParametersFor(c).input_samples_per_iteration =
              InputSizePerIteration(c.length, GrainFor(c.capacity))
         /\ ParametersFor(c).num_calls = NumCalls(c.capacity, GrainFor(c.capacity))
         /\ ParametersFor(c).filter_length_to_translate_init = 0
  BY DEF ParametersFor, LaunchParameters

LEMMA StartsAre ==
  ASSUME NEW t \in Threads, StartCall
  PROVE  /\ pc[t] = "done" /\ pc'[t] = "begin" /\ UNCHANGED position
         /\ ~BeforeFirst(t) /\ ~AtPiece(t) /\ ~PieceTaken(t) /\ ~At(t, "rotate")
         /\ BeforeFirst(t)' /\ ~AtPiece(t)' /\ ~PieceTaken(t)' /\ ~At(t, "rotate")'
         /\ CursorBehind(t)'
<1>1. pc[t] = "done" /\ pc'[t] = "begin" /\ UNCHANGED position
  BY DEF StartCall, Done
<1>2. /\ ~BeforeFirst(t) /\ ~AtPiece(t) /\ ~PieceTaken(t) /\ ~At(t, "rotate")
      /\ BeforeFirst(t)' /\ ~AtPiece(t)' /\ ~PieceTaken(t)' /\ ~At(t, "rotate")'
  BY <1>1, SMT DEF BeforeFirst, AtPiece, PieceTaken, At
<1> QED
  BY <1>1, <1>2 DEF CursorBehind

LEMMA LaunchInitIs ==
  ASSUME NEW c \in Configs, LaunchInit(c)
  PROVE  /\ StartCall /\ config' = c /\ call' = 0
         /\ \E offset \in InitOffsets(c.length, GrainFor(c.capacity), Rands) :
              /\ params' = [ParametersFor(c) EXCEPT
                              !.filter_length_to_translate_init = c.length,
                              !.init_buffer_offset = offset]
              /\ params'.init_buffer_offset = offset
         /\ LaunchIs(config)' /\ Translates'
<1>1. StartCall /\ config' = c /\ call' = 0
  BY DEF LaunchInit
<1>2. PICK offset \in InitOffsets(c.length, GrainFor(c.capacity), Rands) :
        params' = [ParametersFor(c) EXCEPT !.filter_length_to_translate_init = c.length,
                                           !.init_buffer_offset = offset]
  BY DEF LaunchInit
<1>3. /\ params'.init_buffer_offset = offset
      /\ params'.filter_length_to_translate_init = c.length
      /\ params'.grain = ParametersFor(c).grain
      /\ params'.input_length = ParametersFor(c).input_length
      /\ params'.num_calls = ParametersFor(c).num_calls
      /\ params'.input_samples_per_iteration = ParametersFor(c).input_samples_per_iteration
  BY <1>2 DEF ParametersFor, LaunchParameters
<1>4. LaunchIs(config)'
  BY <1>1, <1>3, ParametersAre DEF LaunchIs, iteration
<1>5. Translates'
  <2>1. c.length # 0
    BY LaunchSizes
  <2> QED
    BY <1>1, <1>3, <2>1 DEF Translates
<1> QED
  BY <1>1, <1>2, <1>3, <1>4, <1>5

LEMMA LaunchNextIs ==
  ASSUME NEW c \in Configs, LaunchNext(c), LaunchIs(config)
  PROVE  /\ StartCall /\ config' = c /\ call' = 0 /\ params' = ParametersFor(c)
         /\ c.length = config.length /\ GrainFor(c.capacity) = params.grain
         /\ call < params.num_calls
         /\ LaunchIs(config)' /\ ~Translates' /\ iteration' = iteration
<1>1. /\ StartCall /\ config' = c /\ call' = 0 /\ params' = ParametersFor(c)
      /\ c.length = config.length /\ GrainFor(c.capacity) = params.grain
      /\ call < params.num_calls
  BY DEF LaunchNext
<1>2. LaunchIs(config)' /\ iteration' = iteration
  BY <1>1, ParametersAre DEF LaunchIs, iteration
<1>3. ~Translates'
  BY <1>1, ParametersAre DEF Translates
<1> QED
  BY <1>1, <1>2, <1>3

LEMMA StartsKeepPInv ==
  ASSUME PInv, NextCall \/ \E c \in Configs : LaunchInit(c) \/ LaunchNext(c)
  PROVE  PInv'
<1>1. StartCall /\ LaunchIs(config) /\ 0 \in Threads
  BY BlockSizes DEF NextCall, LaunchInit, LaunchNext, PInv
<1>2. \A t \in Threads : CursorBehind(t)'
  BY <1>1, StartsAre
<1>3. segmentZeroSamples' = segmentZeroSamples
      /\ segmentZeroSamples \in 0 .. iteration - 1
  BY <1>1, StartsAre, SMT DEF PInv, Placing, position
<1>4. /\ LaunchIs(config)' /\ call' \in Nat /\ call' < params'.num_calls
      /\ params'.num_calls \in Nat
      /\ Placing' \/ iteration' = iteration
  <2>1. CASE NextCall
    <3>1. config' = config /\ params' = params /\ call' = call + 1
          /\ call + 1 < params.num_calls
      BY <2>1 DEF NextCall
    <3>2. LaunchIs(config)' /\ iteration' = iteration
      BY <1>1, <3>1 DEF LaunchIs, iteration
    <3>3. call' \in Nat /\ params'.num_calls \in Nat
      BY <3>1, InputRemains
    <3> QED
      BY <3>1, <3>2, <3>3
  <2>2. ASSUME NEW c \in Configs, LaunchInit(c) \/ LaunchNext(c)
        PROVE  /\ LaunchIs(config)' /\ call' = 0
               /\ Placing' \/ iteration' = iteration
    <3>1. CASE LaunchInit(c)
      <4>1. LaunchIs(config)' /\ call' = 0 /\ Translates'
        BY <3>1, LaunchInitIs
      <4>2. pc'[0] = "begin"
        BY <1>1, StartsAre
      <4> QED
        BY <4>1, <4>2 DEF Placing
    <3>2. CASE LaunchNext(c)
      BY <1>1, <3>2, LaunchNextIs
    <3> QED
      BY <2>2, <3>1, <3>2
  <2>3. ASSUME LaunchIs(config)', call' = 0
        PROVE  call' \in Nat /\ call' < params'.num_calls /\ params'.num_calls \in Nat
    <3>1. params'.num_calls \in Nat \ {0}
      BY <2>3, LaunchSizes DEF LaunchIs
    <3> QED
      BY <2>3, <3>1
  <2> QED
    BY <2>1, <2>2, <2>3
<1>5. call' \in 0 .. params'.num_calls /\ call' # params'.num_calls
  BY <1>4
<1>6. Placing' \/ segmentZeroSamples' \in 0 .. iteration' - 1
  BY <1>3, <1>4
<1> QED
  BY <1>2, <1>4, <1>5, <1>6 DEF PInv, Threads, BlockSize, FftLengthQuarter

(* At a barrier the threads take a piece if the ring moves on behind it.   *)
LEMMA MeetingsAre ==
  ASSUME NEW t \in Threads, Synchronize
  PROVE  /\ UNCHANGED <<launch, pc, locals, position>> /\ waiting[t] /\ pc[t] = pc[0]
         /\ BeforeFirst(t)' <=> BeforeFirst(t)
         /\ ~At(t, "rotate") /\ (At(t, "rotate")' <=> pc[t] = "rotate")
         /\ AtPiece(t)' <=> AtPiece(t) /\ pc[t] # "rotate"
         /\ PieceTaken(t)' <=> PieceTaken(t) \/ pc[t] = "rotate"
         /\ pc[t] = "rotate" => AtPiece(t) /\ ~PieceTaken(t)
<1>1. /\ UNCHANGED <<launch, pc, locals, position>> /\ waiting[t] /\ pc[t] = pc[0]
      /\ pc'[t] = pc[t] /\ ~waiting'[t]
  BY BlockSizes DEF Synchronize
<1>2. BeforeFirst(t)' <=> BeforeFirst(t)
  BY <1>1 DEF BeforeFirst
<1>3. ~At(t, "rotate") /\ (At(t, "rotate")' <=> pc[t] = "rotate")
  BY <1>1 DEF At
<1>4. /\ AtPiece(t)' <=> AtPiece(t) /\ pc[t] # "rotate"
      /\ PieceTaken(t)' <=> PieceTaken(t) \/ pc[t] = "rotate"
      /\ pc[t] = "rotate" => AtPiece(t) /\ ~PieceTaken(t)
  BY <1>1, <1>3, SMT DEF AtPiece, PieceTaken
<1> QED
  BY <1>1, <1>2, <1>3, <1>4

LEMMA SynchronizeKeepsPInv ==
  ASSUME Locals, PInv, Synchronize
  PROVE  PInv'
<1>1. UNCHANGED <<launch, pc, locals, position>>
  BY DEF Synchronize
<1>2. config' = config /\ params' = params /\ call' = call /\ iteration' = iteration
      /\ segmentZeroSamples' = segmentZeroSamples /\ (Translates' <=> Translates)
  BY <1>1 DEF launch, position, iteration, Translates
<1>3. LaunchIs(config)' /\ (Placing' <=> Placing) /\ (Done' <=> Done)
  BY <1>1, <1>2 DEF PInv, LaunchIs, Placing, Done, Threads, BlockSize, FftLengthQuarter
<1>4. ASSUME NEW t \in Threads PROVE CursorBehind(t)'
  <2>1. /\ AtPiece(t)' => AtPiece(t)
        /\ PieceTaken(t)' => PieceTaken(t) \/ AtPiece(t)
    BY MeetingsAre
  <2>2. pc'[t] = pc[t] /\ cursor'[t] = cursor[t] /\ piece'[t] = piece[t]
    BY <1>1 DEF locals
  <2>3. CursorBehind(t) /\ iteration \in Nat
    BY InputRemains DEF PInv
  <2> QED
    BY <1>1, <1>2, <2>1, <2>2, <2>3, CursorStaysBehind
<1> QED
  BY <1>2, <1>3, <1>4 DEF PInv, Threads, BlockSize, FftLengthQuarter

LEMMA InitPInv == Init => PInv
<1> SUFFICES ASSUME Init PROVE PInv
  OBVIOUS
<1>1. /\ config \in Configs /\ params = ParametersFor(config) /\ call = params.num_calls
      /\ pc = [t \in Threads |-> "done"] /\ segmentZeroSamples = 0
  BY DEF Init
<1>2. LaunchIs(config)
  BY <1>1, ParametersAre DEF LaunchIs, iteration
<1>3. params.num_calls \in Nat /\ iteration \in Nat \ {0}
  BY <1>2, LaunchSizes DEF LaunchIs
<1>4. call \in 0 .. params.num_calls /\ segmentZeroSamples \in 0 .. iteration - 1
  BY <1>1, <1>3
<1>5. Done
  BY <1>1 DEF Done
<1>6. ASSUME NEW t \in Threads PROVE CursorBehind(t)
  <2>1. pc[t] = "done" /\ ~(call < params.num_calls)
    BY <1>1, <1>3
  <2> QED
    BY <2>1, SMT DEF CursorBehind, AtPiece, PieceTaken, At
<1> QED
  BY <1>2, <1>4, <1>5, <1>6 DEF PInv

LEMMA NextPInv == IInv /\ PInv /\ [Next]_vars => PInv'
<1> SUFFICES ASSUME IInv, PInv, [Next]_vars PROVE PInv'
  OBVIOUS
<1>1. CASE NextCall \/ \E c \in Configs : LaunchInit(c) \/ LaunchNext(c)
  BY <1>1, StartsKeepPInv
<1>2. CASE Synchronize
  BY <1>2, SynchronizeKeepsPInv DEF IInv
<1>3. CASE \E t \in Threads : ThreadStep(t)
  BY <1>3, ThreadStepKeepsPInv
<1>4. CASE UNCHANGED vars
  <2>1. UNCHANGED <<launch, pc, waiting, cursor, piece, position>>
    BY <1>4 DEF vars, locals
  <2>2. config' = config /\ params' = params /\ call' = call /\ iteration' = iteration
        /\ segmentZeroSamples' = segmentZeroSamples /\ (Translates' <=> Translates)
    BY <2>1 DEF launch, position, iteration, Translates
  <2>3. LaunchIs(config)' /\ (Placing' <=> Placing) /\ (Done' <=> Done)
    BY <2>1, <2>2 DEF PInv, LaunchIs, Placing, Done, Threads, BlockSize, FftLengthQuarter
  <2>4. ASSUME NEW t \in Threads PROVE CursorBehind(t)'
    <3>1. (AtPiece(t)' <=> AtPiece(t)) /\ (PieceTaken(t)' <=> PieceTaken(t))
      BY <2>1 DEF AtPiece, PieceTaken, At
    <3>2. CursorBehind(t) /\ iteration \in Nat /\ Locals
      BY InputRemains DEF PInv, IInv
    <3> QED
      BY <2>1, <2>2, <3>1, <3>2, CursorStaysBehind
  <2> QED
    BY <2>2, <2>3, <2>4 DEF PInv, Threads, BlockSize, FftLengthQuarter
<1> QED
  BY <1>1, <1>2, <1>3, <1>4 DEF Next

(* FirPieces has the arithmetic of FirGeometry too.                        *)
LEMMA PiecesGeometry ==
  ASSUME NEW t, NEW c
  PROVE  /\ Pieces(t)!ParametersFor(c) = ParametersFor(c)
         /\ Pieces(t)!GrainFor(c.capacity) = GrainFor(c.capacity)
         /\ Pieces(t)!InitOffsets(c.length, GrainFor(c.capacity), Rands) =
              InitOffsets(c.length, GrainFor(c.capacity), Rands)
         /\ Pieces(t)!iteration = iteration /\ Pieces(t)!Remaining = Remaining
         /\ \A x, y : Pieces(t)!AtMost(x, y) = AtMost(x, y)
         /\ \A x, y : Pieces(t)!Remainder(x, y) = Remainder(x, y)
<1>1. \A x, y : Pieces(t)!AtMost(x, y) = AtMost(x, y)
                /\ Pieces(t)!AtLeast(x, y) = AtLeast(x, y)
                /\ Pieces(t)!DivUp(x, y) = DivUp(x, y)
  BY DEF AtMost, AtLeast, DivUp, Pieces!AtMost, Pieces!AtLeast, Pieces!DivUp
<1>2. \A x, y : /\ Pieces(t)!GrainFor(x) = GrainFor(x)
                /\ Pieces(t)!FirSamplesPerSegment(x) = FirSamplesPerSegment(x)
                /\ Pieces(t)!OverlapLength(x) = OverlapLength(x)
                /\ Pieces(t)!NumCalls(x, y) = NumCalls(x, y)
                /\ Pieces(t)!InputSizePerIteration(x, y) = InputSizePerIteration(x, y)
                /\ Pieces(t)!FftLengthQuarter = FftLengthQuarter
  BY <1>1 DEF GrainFor, FirSamplesPerSegment, OverlapLength, NumCalls, InputSizePerIteration,
     Pieces!GrainFor, Pieces!FirSamplesPerSegment, Pieces!OverlapLength, Pieces!NumCalls,
     Pieces!InputSizePerIteration, FftLengthQuarter, Pieces!FftLengthQuarter
<1>3. \A x : Pieces(t)!SegmentCount(x) = SegmentCount(x)
  BY <1>1, <1>2 DEF SegmentCount, Pieces!SegmentCount
<1>4. \A x, y, z : Pieces(t)!LaunchParameters(x, y, z) = LaunchParameters(x, y, z)
  BY <1>2, <1>3, Zenon DEF LaunchParameters, Pieces!LaunchParameters
<1>5. \A x, y : Pieces(t)!InitOffsets(x, y, Rands) = InitOffsets(x, y, Rands)
  BY <1>2 DEF InitOffsets, Pieces!InitOffsets
<1>6. Pieces(t)!iteration = iteration /\ Pieces(t)!Remaining = Remaining
  BY DEF Pieces!iteration, iteration, Pieces!Remaining, Remaining
<1>7. \A x, y : Pieces(t)!Remainder(x, y) = Remainder(x, y)
  BY DEF Remainder, Pieces!Remainder
<1> QED
  BY <1>1, <1>2, <1>4, <1>5, <1>6, <1>7 DEF ParametersFor, Pieces!ParametersFor

LEMMA PiecesBegin == Init => \A t \in Threads : Pieces(t)!Init
<1> SUFFICES ASSUME Init, NEW t \in Threads PROVE Pieces(t)!Init
  OBVIOUS
<1>1. /\ config \in Configs /\ params = ParametersFor(config) /\ call = params.num_calls
      /\ pc[t] = "done" /\ pc[0] = "done" /\ segmentOffset = 0 /\ segmentZeroSamples = 0
  BY BlockSizes DEF Init
<1>2. params.num_calls \in Nat
  BY <1>1, ParametersAre, LaunchSizes
<1>3. ChunkDone
  BY <1>1, <1>2 DEF ChunkDone
<1>4. PhaseSeen(t) = "idle" /\ CursorSeen(t) = 0
  BY <1>1, <1>3 DEF PhaseSeen, CursorSeen
<1>5. OffsetSeen = 0 /\ ZeroSeen = 0
  BY <1>1, SMT DEF OffsetSeen, ZeroSeen, PieceTaken, At
<1> QED
  BY <1>1, <1>4, <1>5, PiecesGeometry DEF Pieces!Init

(* What is seen of a thread in each part of a call.                        *)
IsSeen(t, phase, at) == PhaseSeen(t) = phase /\ CursorSeen(t) = at

SeenInParts(t) ==
  /\ BeforeFirst(t) => IsSeen(t, "first", 0)
  /\ AtPiece(t) /\ cursor[t] < iteration => IsSeen(t, "first", 0)
  /\ AtPiece(t) /\ ~(cursor[t] < iteration) => IsSeen(t, "loop", cursor[t] - iteration)
  /\ PieceTaken(t) \/ pc[t] = "loop" => IsSeen(t, "loop", cursor[t])
  /\ pc[t] = "done" /\ ~ChunkDone => IsSeen(t, "loop", cursor[t])
  /\ pc[t] = "done" /\ ChunkDone => IsSeen(t, "idle", 0)
  /\ ~Placing /\ ~PieceTaken(0) => ZeroSeen = segmentZeroSamples

LEMMA Seen ==
  ASSUME NEW t
  PROVE  SeenInParts(t) /\ SeenInParts(t)'
<1>1. /\ BeforeFirst(t) => ~AtPiece(t) /\ ~PieceTaken(t) /\ pc[t] \notin {"loop", "done"}
      /\ AtPiece(t) => ~PieceTaken(t) /\ pc[t] \notin {"loop", "done"}
      /\ PieceTaken(t) => pc[t] \notin {"loop", "done"}
      /\ pc[t] \in {"loop", "done"} => ~AtPiece(t) /\ ~BeforeFirst(t)
  BY PartsApart
<1>2. /\ BeforeFirst(t)' => ~AtPiece(t)' /\ ~PieceTaken(t)' /\ pc'[t] \notin {"loop", "done"}
      /\ AtPiece(t)' => ~PieceTaken(t)' /\ pc'[t] \notin {"loop", "done"}
      /\ PieceTaken(t)' => pc'[t] \notin {"loop", "done"}
      /\ pc'[t] \in {"loop", "done"} => ~AtPiece(t)' /\ ~BeforeFirst(t)'
  BY SMT DEF BeforeFirst, AtPiece, PieceTaken, At
<1>3. SeenInParts(t)
  <2>1. ~Placing /\ ~PieceTaken(0) => ZeroSeen = segmentZeroSamples
    BY DEF ZeroSeen, Placing
  <2> QED
    BY <1>1, <2>1, SMT DEF SeenInParts, IsSeen, PhaseSeen, CursorSeen
<1>4. SeenInParts(t)'
  <2>1. ~Placing' /\ ~PieceTaken(0)' => ZeroSeen' = segmentZeroSamples'
    BY DEF ZeroSeen, Placing
  <2> QED
    BY <1>2, <2>1, SMT DEF SeenInParts, IsSeen, PhaseSeen, CursorSeen
<1> QED
  BY <1>3, <1>4

(* Before the threads meet at the ring nothing of a piece is seen, nor is  *)
(* anything behind it: of its own steps First begins the loop if the       *)
(* position is at the start of an iteration, Loop ends the call.           *)
LEMMA ThreadStepIsPiece ==
  ASSUME IInv, PInv, PInv', NEW t \in Threads, NEW u \in Threads, ThreadStep(u)
  PROVE  UNCHANGED Pieces(t)!vars \/ Pieces(t)!Next
<1>1. Launched /\ Locals /\ CursorBehind(t) /\ CursorBehind(t)'
  <2>1. Threads' = Threads
    BY DEF Threads, BlockSize, FftLengthQuarter
  <2> QED
    BY <2>1 DEF IInv, PInv
<1>2. OthersStay(u) /\ UNCHANGED launch
  BY <1>1, StepTypes
<1>3. OffsetSeen' = OffsetSeen /\ ZeroSeen' = ZeroSeen
  BY PositionSeen
<1>4. /\ config' = config /\ params' = params /\ call' = call /\ iteration' = iteration
      /\ (ChunkDone' <=> ChunkDone)
  BY <1>2, Same DEF launch, ChunkDone
<1>5. ASSUME PhaseSeen(t)' = PhaseSeen(t), CursorSeen(t)' = CursorSeen(t)
      PROVE  UNCHANGED Pieces(t)!vars
  BY <1>3, <1>4, <1>5 DEF Pieces!vars, Pieces!launch, Pieces!position
<1>6. CASE u # t
  <2>1. pc'[t] = pc[t] /\ waiting'[t] = waiting[t] /\ cursor'[t] = cursor[t]
    BY <1>2, <1>6 DEF OthersStay
  <2>2. PhaseSeen(t)' = PhaseSeen(t) /\ CursorSeen(t)' = CursorSeen(t)
    BY <1>4, <2>1 DEF PhaseSeen, CursorSeen, BeforeFirst, AtPiece
  <2> QED
    BY <1>5, <2>2
<1>7. SeenInParts(t) /\ SeenInParts(t)'
  BY Seen
<1>8. /\ params.grain \in Nat \ {0} /\ iteration \in Nat \ {0} /\ cursor[t] \in Int
      /\ cursor'[t] \in Int
  <2>1. Locals'
    BY <1>1, StepTypes
  <2> QED
    BY <1>1, <2>1, InputRemains DEF Locals
<1>9. CASE First(t) /\ u = t
  <2>1. /\ At(t, "first") /\ UNCHANGED <<launch, position>>
        /\ \/ /\ segmentZeroSamples # 0 /\ AtPiece(t)'
              /\ piece'[t] = EnteringPiece /\ cursor'[t] = EnteringPiece
           \/ segmentZeroSamples = 0 /\ At(t, "loop")' /\ cursor'[t] = 0
    BY <1>1, <1>9, LoopSteps
  <2>2. IsSeen(t, "first", 0) /\ ~Placing /\ ~PieceTaken(0)
    <3>1. PICK s \in Phases, c \in Int, p \in Int, i \in Int :
            \A v \in Threads : InPhase(s, v, c, p, i)
      BY Zenon DEF IInv, InOnePhase
    <3>2. ~Placing /\ ~PieceTaken(0)
      BY <1>1, <2>1, <3>1, BlockSizes, PositionHeld
    <3>3. BeforeFirst(t)
      BY <2>1 DEF BeforeFirst, At
    <3> QED
      BY <1>7, <3>2, <3>3 DEF SeenInParts
  <2>3. CASE segmentZeroSamples # 0
    <3>1. AtPiece(t)' /\ cursor'[t] < iteration'
      <4>1. EnteringPiece \in 0 .. iteration - 1
        <5>1. segmentZeroSamples \in 0 .. iteration - 1
          BY <2>2 DEF PInv
        <5>2. call < params.num_calls
          BY <2>1, InputRemains DEF PInv, Done, At
        <5>3. Remaining \in Nat \ {0}
          BY <5>2, InputRemains
        <5> QED
          BY <1>8, <2>3, <5>1, <5>3, SMT DEF EnteringPiece, AtMost
      <4> QED
        BY <1>4, <1>8, <2>1, <2>3, <4>1
    <3>2. IsSeen(t, "first", 0)'
      BY <1>7, <3>1 DEF SeenInParts
    <3> QED
      BY <1>5, <2>2, <3>2 DEF IsSeen
  <2>4. CASE segmentZeroSamples = 0
    <3>1. At(t, "loop")' /\ cursor'[t] = 0
      BY <2>1, <2>4
    <3>2. PhaseSeen(t)' = "loop" /\ CursorSeen(t)' = 0
      BY <1>7, <3>1 DEF SeenInParts, At, IsSeen
    <3>3. ZeroSeen = 0
      BY <1>7, <2>2, <2>4 DEF SeenInParts
    <3>4. PhaseSeen(t) = "first" /\ CursorSeen(t) = 0
      BY <2>2 DEF IsSeen
    <3>5. Pieces(t)!First
      BY <1>3, <1>4, <3>2, <3>3, <3>4 DEF Pieces!First, Pieces!launch, Pieces!position
    <3> QED
      BY <3>5 DEF Pieces!Next
  <2> QED
    BY <2>3, <2>4
<1>10. CASE Loop(t) /\ u = t
  <2>1. /\ At(t, "loop") /\ UNCHANGED <<launch, position>>
        /\ \/ /\ cursor[t] < params.grain /\ AtPiece(t)'
              /\ piece'[t] = PieceFrom(cursor[t]) /\ cursor'[t] = cursor[t] + iteration
           \/ ~(cursor[t] < params.grain) /\ pc'[t] = "done" /\ cursor'[t] = cursor[t]
    BY <1>1, <1>10, LoopSteps
  <2>2. IsSeen(t, "loop", cursor[t]) /\ cursor[t] \in Nat
    BY <1>1, <1>7, <2>1 DEF At, SeenInParts, CursorBehind
  <2>3. CASE cursor[t] < params.grain
    <3>1. AtPiece(t)' /\ ~(cursor'[t] < iteration') /\ cursor'[t] - iteration' = cursor[t]
      BY <1>4, <1>8, <2>1, <2>2, <2>3
    <3>2. PhaseSeen(t)' = "loop" /\ CursorSeen(t)' = cursor[t]
      BY <1>7, <3>1 DEF SeenInParts, IsSeen
    <3> QED
      BY <1>5, <2>2, <3>2 DEF IsSeen
  <2>4. CASE ~(cursor[t] < params.grain)
    <3>1. pc'[t] = "done" /\ cursor'[t] = cursor[t] /\ cursor[t] >= params.grain
      BY <1>8, <2>1, <2>4
    <3>2. CASE ~ChunkDone
      <4>1. PhaseSeen(t)' = "loop" /\ CursorSeen(t)' = cursor[t]
        BY <1>4, <1>7, <3>1, <3>2 DEF SeenInParts, IsSeen
      <4> QED
        BY <1>5, <2>2, <4>1 DEF IsSeen
    <3>3. CASE ChunkDone
      <4>1. PhaseSeen(t)' = "idle" /\ CursorSeen(t)' = 0
        BY <1>4, <1>7, <3>1, <3>3 DEF SeenInParts, IsSeen
      <4>2. ~(call + 1 < params.num_calls)
        BY <3>3, InputRemains DEF ChunkDone
      <4>3. Pieces(t)!EndCall
        BY <1>3, <1>4, <2>2, <3>1, <4>1, <4>2
           DEF IsSeen, Pieces!EndCall, Pieces!position
      <4> QED
        BY <4>3 DEF Pieces!Next
    <3> QED
      BY <3>2, <3>3
  <2> QED
    BY <2>3, <2>4
<1>11. CASE ~First(t) /\ ~Loop(t) /\ u = t
  <2>1. /\ UNCHANGED <<cursor, piece>>
        /\ \/ BeforeFirst(t) /\ BeforeFirst(t)'
           \/ AtPiece(t) /\ AtPiece(t)'
           \/ PieceTaken(t) /\ (PieceTaken(t)' \/ pc'[t] = "loop")
    BY <1>1, <1>11, StepStays DEF AtBarrier
  <2>2. CASE BeforeFirst(t) /\ BeforeFirst(t)'
    BY <1>5, <1>7, <2>2 DEF SeenInParts, IsSeen
  <2>3. CASE AtPiece(t) /\ AtPiece(t)'
    <3>1. cursor'[t] = cursor[t] /\ iteration' = iteration
      BY <1>4, <2>1
    <3> QED
      BY <1>5, <1>7, <2>3, <3>1 DEF SeenInParts, IsSeen
  <2>4. CASE PieceTaken(t) /\ (PieceTaken(t)' \/ pc'[t] = "loop")
    BY <1>5, <1>7, <2>1, <2>4 DEF SeenInParts, IsSeen
  <2> QED
    BY <2>1, <2>2, <2>3, <2>4
<1> QED
  BY <1>6, <1>9, <1>10, <1>11

(* The threads take a piece together, when they meet at the ring: the      *)
(* first of a call, or one of its loop.                                    *)
LEMMA MeetingIsPiece ==
  ASSUME IInv, PInv, NEW t \in Threads, Synchronize
  PROVE  UNCHANGED Pieces(t)!vars \/ Pieces(t)!Next
<1>1. 0 \in Threads /\ CursorBehind(t) /\ Locals
  BY BlockSizes DEF PInv, IInv
<1>2. /\ UNCHANGED <<launch, pc, locals, position>>
      /\ pc[t] = pc[0] /\ waiting[t] /\ waiting[0]
  BY <1>1, MeetingsAre
<1>3. /\ config' = config /\ params' = params /\ call' = call /\ iteration' = iteration
      /\ cursor'[t] = cursor[t] /\ piece'[0] = piece[0]
      /\ segmentOffset' = segmentOffset /\ segmentZeroSamples' = segmentZeroSamples
      /\ (ChunkDone' <=> ChunkDone) /\ (Translates' <=> Translates)
      /\ (Completes(0)' <=> Completes(0)) /\ NextOffset' = NextOffset
  BY <1>2 DEF launch, locals, position, iteration, ChunkDone, Translates, Completes,
     NextOffset, segments
<1>4. SeenInParts(t) /\ SeenInParts(t)'
  BY Seen
<1>5. CASE pc[0] # "rotate"
  <2>1. /\ BeforeFirst(t)' <=> BeforeFirst(t)
        /\ AtPiece(t)' <=> AtPiece(t)
        /\ PieceTaken(0)' <=> PieceTaken(0)
        /\ ~At(0, "rotate") /\ ~At(0, "rotate")'
    BY <1>1, <1>2, <1>5, MeetingsAre
  <2>2. PhaseSeen(t)' = PhaseSeen(t) /\ CursorSeen(t)' = CursorSeen(t)
    BY <1>2, <1>3, <2>1 DEF PhaseSeen, CursorSeen
  <2>3. OffsetSeen' = OffsetSeen /\ ZeroSeen' = ZeroSeen
    BY <1>2, <1>3, <2>1 DEF OffsetSeen, ZeroSeen
  <2> QED
    BY <1>3, <2>2, <2>3 DEF Pieces!vars, Pieces!launch, Pieces!position
<1>6. CASE pc[0] = "rotate"
  <2>1. /\ AtPiece(t) /\ PieceTaken(t)' /\ ~PieceTaken(0) /\ PieceTaken(0)'
        /\ ~At(0, "rotate") /\ At(0, "rotate")'
    BY <1>1, <1>2, <1>6, MeetingsAre
  <2>2. piece[t] = piece[0]
    <3>1. ThreadsAgree
      BY IInvAgree
    <3> QED
      BY <1>1, <1>2, <3>1 DEF ThreadsAgree
  <2>3. ~Placing /\ ~Placing'
    BY <1>2, <1>6 DEF Placing
  <2>4. OffsetSeen = segmentOffset /\ ZeroSeen = segmentZeroSamples
    BY <1>4, <2>1, <2>3 DEF OffsetSeen, SeenInParts
  <2>5. /\ OffsetSeen' = IF segmentZeroSamples + piece[t] = iteration
                         THEN NextOffset ELSE segmentOffset
        /\ ZeroSeen' = Remainder(segmentZeroSamples + piece[t], iteration)
    <3>1. OffsetSeen' = IF Completes(0) THEN NextOffset ELSE segmentOffset
      BY <1>3, <2>1 DEF OffsetSeen
    <3>2. ZeroSeen' = Remainder(segmentZeroSamples + piece[0], iteration)
      BY <1>3, <2>1, <2>3 DEF ZeroSeen, Placing
    <3> QED
      BY <2>2, <3>1, <3>2 DEF Completes
  <2>6. ASSUME NEW size, size = piece[t] PROVE Pieces(t)!Take(size)
    BY <2>4, <2>5, <2>6, PiecesGeometry DEF Pieces!Take, NextOffset, segments
  <2>7. IsSeen(t, "loop", cursor[t])'
    BY <1>3, <1>4, <2>1 DEF SeenInParts
  <2>8. /\ params.grain \in Nat \ {0} /\ iteration \in Nat \ {0} /\ cursor[t] \in Int
    BY <1>1, InputRemains DEF Locals
  <2>9. CASE cursor[t] < iteration
    <3>1. segmentZeroSamples # 0 /\ cursor[t] = EnteringPiece /\ piece[t] = EnteringPiece
      BY <1>1, <2>1, <2>8, <2>9 DEF CursorBehind
    <3>2. PhaseSeen(t) = "first"
      BY <1>4, <2>1, <2>9 DEF SeenInParts, IsSeen
    <3>3. piece[t] = Pieces(t)!AtMost(Pieces(t)!Remaining,
                       Pieces(t)!AtMost(params.grain, Pieces(t)!iteration - segmentZeroSamples))
      BY <3>1, PiecesGeometry DEF EnteringPiece
    <3>4. Pieces(t)!First
      BY <1>3, <2>4, <2>6, <2>7, <3>1, <3>2, <3>3
         DEF IsSeen, Pieces!First, Pieces!launch
    <3> QED
      BY <3>4 DEF Pieces!Next
  <2>10. CASE ~(cursor[t] < iteration)
    <3>1. cursor[t] - iteration < params.grain /\ piece[t] = PieceFrom(cursor[t] - iteration)
      BY <1>1, <2>1, <2>8, <2>10 DEF CursorBehind
    <3>2. PhaseSeen(t) = "loop" /\ CursorSeen(t) = cursor[t] - iteration
      BY <1>4, <2>1, <2>10 DEF SeenInParts, IsSeen
    <3>3. piece[t] = Pieces(t)!AtMost(
                       Pieces(t)!AtMost(Pieces(t)!Remaining, params.grain) - CursorSeen(t),
                       Pieces(t)!iteration)
      BY <3>1, <3>2, PiecesGeometry DEF PieceFrom
    <3>4. CursorSeen(t)' = CursorSeen(t) + Pieces(t)!iteration /\ PhaseSeen(t)' = "loop"
      <4>1. CursorSeen(t)' = cursor[t] /\ cursor[t] = (cursor[t] - iteration) + iteration
            /\ PhaseSeen(t)' = "loop"
        BY <2>7, <2>8, <1>3 DEF IsSeen
      <4> QED
        BY <3>2, <4>1, PiecesGeometry
    <3>5. Pieces(t)!Loop
      BY <1>3, <2>6, <3>1, <3>2, <3>3, <3>4 DEF Pieces!Loop, Pieces!launch
    <3> QED
      BY <3>5 DEF Pieces!Next
  <2> QED
    BY <2>9, <2>10
<1> QED
  BY <1>5, <1>6

(* A launch is one, and the next call is the end of the one before.        *)
LEMMA StartIsStart ==
  ASSUME PInv, NEW t \in Threads,
         NextCall \/ \E c \in Configs : LaunchInit(c) \/ LaunchNext(c)
  PROVE  Pieces(t)!Next
<1>1. /\ StartCall /\ LaunchIs(config) /\ 0 \in Threads
      /\ CursorBehind(t)
  BY BlockSizes DEF NextCall, LaunchInit, LaunchNext, PInv
<1>2. /\ pc[t] = "done" /\ BeforeFirst(t)' /\ pc[0] = "done" /\ pc'[0] = "begin"
      /\ ~PieceTaken(0) /\ ~PieceTaken(0)' /\ ~At(0, "rotate") /\ ~At(0, "rotate")'
      /\ segmentOffset' = segmentOffset /\ segmentZeroSamples' = segmentZeroSamples
  BY <1>1, StartsAre DEF position
<1>3. /\ OffsetSeen = segmentOffset /\ OffsetSeen' = segmentOffset
      /\ ZeroSeen = segmentZeroSamples
      /\ ZeroSeen' = IF Translates' THEN params'.init_buffer_offset % iteration'
                                    ELSE segmentZeroSamples
  BY <1>2, SMT DEF OffsetSeen, ZeroSeen
<1>4. PhaseSeen(t)' = "first" /\ CursorSeen(t)' = 0
  BY <1>2, Seen DEF SeenInParts, IsSeen
<1>5. ChunkDone => PhaseSeen(t) = "idle" /\ CursorSeen(t) = 0
  BY <1>2, Seen DEF SeenInParts, IsSeen
<1>6. CASE NextCall
  <2>1. config' = config /\ params' = params /\ call' = call + 1
        /\ call + 1 < params.num_calls
    BY <1>6 DEF NextCall
  <2>2. call \in Nat /\ params.num_calls \in Nat
    BY InputRemains
  <2>3. PhaseSeen(t) = "loop" /\ CursorSeen(t) = cursor[t]
    <3>1. ~ChunkDone
      BY <2>1, <2>2 DEF ChunkDone
    <3> QED
      BY <1>2, <3>1, Seen DEF SeenInParts, IsSeen
  <2>4. cursor[t] >= params.grain
    BY <1>1, <1>2, <2>1, <2>2 DEF CursorBehind
  <2>5. ~Translates'
    BY <2>1, <2>2 DEF Translates
  <2>6. Pieces(t)!EndCall
    BY <1>3, <1>4, <2>1, <2>3, <2>4, <2>5 DEF Pieces!EndCall, Pieces!position
  <2> QED
    BY <2>6 DEF Pieces!Next
<1>7. ASSUME NEW c \in Configs, LaunchInit(c) \/ LaunchNext(c)
      PROVE  Pieces(t)!LaunchInit(c) \/ Pieces(t)!LaunchNext(c)
  <2>1. config' = c /\ call' = 0 /\ PhaseSeen(t) = "idle" /\ CursorSeen(t) = 0
    BY <1>5, <1>7 DEF LaunchInit, LaunchNext
  <2>2. Pieces(t)!Launch(c)
    BY <1>3, <1>4, <2>1 DEF Pieces!Launch
  <2>3. CASE LaunchInit(c)
    <3>1. Translates'
      BY <2>3, LaunchInitIs
    <3>2. PICK offset \in InitOffsets(c.length, GrainFor(c.capacity), Rands) :
            /\ params' = [ParametersFor(c) EXCEPT
                            !.filter_length_to_translate_init = c.length,
                            !.init_buffer_offset = offset]
            /\ params'.init_buffer_offset = offset
      BY <2>3, LaunchInitIs
    <3>3. ZeroSeen' = offset % params'.input_samples_per_iteration
      BY <1>3, <3>1, <3>2 DEF iteration
    <3> QED
      BY <2>2, <3>2, <3>3, PiecesGeometry DEF Pieces!LaunchInit
  <2>4. CASE LaunchNext(c)
    <3>1. /\ params' = ParametersFor(c) /\ c.length = config.length
          /\ GrainFor(c.capacity) = params.grain /\ call < params.num_calls /\ ~Translates'
      BY <1>1, <2>4, LaunchNextIs
    <3>2. UNCHANGED ZeroSeen
      BY <1>3, <3>1
    <3> QED
      BY <2>2, <3>1, <3>2, PiecesGeometry DEF Pieces!LaunchNext
  <2> QED
    BY <1>7, <2>3, <2>4
<1> QED
  BY <1>6, <1>7 DEF Pieces!Next

LEMMA StepIsPiece ==
  ASSUME IInv, PInv, PInv', NEW t \in Threads, [Next]_vars
  PROVE  UNCHANGED Pieces(t)!vars \/ Pieces(t)!Next
<1>1. CASE UNCHANGED vars
  <2>1. UNCHANGED <<launch, pc, waiting, cursor, piece, position>>
    BY <1>1 DEF vars, locals
  <2>2. PhaseSeen(t)' = PhaseSeen(t) /\ CursorSeen(t)' = CursorSeen(t)
    BY <2>1 DEF launch, PhaseSeen, CursorSeen, BeforeFirst, AtPiece, ChunkDone, iteration
  <2>3. OffsetSeen' = OffsetSeen /\ ZeroSeen' = ZeroSeen
    BY <2>1 DEF launch, position, OffsetSeen, ZeroSeen, PieceTaken, At, Completes, NextOffset,
       Translates, iteration, segments
  <2> QED
    BY <2>1, <2>2, <2>3 DEF launch, Pieces!vars, Pieces!launch, Pieces!position
<1> QED
  BY <1>1, StartIsStart, MeetingIsPiece, ThreadStepIsPiece DEF Next

(* Every thread of a block sees what FirDevice has the block do: one piece *)
(* after the other, each at once, although the threads interleave between  *)
(* the barriers and thread 0 writes the position in two places.            *)
THEOREM ThreadsImplementPieces == Spec => ThreadsTakePieces
<1>1. Init => \A t \in Threads : Pieces(t)!Init
  BY PiecesBegin
<1>2. IInv /\ PInv /\ PInv' /\ [Next]_vars =>
        [\A t \in Threads : UNCHANGED Pieces(t)!vars \/ Pieces(t)!Next]_vars
  BY StepIsPiece
<1>3. Spec => []PInv
  BY InitPInv, NextPInv, IInvAlways, PTL DEF Spec
<1> QED
  BY <1>1, <1>2, <1>3, IInvAlways, PTL DEF Spec, ThreadsTakePieces
=============================================================================
