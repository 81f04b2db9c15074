# fir_processor in TLA+

A verification project for `fir_processor`, a GPU Audio processor that
convolves audio with impulse responses: TLA+ modules translated from its C++ and
device code, TLC runs over them, and TLAPS proofs about them. Paths below are
relative to `src/fir_processor/src/` unless they begin with `src/`.

## 1. The system

A DAW engine (not in this repository) loads the module library, asks it for a
`FirModule`, and through that creates one `FirProcessor` per place of use. It
connects the processor's input port, tells it of changes of that port, sends it
messages that choose an impulse response, and for every launch asks it to prepare
chunks. The GPU scheduler runs the device code, `FirProcessorDevice`, for each
chunk.

```
   engine ── Connect, InputPortUpdated, PrepareForProcess, PrepareChunk ──> FirProcessor
                                                                              │ owns
   GPU scheduler ── process(call, block) ──> FirProcessorDevice               v
                        │  reads fir::ProcessorParameter              StaticIRShare
                        └──── GPU memory  <── allocates, frees ──  m_shared_irs (static)
                                                                              │ reads
                                                             ImpulseResponseStore (static)
```

| Component | State | Operations | What is hard | What makes it right |
|---|---|---|---|---|
| `FirProcessor` (`FirProcessor.cpp`, `.h`) | loaded response, `m_old_choice`, `m_changed`, `m_recompute_filter`, cached grain, channels and geometry, sizes of GPU buffers, output port, blueprint | the constructor, `SetData`, `PrepareForProcess`, `OnBlueprintRebuild`, `PrepareChunk`, `Connect`, `Disconnect`, `InputPortUpdated` | everything is cached and recomputed only if something seems to have changed; three parties hold copies (device, engine, next processor) | a chunk is launched with what its filter and buffer call for; no copy is stale |
| `StaticIRShare` (`convolution_filter/StaticIRShare.*`) | the static map `m_shared_irs` with buffers and counters; per processor the key, the cached pointers and steps | `LoadImpulseResponse`, `GenerateIR`, `unload`, `getRawIR`, `getSegments` | several threads, several critical sections per request, pointers used outside the mutex, exceptions in the middle | counters exact, pointers live, no leaks, no mix-up |
| `FirProcessorDevice` (`device/FirProcessor.cuh`) | per channel `_segmentOffset`, `_segmentZeroSamples`; the ring of input spectra and the overlap, shared by all channels | `init`, `process`, `processInternal` | overlap-add cut by chunks, calls and partly filled iterations; a ring of changing length; blocks running at once; threads of a block ordered only by barriers | the output is the convolution of the stream; no data races |
| `ImpulseResponseStore` | vectors of files, compensated files, flags; `m_preloaded` | `GetInstance`, the constructor, parallel preload, `GetGainCompensatedIr` | threads racing for the instance; workers writing vectors others will read without a lock; files that do not load | every reader gets the file, compensated once, and undisturbed |
| `FirModule` | none of its own | `CreateProcessor`, `DeleteProcessor` | constructors that throw half-way; processors that go while chunks of others run | what is created is deleted once; no chunk loses its filter |
| `FirModuleLibrary` | none | create and delete the module, the info provider and the code provider | failing constructors | what is created is deleted |
| `FirDeviceCodeProvider` | the stream last handed out | `GetDeviceCode`, `StreamAdapter::Read` | reading at the end of the stream | all bytes, in order, and then an end |
| `FirModuleInfoProvider` | constants | queries | the last index | all platforms, then `eOutOfRange` |
| `IRFilter`, `ConvolutionFilter` | as `StaticIRShare`, unshared | | | compiled out: `Properties.h:18` defines `SHARED_IRS` |

The hazards these lead to are listed one by one, with their lines and the
properties that watch them, in `PROJECT.json`.

## 2. The modules

| Module | Models | Extends |
|---|---|---|
| `FirGeometry` | the arithmetic of `UpdateFilterCoefficients` and `Connect`: grains, segments, iterations, calls, sizes of buffers, and the parameters of a chunk | |
| `IRInfo` | `StaticIRShare::IRInfo`: which response a key stands for, and what loading does to the key | |
| `IRResidency` | abstract specification of the cache | |
| `StaticIRShare` | the cache, with any number of processors on threads of their own | `FirGeometry`, `IRInfo` |
| `FirProcessor` | the host side of one processor, with the engine's calls | `FirGeometry`, `IRInfo` |
| `FirDevice` | the device side: launches, calls, blocks, iterations | `FirGeometry` |
| `FirBlock` | the threads of one block of the device, and their barriers | `FirGeometry` |
| `FirPieces` | abstract specification of a block: the pieces of its input, and the position they leave it at | `FirGeometry` |
| `FirSystem` | `FirModule`, several processors and the queues of their chunks: creation, change of filter, launch and deletion, composed with the cache | `StaticIRShare` |
| `ImpulseResponseStore` | the store, with threads that ask for it | |
| `FirModuleLibrary` | the exported functions, the device code and its stream | |
| `FirGeometryProofs`, `StaticIRShareProofs`, `FirProcessorProofs`, `FirDeviceProofs`, `FirBlockProofs`, `FirSystemProofs`, `ImpulseResponseStoreProofs`, `FirModuleLibraryProofs` | theorems | their component, and the proofs they rest on |
| `MC*` | values of the constants for TLC | their component |

Operators named after a mutation (each marked `mutant` where it is defined)
are plausible mistakes; they are not used by the specifications.

### FirGeometry
`GrainFor`, `InputSizePerIteration`, `SegmentCount`, ... are the expressions of
`FirProcessor.cpp:293-330`, `NumCalls` that of lines 186 and 236, and `InitOffsets`
the random start of lines 144-148. `LaunchParameters` puts them together to the
`fir::ProcessorParameter` of a chunk: `FirProcessor` must send it (property
`LaunchAsDeviceExpects`) and `FirDevice` starts from it, so it is the interface
between the two modules.

### StaticIRShare
`pc[s]` is the place of processor `s`'s thread between critical sections. A
request runs `LoadImpulseResponse` (with `unload`: a critical section), `GetRawIR`,
`GetSegments` (one each), and other processors' sections come in between.
`Released` is the counting part of `unload`, `ResetFields` its end, `Counted` the
first-buffer-counts rule of lines 105-108 and 133-136. `sharedIrs` is the map, a
partial function from keys to `Data`; `gpu` is the memory manager: address to size
and content. Content is a name: samples of a response, their spectrum, or
uninitialised. `AllocateGpuMemory` may throw when `AllocMayFail`: in a constructor
the share is destroyed by unwinding (`OwnBufferFails`, `RawIRFails`, `SegmentsFail`,
then `Destroy`); in `SetData`, which is `noexcept`, the process ends and there is
no next state. `Reconnect` is the update of the coefficients without a new
response, after a change of the port: the pointers are asked for again and found.
`TranslateFilter` is the device's part in the life of the shared segments. uint32
fields that are compared with ints are written as the ints with the same bits, so
0xFFFFFFFF is -1, and `LoadImpulseResponse(-1)` finds itself loaded, as in the code.

### FirProcessor
One action per call of the engine, each with all it does: `Connect` adopts the
port, updates the coefficients (and grows buffers), announces, and compares the
blueprint. `SetDataEffect` is shared by `SetData` and `PrepareForProcess`, as in
the code. `phase` is the engine's side of a launch: `PrepareForProcess` says
whether the blueprint must be rebuilt, `OnBlueprintRebuild` follows if so, then
any number of `PrepareChunk`. The engine's connecting calls come between
launches; while chunks are prepared a port update may change only the number of
samples. Port flags of a change are chosen by the environment: each differing
attribute is flagged, perhaps with flags of attributes that are not modelled, or
everything is reset. `chunk` and `translated` record what was launched and when
the filter was last translated.

### FirDevice
A launch is `num_calls` calls one after the other (`EndCall`), each with one block
per channel; blocks interleave. A block runs `InitFilter`, `ProcessFirst` (fill up
the open iteration) and `ProcessLoop` steps, each one `processInternal`, taken as
atomic: `FirBlock` shows that its threads do not interfere. A spectrum is represented
by the 2 * FftLength samples it belongs to, and the multiplication of spectra by
circular convolution, so aliasing is in the model. The device's code never looks at the value of a sample, and each
of its steps is linear in input and filter: so a stream is one unit sample at any
time in any channel and a filter one unit tap, and the output must be one unit
sample. `Config`s are length of filter, capacity of the buffer and samples in it.
`Pieces(b)` is `FirPieces` as block `b` implements it: `InitFilter` is no step of it (a
launch that translates puts the position where `init` will), and `EndCall` ends every
block's call.

### FirBlock
The same control as `FirDevice`, but for one channel and with every thread at a step
of its own. `pc[t]` is the step thread `t` takes next, `waiting[t]` says that it is at
the `context.synchronize()` in front of it, and `Synchronize` lets the block go on
when all wait at the same place. Steps are the stretches of code between barriers, or
finer where a branch or loop needs it. Of the data only `_segmentOffset` and
`_segmentZeroSamples` are kept, because the threads branch on them; of the rest
`Reads(t)` and `Writes(t)` give the cells a step touches: floats of shared memory, bins
of the ring and of the response, samples of overlap and output. A data race is two
threads that could take their steps now, one writing what the other touches.
Transforms are a library's and synchronise their own steps.

`Pieces(t)` is `FirPieces` as thread `t` sees it. A piece is taken when the threads meet at
the barrier before `rotate`: earlier the thread has already moved its cursor
(`CursorSeen` takes that back), later thread 0 has yet to write `_segmentOffset` and, many
barriers on, `_segmentZeroSamples` (`OffsetSeen` and `ZeroSeen` run ahead). What
`FirDevice` does in one step and what the threads do in some two dozen are thus both steps of one
specification.

Taking one barrier away at a time tells which ones the code needs for this: not the
ones at `device/FirProcessor.cuh` 211, 216, 257, 226 (where the branch behind it is
taken) and 322, each of which only separates accesses of a thread to its own bins,
and not 294 for the iterations that occur (they are longer than a block). All others are
needed, 284 and 305 among them.

### FirPieces
`LaunchInit`, `LaunchNext`, `First`, `Loop` and `EndCall` of one block, with the position
and nothing else: `Take(size)` moves `_segmentZeroSamples` on and, at the end of an
iteration, the ring.

### FirSystem
Each processor of `StaticIRShare` gets `m_recompute_filter` and the queue of its chunks
that are prepared and not finished; a chunk carries the pointers, the key and the
request to translate it was prepared with (`Chunk`). `CreateProcessor` and
`DeleteProcessor` are `FirModule`'s; a constructor that threw ends in
`CreationFailed`. `TranslateChunk` and `FinishChunk` are the GPU: the chunks of one
processor run in order (`device/FirProcessor.cuh:85-86`), those of different
processors in any. The module states what the code expects of the engine:
`SetData`, `Connect`, `InputPortUpdated` and `DeleteProcessor` are called only when no
chunk of *that* processor waits or runs (`Drained`). About the chunks of others nothing
is assumed, and they are what a shared response endangers.

### ImpulseResponseStore
Callers join with `EnterGetInstance`, and one of them constructs while the others wait, as
C++ guarantees for a static (`Construct`). The constructor may throw while it searches
the directories (`ConstructorThrows`): nothing is made, the one caller unwinds, and the
next one waiting tries. `LoadFile` and `CompensateSlot` are the two steps of a worker on one slot,
`FinishPreload` the end of the parallel loop, and the readers come later. An audio
file is its name and how often its gain was compensated. A slot in `Unreadable` is
never loaded; its worker goes on all the same with `NoAudio`, as the release build does.

### FirModuleLibrary
One engine goes through the exported functions: it lists the platforms
(`GetSupportPlatformInfo`), opens the code of one (`GetDeviceCode`), reads it in pieces
of any size (`Read`, with the behaviour of `istream::read`, `gcount` and `good`), and
creates and deletes the module. Creations may fail, and a platform may have no code.

## 3. The runs

| Run | Module, instance | Shows |
|---|---|---|
| `MCStaticIRShare` | 2 processors, 4 blocks, keys that differ in one field each, a stereo file, a choice of -1, failing allocations | `TypeOK`, `NoOrphanMemory`, `PointersInBounds`, `OwnImpulseResponse` |
| `MCFirDevice` | FftLength 12, one channel, filters of 10, 18 and 30 taps, buffers of 2, 8, 12 and 24 samples, two of them partly filled; any of three random starts | `TypeOK`, `OutputIsConvolution`, `PositionIsStreamTime`, `WrittenOnce`, `LaunchCompletes` |
| `MCFirDeviceReinit` | FftLength 4, two channels whose blocks interleave, two streams one after the other | `OffsetInRing`, `OutputIsConvolution`, `BlocksTakePieces` |
| `MCFirProcessor` | FftLength 8, seven ports, choices -20, -1, 0 and 1 | its eight properties |
| `MCImpulseResponseStore` | 2 threads, a constructor that may throw, 3 slots, one of them unreadable; 0, 2, 3 or 5 files | its four properties `TypeOK`, `ReadersSeeCompensated`, `ReadersUndisturbed`, `CallersServed` |
| `MCFirSystem` | 3 processors, 4 blocks, 2 responses, 2 chunks each, failing constructors | `RefcountExact`, `HandlesLive`, `ImplementsResidency`, `ChunksFindTheirFilter`, `ChunksFindTheirSpectrum`, `UsesCacheAsSpecified` |
| `MCFirBlock` | FftLength 16, 4 threads, five filters and buffers | `NoDataRace`, `ThreadsAgree`, `ThreadsTakePieces`, `CallEnds` |
| `MCFirModuleLibrary` | 3 platforms: one with 40 bytes of code, one with an empty file, one with none; reads of 1, 6 and 8 | `CodeComplete`, `ReadingEnds` |

`BlocksTakePieces` and `ThreadsTakePieces` say that every block and every thread satisfies
the specification of `FirPieces`. They are written as its initial predicate and its step
for all of them at once, because TLC takes no quantifier over `Spec`.

Each property has a mutant of the code it fails for; `PROJECT.json` lists them.

Bounds, and why they are enough:

- *Transforms.* FftLength is 2048 (1024 on Mac), here 4 to 16. The code's
  decisions depend on how grain, filter length, iteration and FftLength compare;
  the instances have filters shorter and longer than FftLength with one to three
  segments, grains below a quarter, in between and at FftLength, grains that divide
  the iteration and grains that do not, and buffers of one and of two calls.
- *Streams.* `MaxTime` is long enough for the unit sample to pass the ring and
  the overlap completely: it reaches past the latest impulse by the filter and two
  iterations. `MaxInits` 2 is the smallest with a re-initialisation.
- *Configurations* of the passing device runs have an even filter length and
  chunks that fill their calls or, with a filter of one segment, end inside their last
  one, be it the only one or the second; the other cases are the violations below.
- *Threads.* Two threads would let any two steps meet; with four, the other user of a
  cell need not be the neighbour, and loops take several rounds. `FirBlock`'s filters
  of different segment counts do not follow each other (that is
  `MCFirDeviceShrinking`), and its chunks reach into their last call (the others are
  `MCFirDeviceShortChunk`).
- *Chunks.* With two, one waits behind one that translates; a third would wait alike.
- *Code.* Reads of 1 and 8 end exactly at byte 40, reads of 6 do not, in any mixture.
- *Processors.* Two show every interference between a holder and another; the
  third tells a counter from a flag. Four blocks are all that two responses
  need, so an allocation fails only where the model lets it throw.
- *Ports.* Seven: capacity below a quarter, between, at and above FftLength
  (one and two calls), one partly filled, one or two channels, one of an unsupported
  type and one with too many channels.
- *Choices.* Two files and two generated responses, one of them as long as the second
  file, and one that of -1, which the code cannot tell from "no file".
- *Slots.* Three slots for `MAX_IR_COUNT` (10): fewer, as many, and more files.

Deadlock is checked except for the device, whose streams end at the bound.

*Fairness.* Four runs need it. In `FirDevice`, `WF` of each block's steps and of
`EndCall`: the scheduler runs all blocks of a launched call, and the calls in order
(`device/FirProcessor.cuh:83-86`); launches themselves are not fair. In `FirBlock`, `WF`
of each thread's steps and of `Synchronize`: a launched block's threads all run. In
`ImpulseResponseStore`, `WF` of the work on each slot, of the end of the loop, of
each waiting caller's attempt to construct and of its return: `std::for_each` gives every
index to a running thread, and a static's waiters return when it is constructed. If an
attempt throws, the next waiting caller makes one, and none is passed over for ever; that
an attempt succeeds is not assumed, and nobody is obliged to call. In
`FirModuleLibrary`, `WF` of reading, by any size: the engine reads until it is told that
there is no more.

### Where the code disagrees with its own words

Four runs end in a violation, each of one property, and stay in the project as
the record of it. The passing runs take other instances (even lengths, equal
segment counts, whole grains or a partly filled last call, `last_choice` 0) or state the
weaker property that holds (`ChoiceHonoured`, with -1 apart), and the theorems concerned,
`ChoicesHonoured`, `OffsetStaysInRing`, `PositionFollowsStream`, `SamplesWrittenOnce`,
`DeviceTypeCorrect` and `OutputConvolves`, state their conditions.

| Run | What happens |
|---|---|
| `MCFirDeviceShrinking` | `init(context, params)` does not reset `_segmentOffset`; with fewer segments than before it lies outside the ring it "points to". |
| `MCFirDeviceOdd` | `checkedLoad` drops the last sample of a piece of odd length. |
| `MCFirDeviceShortTail` | If the last call is shorter than the grain and ends with the open iteration, a piece of no samples follows and adds the history to the overlap a second time. |
| `MCFirProcessorLastChoice` | `m_old_choice` ignores the construction data's `last_choice`, so the first message 0 after construction with another choice is dropped. |

Two more configurations are not among the runs of `PROJECT.json`: they violate a property
too, but what they show is a case the passing runs and the theorems leave out by a stated
condition. They are checked by hand, with `tlc -config X.cfg M`:

| Configuration | Module | What happens |
|---|---|---|
| `MCFirDeviceShortChunk.cfg` | `MCFirDevice` | `PositionIsStreamTime` fails. The calls come from a port's capacity, the samples from its size, and nothing ties them. With 2 samples in a buffer of 8 and grains of 4, the second call works with -2 samples: it moves the position back, and would enter the overlap before its beginning. Whether the engine launches calls without samples is not in this repository. |
| `MCFirProcessorMinusOne.cfg` | `MCFirProcessor` | `EveryChoiceHonoured`, which is `ChoiceHonoured` without its exception for -1, fails. 0xFFFFFFFF means "no file" and is compared with the int index, so choice -1 is dropped while any generated response is loaded (`StaticIRShare.cpp:37`). |

One more place depends on what surrounds the code: `assert(loaded)`
(`ImpulseResponseStore.cpp:96`) is all that looks at a failing load. In a release build the
slot of such a file is marked as compensated like the others; `ReadersSeeCompensated` says
that its readers find an empty file, and the others theirs.

## 4. The proofs

`tlapm` proves every theorem for all values of the constants that satisfy the
named assumptions: any number of processors, blocks, responses and ports, and any
length of transform divisible by 4.

**`StaticIRShareProofs`**: `TypeCorrect`, `CountersExact`, `HandlesStayLive`,
`NothingLeaks` and `Refinement` (the cache implements `IRResidency`). None of these
is inductive alone. `IInv` adds to `TypeOK`:

- `Phases`: which fields can be set at which `pc` (a share between `getRawIR` and
  `getSegments` holds its raw buffer, for example);
- `Handles`: a share is counted exactly if it has a cached pointer, and its pointers
  are those of its entry;
- `Counts`: counters are cardinalities of the sets of holders;
- `Ownership`: each entry's blocks are live, no two buffers share one, and every
  live block is in an entry with a holder.

The counter must be exact for the last user to be recognised, the last user must
be recognised for the others' pointers to stay live, and pointers must be live for
a holder's entry to be found when it unloads: so they are proved together. The proof
has one lemma for each action; releasing and counting a reference are lemmas on
cardinalities of holder sets, used by several actions. Refinement follows step by
step: `GetRawIR` of an uncounted share is `Acquire`, `LoadImpulseResponse` and
`Destroy` of a counted one are `Release`, all else stutters.

The same module proves `ChannelsInBounds` (`PointersInBounds`) and
`ConvolvesWithOwn` (`OwnImpulseResponse`). To `IInv` it adds `Contents`: what a block of an
entry holds and how large it is depends on the entry's key alone (`RawOfKey`,
`SegmentsOfKey`), a share's steps and channels are those of its own key
(`StepsOfShare`), and what a share has translated stays so (`TranslatedOfShare`): another
holder's translation writes the same spectrum over it, and nobody else has the block.

**`FirSystemProofs`**: `SystemRefinement` (each step of the composition is a step of the
cache's specification or leaves it alone, so everything proved of the cache holds in it),
`ChunksKeepTheirFilter` and `ChunksGetTheirSpectrum`. `SystemInv` says that every
queued chunk has the pointers and the key its processor has *now* (`Queued`; here
`Drained` is needed), and that the request to translate is at exactly one place:
with the host, with the first chunk, or done (`Pending`).

**`FirProcessorProofs`**: all eight properties. `IInv` is in two parts: the host's
(`TypeOK`, the cached coefficients are those of the present filter and port
(`Current`), the buffers are big enough for them (`Sized`), an unconnected output is
silent, and the blueprint is current whenever `m_changed` is not set
(`Blueprints`)), and the chunk's: between a change and the next chunk
`recomputeFilter` is set, and otherwise `translated` is the present setup.
`ChoicesHonoured` assumes that `LastChoices` is at most {0}, which run
`MCFirProcessorLastChoice` does not meet. It says of choice -1 only that a generated
response is loaded then, and of every other choice that it is the one loaded
(`MCFirProcessorMinusOne`).

**`FirGeometryProofs`**: `NoAliasing` (a segment of the filter and an iteration of
the input fill a transform exactly, so circular convolution is linear),
`SegmentsCoverFilter`, `CallsCoverBuffer`, `GrainFitsIteration`, `StepsHoldChannel` (a
channel's part of a shared buffer holds it, is a multiple of 128 bytes, and wastes less
than that).

**`FirDeviceProofs`**. Each theorem names the launches it is about, and lacks exactly what a
violating run has:

| Condition | In words | Needed, as shown by |
|---|---|---|
| `ReachLastCall` | a chunk's samples reach into its last call | `MCFirDeviceShortChunk` |
| `EqualSegments` | all filters have equally many segments | `MCFirDeviceShrinking` |
| `EvenSizes` | filters, samples and grains are even | `MCFirDeviceOdd` |
| `FullCalls` | with several segments, a chunk's calls are full | `MCFirDeviceShortTail` |

- `PositionFollowsStream` (`ReachLastCall`), `OffsetStaysInRing`
  (`EqualSegments`). `IInv` says what `PositionIsStreamTime` says between launches at every
  step: after so many samples the position is the remainder of origin and time
  (`Located`), where a block in the loop has consumed `cursor` samples or, after its last
  piece, all there are; and it is at the start of an iteration, or has nothing left
  (`BlockAt`).
- `SamplesWrittenOnce` (`ReachLastCall`): the output written so far is the part of the
  launch already consumed, so no piece meets a sample that is there.
- `DeviceTypeCorrect` (`ReachLastCall`, `EqualSegments`): the buffers hold signals of the
  transform's length, the ring one per segment.
- `OutputConvolves` (all four), the main result: for any length of transform, any channels,
  filters, buffers and random starts, and any interleaving of blocks, each output sample of
  every chunk is that of the convolution of the whole stream with the filter. The
  invariant is `Remembers(b, t)`, with `t` the stream time block `b` has consumed: the
  response it translated is the filter's segments (`Filtered`); segment `i` of its ring,
  counted from the offset, is the input it heard `i` iterations ago (`RingAt`); and its overlap
  is what earlier iterations still owe the output (`OverlapAt`). A piece keeps that
  through its load, the sum over the ring, the output and the carry of the overlap. The
  sums are folds over sets; the lemmas on them go by induction on finite subsets,
  stated for sets, which the prover can instantiate. The strides keep the channels
  apart: a piece of block `b` leaves the others' parts of both buffers alone.
  TLC checked the invariant before it was proved, on the instance of `MCFirDeviceReinit`
  (144602 states), which meets the four conditions, and on that of `MCFirDevice`'s streams
  (81177). The latter has filters of different segment counts, but with `MaxInits` 1 no
  behaviour has two of them, so each is, up to the room in the buffers, one of an
  instance that meets the conditions.
- `BlocksImplementPieces`: every block implements `FirPieces`, without a condition, and so
  also in the launches the others exclude.

That a stream of one unit sample and a filter of one unit tap stand for all is
linearity, and stays an argument in words (`FirDevice`, above).

**`FirBlockProofs`**: `BarriersSuffice` (`NoDataRace`), `BarriersMatch` (`ThreadsAgree`) and
`ThreadsImplementPieces`, for any number of threads. `FirBlock` leaves out two kinds of
launch the code can meet, and the theorems with it: chunks that do not reach into their last
call (`BlockAssumption`; the device's `ReachLastCall`) and a filter of another number of
segments than the one before (`LaunchInit`; `EqualSegments`). The inductive invariant `InOnePhase` is that
all threads are in one phase, the stretch of code from a barrier to the next: a thread is at
one of the phase's steps or waits at its end. With the phase go the cursor, the piece
and the loop variable with which all entered it, and for each branch what the position
said, so that all threads behind a branch took it alike. The loop that carries the
overlap is the hard part: where its barrier is skipped a thread may be several rounds
ahead, but then these rounds read nothing (`Carries`, `CarriesApart`). From
one phase follows that barriers match, and, step by step, that two threads in it touch
different cells: bins and strides that are equal modulo the number of threads, or
reads of what nobody in this phase writes. TLC checked the invariant on the instance of
`MCFirBlock` (338282 states) first, and on the same `PInv`, which the refinement adds: the
cursor of a thread at a piece is behind that piece, whose length is not negative (`CursorBehind`), and the position is
inside an iteration once thread 0 has placed the channel. Then each step of each
thread is seen as one of `FirPieces` or as none (`ThreadStepIsPiece`, `MeetingIsPiece`,
`StartIsStart`).

**`ImpulseResponseStoreProofs`**: `StoreTypeCorrect`, `FinishedResponsesRead`,
`NobodyWritesWhatIsRead`. The invariant adds what each slot holds before and after its
worker (`SlotInv`), that nobody has read before the constructor ended and that it ends
after all workers (`PhaseInv`), and that what was read is still there (`SeenInv`).

**`FirModuleLibraryProofs`**: `CodeIsComplete`. While the engine reads, it has the bytes
before the position, and a stream that is not good is at its end (`Reading`).

**Only model-checked**: liveness (`LaunchCompletes`, `CallEnds`, `CallersServed`,
`ReadingEnds`), since fairness and ENABLED are outside what the prover does. Every
invariant and every action property of the runs that pass is also proved, the device's
under the conditions above.

**Assumptions**: `FftLengthAssumption`, `StoreAssumption`, `SharesAssumption`,
`InputAssumption`, `NullAssumption`, `ProcessorAssumption`, `ConfigsAssumption`,
`StoreSizeAssumption`, `NoAudioAssumption`, `QueueAssumption`, `BlockAssumption`,
`LibraryAssumption`, each beside the constants it is about. TLC evaluates all of them in
the runs. In words: FftLength is a multiple of 4; files have channels and
samples; indices are those of existing files; ports have capacity and no more
samples than it.

## 5. What is not modelled

- Floating point: spectra are exact. The inside of the library's transforms.
- Wrapping of uint32 sizes: they are products of numbers far below 2^32 for any
  filter that fits a GPU; the one product meant to wrap is an arbitrary number.
- The engine: which calls it makes when is inferred from the interface and the
  comments in `src/`; what `FirSystem` needs of it is stated there. The
  specifications do not say whether calls without samples are launched.
- `RunProfiling`: its body is unreachable (`estimate` is 100).
- Capacity 0, filter length 0, an index with no file, the smallest int as a choice: the
  code checks none of these, and what follows is undefined; they are excluded by
  assumptions and listed as hazards. What a processor does with a file that did not load
  (a filter of length 0) is among them.
- Lack of memory in the store: in a parallel worker it ends the process, in the constructor it
  is one more way to throw.
- Failures of `MemCpyCpuToGpu`, and different memory managers sharing the static map.
- The info provider's tables of names, versions and entry points, and the tables of
  transform sizes in `device/SM_FFT_parameters.cuh`: constants.
- `IRFilter`: not compiled (`SHARED_IRS` is defined), nor would it, as its
  constructor does not take the arguments `FirProcessor` passes.
- The build and the one test, which is of the info provider's tables.

## 6. Plan

Done: every component but those of section 5, with the composition of the module, the
processors, the cache and the chunks, and proofs of all their safety properties.

Left:

1. An abstract stream filter (input history to output) that `FirDevice` implements chunk
   by chunk, in place of the state predicate `OutputIsConvolution`.
2. The safety half of the liveness properties: a measure that every step of a launch, of a
   call or of a read lowers, so that only fairness is left to TLC.
3. The host side of several processors, `FirProcessor`'s ports and blueprints, in
   `FirSystem`, which has only its share and its recompute flag.
