# Specifications of MaxFluidsExternal

TLA+ models of the concurrent core of the Jitter externals in this repository:
of `jit.tml.fluid2` the two schedulers that run a fluid simulation row by row on
several threads, the blocking queue and the worker threads under them, the task
lists and row functions that a frame of the fluid consists of, and the network
streams, field server and field client; of `jit.tml.fluid` the task sequence and
the externals around it. TLC checks the models on small instances; TLAPS proves
the safety properties of the queue, the worker threads, both schedulers, the
frames, the row functions, the streams, the field pair and the task sequence for
every size.

Paths below are relative to `src/jit.tml.fluid2/FluidApp/` unless they begin
with `src/`.

## 1. The system

| Component | State | Operations | Interacts with |
|---|---|---|---|
| Message queue, `mp_queue.c` | ring of slots, two indices, counts of stalled readers and writers, mutex, two conditions | create, push, pop, clear, free | task world, atomic scheduler, frame handshake |
| Scheduler on Grand Central, `mp_coherence_gcd.c` | table of tasks `m_data` (fn, dep, cur), one serial queue and one group per task | `mpCTaskAdd`, `mpCTaskLaunch`, `mpCDispatchFn` (callback), `mpCTaskWait`, `mpCReset` | fluid (calls it and is called back), libdispatch |
| Frame of the fluid, `fluid/fluid_cpu.c`, `src/jit.tml.fluid2/jit.fluid.c`, `jit.tml.fluid2.c` | table of row functions `m_fns`, pointers to fields, which advection exchanges | `addData`, `paramMess`, `fluidAdvanceASync`, `fluidAdvanceSync` | scheduler, row functions |
| Row functions, `fluid/fluid_*.c` | none; they read and write rows of fields | one function per kernel | called by the scheduler on any thread |
| Scheduler on atomics, `mp_coherence.c` | progress words, a queue of ready tasks, a count of blocked workers | obtain, complete, push ready tasks | queue or stack, workers |
| Task world, `mp_taskWorld.c` | worker threads, a queue of free communication records, a queue of work | launch, flood, quit | queue |
| Frame handshake without Grand Central, `fluid_cpu.c`, `jit.fluid.c` | `r_blocker`, a queue of tokens | `fluidMP`, `fluidAdvanceSync` | queue, task world |
| Lock-free stack, `mp_stack.c` | versioned list heads | push, pop | atomic scheduler (sequential build) |
| Network streams, `net/netInStream.c`, `net/netOutStream.c` | ring of messages of variable size, reader or writer thread | read, done reading, buffer, send, free | sockets, field server and client |
| Network server and client, `net/netServer.c`, `net/netClient.c` | accept thread, running connections, delegate | create, set delegate, free | field server |
| Field server, `field/field_server.c` | two fields, `needSwap`, ring of eight messages | lock, unlock, next message, connection thread | network server, in-stream |
| Field client, `field/field_client.c` | field to send, `allSent` | lock, unlock, send, sending thread | network client |
| Task sequence, `src/jit.tml.fluid/advection/FXTaskSequence.m` | counters of slices and of finished threads | launch, wait for a task | threads of `jit.tml.fluid` |
| Objects, errors, wrappers, fields, bit streams | reference counts, thread-local error stacks, buffers | sequential | all |

`PROJECT.json` lists every component, with what is and what is not modelled.

### What makes it hard

*A frame is not synchronised row by row with locks.* Every task of a frame
(inputs, forces, viscosity, pressure, advection, output) is a function run once
per row; the only thing that keeps two tasks apart is the distance declared with
`mpCTaskAdd(o, x, fn, dep)`: the scheduler must let row *y* of a task run only
when the task before it is past row *y + |dep| + 1*. Reads of rows to come
*and* overwriting of rows still being read (the fields are updated in place)
depend on it. The scheduler keeps the distance by *counting*: all blocks of a
task are alike, and a finished row of one task queues zero, one, or (last row)
many blocks of the next. The wait at the end of a frame waits for groups one
after the other, each of which may be empty for a moment in the middle of the
frame.

*Conditions with counters.* The queue signals a condition only if it believes
that somebody waits; the belief is a counter that the waiter increments and the
signaller decrements. Spurious wakeups and clears make it differ from the truth.

*A scheduler without locks.* Without Grand Central the workers themselves reserve
rows, by compare-and-swaps on progress words, in a window of tasks `m_min ..
m_max + 1` that moves by compare-and-swaps which may fail, and a worker that finds
nothing must be counted as blocked before anybody concludes that nobody is.

*Buffers handed over by a flag.* The field client and the field server use a
buffer outside the mutex and say so in one variable (`allSent`, `needSwap`); the
network streams fill and drain one ring from two threads by three indices and
take no lock while bytes move. Threads wait for sockets and for conditions, both
of which end when the object is freed.

*A barrier used again and again.* The threads of `jit.tml.fluid` go from one phase
to the next each at its own pace, over a counter of rows that the last of them
resets.

*The same loop written three times.* Each row function has AltiVec, SSE3 and plain
loops with margins of their own, of which one machine compiles one.

The list `hazards` of `PROJECT.json` has each of these at its line, with the
properties that cover it, or the reason why none does.

### What makes each component correct

- Queue: it is a bounded FIFO; no wakeup is lost; a thread that can be served is.
- Scheduler (both builds): every task runs exactly once on every row, at its
  distance; the wait ends after the last row, always, and not before; nothing of
  one frame survives into the next.
- Frame: under every schedule the scheduler allows, each row function finds the
  rows it reads as the tasks before it left them, and no two row functions that
  run at once touch the same row, one of them writing.
- Task world, handshake: the tokens collected stand for the whole frame; collecting a
  frame that was started returns.
- Row functions: no access leaves the row; each unit is stored exactly once.
- Streams, field server and client: messages arrive once and in order; a buffer
  in use is not refilled; a frame that was taken is shown.
- Task sequence: no thread reads what another still writes; every row of the
  output is computed, from the last iterate; every launch returns; the locks of
  the matrices are as before.

## 2. The modules

| Module | What it is |
|---|---|
| `BoundedFifo` | abstract: a buffer of bounded capacity, with a clear |
| `MpQueue` | `mp_queue.c`; implements `BoundedFifo` |
| `FluidField` | the constant `Rows` and its assumption |
| `RowPipeline` | abstract: what the scheduler promises (`mpx.h:105-177`) |
| `CoherenceGcd` | `mp_coherence_gcd.c` on libdispatch; implements `RowPipeline` |
| `CoherenceGcdProofs` | proofs about it: invariants, refinement |
| `RowWindows` | abstract: what the scheduler on atomics promises |
| `CoherenceAtomic` | `mp_coherence.c`, default build; implements `RowWindows` |
| `CoherenceAtomicProofs` | proofs about it: invariants, refinement |
| `TaskWorld` | `mp_taskWorld.c`, and the tokens of `fluid_cpu.c`; proofs in `WindowFrameProofs` |
| `FluidKernels` | the footprint (rows read, rows written) of every row function in use |
| `FluidTasks` | the task lists that `fluid_cpu.c` builds, as functions on records |
| `FluidConflicts` | which rows of two tasks conflict, and what distances and windows must cover |
| `FluidFrame`, `WindowFrame` | frames of the fluid running on `RowPipeline`, on `RowWindows` |
| `FluidTasksProofs` | proofs about the task lists: the distances every builder declares cover the conflicts between all pairs of tasks, for both schedulers |
| `FluidFrameProofs` | proofs for Grand Central's frames: the spacing of tasks of `RowPipeline` that are not neighbours, conflicting rows are ordered; and for the loops of the row functions |
| `WindowFrameProofs` | proofs for the other build's frames: conflicting rows are ordered; and for the tokens and records of `TaskWorld` |
| `FluidSweeps` | the loops of every row function in every build |
| `NetOutStream`, `NetInStream`, `NetStreams` | the two ends of a stream, and both on a connection |
| `RingProofs` | proofs about the two rings: of `MpQueue` (invariants, refinement) and of `NetStreams` (no message is overwritten, all are read in order) |
| `FieldClient`, `FieldServer`, `FieldLink` | the two ends of a field, and both on connections that come and go |
| `FieldLinkProofs` | the buffers stay apart and frames go forward |
| `TaskPhases`, `TaskSequence`, `TaskExternal` | what a task computes, phase by phase; the barrier; the externals' `matrix_calc` |
| `TaskExternalProofs` | no race, complete output, locks |
| `MC*` | values for the constants of the small instances |

How they are composed: `CoherenceGcd` implements `RowPipeline` and
`CoherenceAtomic` implements `RowWindows`; `FluidFrame` and `WindowFrame` use only
those contracts. `TaskWorld` uses `mpQueue` as the bounded FIFO that `MpQueue`
implements, and takes the rows of a frame, which `CoherenceAtomic` has, as one
step. The streams and the field pair are composed by sharing the variables of the
connection.

### MpQueue

One action per critical section of `m_mutex`: from the lock, or the return of
`cond_wait`, to the unlock or the next `cond_wait`. `mpQueuePush(t, v)` and
`mpQueuePop(t)` are the calls of an idle thread; `ResumePush(t)` and
`ResumePop(t)` are the loop re-tested after a wakeup; `mpQueueClear(t)` is the
whole clear with its signals. `Signal` chooses any waiter (external:
`pthread_cond_signal`), and `SpuriousWake` is the return without a signal that
POSIX allows. `m_readers` and `m_writers` are the code's counters; `phase` says
where each thread really is. `cleared` is a history variable: without it a push
that dropped every message would pass for a clear of the abstract buffer. Left out: `mpQueueFree`, which is called when no
thread uses the queue, and the union through which `mpQueuePushInt` and
`mpQueuePopInt` pass integers.

### CoherenceGcd

The host thread and the blocks of every serial queue interleave. A block of task
*t* goes through `RunRow` (its row function returns), `DispatchNext` (the test of
`m_data[t+1].fn` and of the row decides how many blocks of the next task to
queue), `QueueBlock` (one `dispatch_group_async_f`, after which that block may
start at once) and `EndBlock` (`cur++`, return). `StartBlock` is libdispatch
taking the next block of a serial queue. The host adds, launches (one step per
row: the first row may be done before the last is queued), waits (one step per
group) and resets. It may also wait for tasks it never launched: `matrix_calc`
leaves through `out` after `addData` when it cannot lock a matrix, and begins its
next call with `fluidFrameEnd`. `launched` is a history variable. The sentinel of
the table is entry `NumQueues`. Left out: `mpCFree`; `cur` is a natural number
here and 16 bits in the code, which differ only for fields of more than 32767
rows.

### RowPipeline

Variables `tasks`, `done`, `running`, `stage`; a task starts a row when its
predecessor has finished that row and the `|dep| + 1` after it, as far as the
field has them. `CoherenceGcd!Pipeline` is the refinement mapping: `done[t]`
counts the rows whose function has returned, `running[t]` says that a block is
inside one, `Collect` is the reset of a launched frame and `Drop` that of a frame
given up.

### RowWindows, CoherenceAtomic

Every read of an atomic word and every compare-and-swap is a step; `pc[w]` names
the place, `loc[w]` holds the locals that are still needed there. `progress` is
the pair `completed`, `working` of a task, which the code keeps in one 32-bit
word (`WordUnchanged` compares both halves). `mpCTaskObtainPvt` is called from
three places, remembered in `loc[w].from`; `mpCTaskObtain` is also called by
`mpCTaskComplete` and then returns there (`ret`). `error` stands for a failed
`errorAssert`. A message of `r_q` is a row; `END` is `0xFFFFFFFF`. The function
running on a row is the time before `ReadProgress`. In `RowWindows` a task starts
a row when its predecessor has finished it and the `bottom` rows below it, and
next to other rows of its own task only if it was declared without order
(`any`). The mapping is direct: `done` is `completed`, `started` is `working`.
Left out: the builds behind `COHERENCE_MUTEX`, `COHERENCE_TQ` and `SEQUENTIAL`
(commented out in the source), the limit of 16 bits.

### TaskWorld

A worker (`mpTaskEngine`) pops a record, runs `fluidMP` of one fluid, pushes a
token and gives the record back. Records are alike, so `r_receiveQueue` is the
number `free`; `r_blocker[f]` is the number of tokens. The host runs one
`matrix_calc` at a time for any of the fluids: it collects (`BeginSync`,
`PopToken`, `EndSync`), may leave through `out`, and floods; freeing a fluid
collects likewise and then calls `mpTerminate`. When `LeaveEarly` has left a
fluid with `frame = "none"` and `didEnd` unset, the next collection waits for
tokens that never come, as in the code.

### FluidKernels, FluidTasks, FluidConflicts, FluidFrame, WindowFrame

A row function is its footprint: for each row, the cells `<<field, row>>` it
reads and writes, translated from the index expressions of the C code (edge rows
and their copied neighbours included), columns taken together, arithmetic left
out. `FluidTasks` builds, for a configuration (which of the tests in the code
succeed), the very sequence of `mpCTaskAdd` calls of either build, with function
numbers, distances, windows and the exchange of field pointers by the advection
tasks. `FluidConflicts` derives from the footprints which rows conflict.
`FluidFrame` and `WindowFrame` run these lists on the two contracts, frame after
frame with changing configurations. Left out: setters of parameters that change
no footprint, pixel arithmetic.

### FluidSweeps

One definition per row function and build, named after both: the set of its
passes. A pass gives its unit (vector of four or single cell), the neighbours it
reads, whether the first and last unit are apart, and the tests and increments of
the loops, as numbers taken from the source. The actions `First`, `Iterate`,
`Leave`, `Last` walk the row; `loads` and `stores` are the units of the last
iteration, `swept` those stored before it. Left out: values, the row's neighbours
above and below (those are in `FluidKernels`), and gathers from computed
positions.

### NetOutStream, NetInStream, NetStreams

The rings are byte by byte, each byte naming the message it belongs to, so that
an overwritten or overrun byte is visible. Each critical section of a mutex is an
action, and so is each transfer outside of it. `wire` is the connection;
`Break` cuts it and loses a suffix of what is on its way. Time-outs of
`netClientGetBinary` are steps that change nothing; on a closed connection it
returns 0 as well, and the reader asks again for ever. Only an error, or a cut
inside a message, ends the reader (`ReceiveFails`): that may happen, and is not
forced. `SpuriousWake` is a return of `cond_wait` without a signal. The owner of a
stream either goes on or frees it (`...OnFree`), after which -1 is in the indices.

### FieldClient, FieldServer, FieldLink

`allSent` has the code's values: -1 quit, 0 ready, 1 a frame to send, 2 sending,
10 and more counting calls without a connection. `thread` is the place of
`fieldClientThread`, `handler` that of `fieldServerOnConnect`, `app` and `user`
the two programs. A frame is a number; `Torn` is a field received in part;
`missed` records (history) that data was announced and none came, which the code
does not notice. `link` is a connection with the packets of both directions; it
may break at any time, and the client connects again. Bounds: one connection
at a time, frames and messages counted, `Retry` for 100 (and 5000) calls,
`Slots` for the ring of eight. `SpuriousWake` is a return of `cond_wait` without a
signal. The server's waits test their conditions in a loop; the client's thread
tests nothing but -1, so after such a return it sends what `fld_sending` holds
(bound: `MaxSpurious` such returns, counted with the frames). `unasked` is a history variable: the thread
woke and `allSent` was 0, so that nobody had given it a frame. `SendAlone` is about
the frames it was given; that the other ones may be sent while they are drawn is
`FieldLinkWoken.cfg`. A header that does not come ends the connection, as on
little-endian machines. Left out: frames of other sizes.

### TaskPhases, TaskSequence, TaskExternal

A phase is what happens between two `waitForTask`: the rows a thread takes one by
one from `atomic`, with what each reads and writes, or something the first thread
does alone. `iterate` is, for each row of each written field, the number of
iterations that led to it: a stale or torn read shows as a smaller number.
`WaitForTask` is the critical section, `Wake` a spurious return. `TaskExternal`
adds `matrix_calc`: locks taken one by one, the error paths with the locks they
leave, threads created one by one, joined, locks restored. `RefuseInput` and
`RefuseOutput` are the refusals of `tml.jit.swirl`, `RefuseFetched` those of the other
externals that only unlock what they locked; the rest of theirs reads a pointer
that was never set (`UnlockUnset`), and is not followed.

## 3. The runs

| Run | Instance | Shows |
|---|---|---|
| `mp_queue` | 3 threads, 2 messages, capacity 2, 2 spurious wakeups | counters cover the waiters, no lost wakeup, no mutual stall, refinement of `BoundedFifo`, both liveness properties |
| `gcd_scheduler` | 4 rows, up to 3 tasks, distances 0, 1, 2 | rows only, wait covers the frame, nothing of old frames, refinement of `RowPipeline`, every wait ends |
| `coherence_atomic` | 3 workers, 2 rows, 2 tasks of every kind, cache window 1 | no assertion fails, rows are held exactly once, the scanned tasks suffice, refinement of `RowWindows` |
| `coherence_atomic_frames` | 2 workers, 3 rows | every frame ends |
| `task_world` | 3 workers, 3 fluids, token queues of 2 | tokens cover the frame; collecting a started frame returns |
| `fluid_frame` | 7 rows, `AdvectDist` 2; schedules of 5 configurations, lists of 381 | no row function runs before the rows it conflicts with; distances and windows cover the conflicts |
| `window_frame` | 7 rows, 2 configurations | the same on the contract of the atomic scheduler |
| `row_sweeps` | widths 32, 64, 96, all functions and builds | no access outside the row, each unit once |
| `net_streams` | messages of 1 and 2 bytes and a header, rings of 5 and 6, 4 messages | messages arrive whole and in order; freeing the sender ends |
| `field_link` | 2 frames offered, or 1 and a spurious return at the client; ring of 3 messages, retry every 2 calls | buffers apart, frames never go back, a frame taken is shown |
| `task_sequence` | 1 to 3 threads, 3 by 3, 2 fluids, 2 or 3 iterations, 2 launches | no race, complete output, locks held and restored, launches return |
| `frame_vorticity` (violation) | vorticity with viscosity | the curl of the last row reads row 0, already overwritten |

**Why the bounds suffice.** *Queue*: capacity 2 gives a ring of three slots, so
both indices wrap, and there are states between full and empty; three threads
allow two to be stalled at one end while the third serves, clears or steals;
two spurious wakeups make a counter exceed the truth by two.
*Grand Central*: four rows are the least that satisfy `|dep| + 2 <= Rows` for the
distance 2 (so that both branches of `mpCDispatchFn` are taken, and none is
degenerate); three tasks give one that is both successor and predecessor; frames
follow one another without limit, with fewer or more tasks.
*Atomics*: three workers let one be counted as blocked while two exchange a row
and end the frame; two tasks have an edge between them in either order kind; the
cache window of one row moves and refuses. Three rows with two workers let the
window be left and reset, on which the end of a frame depends; the two instances
together are what TLC reaches in minutes.
*Task world*: three fluids with queues one short of the workers hold up to two
workers at once; a fourth fluid would hold all three (section 4, 7).
*Frame*: the real `ADVECT_DIST` is 64; 2 is more than the 1 of the relaxations,
and seven rows leave rows inside that neither edge reaches. The accuracies are 2
and 2: iterations beyond the second repeat the two alternating functions. The 381
lists combine every switch of the simulation's tasks with at most one input or
output that differs: those tasks stand at the ends of a frame and read or write
one row in step with it. Theorems `DistancesCover`, `WindowsCover`, `RowsOrdered` and
`WindowRowsOrdered` have no bound.
*Sweeps*: 32 cells are eight vectors, where every unrolled loop runs once at
most, 96 are 24, where each runs several times and leaves a rest; theorem
`SweepInvariant` has no bound. *Streams*: two sizes make messages that fit exactly, wrap,
or leave a gap; four messages go round each ring. *Field*: one frame is waiting
to be swapped while the next is sent; instead of the second frame, a return without
a signal may send the first again, or before it is given. The theorems about the
field pair have no such bound. *Task sequence*: two launches with different
numbers of threads; rows 0, 1, 2 wrap around to both neighbours.

`CHECK_DEADLOCK FALSE` is said where the program really stops: `MpQueue` when
every thread waits at the same end (`mp_queue.c:18` warns of it; two ends never
stall together, `NoMutualStall`); `TaskWorld` when a frame is collected that was
never started; `NetStreams`, `FieldLink` and `TaskExternal` when the objects are
freed, the connection is gone, the bounded number of messages, frames or launches is
used up, or a pointer was undefined.

**Fairness.** `MpQueue`: a thread that has left `cond_wait` eventually gets the
mutex. No fairness makes a thread call anything, and spurious wakeups are never
required. `CoherenceGcd`: libdispatch keeps starting queued blocks, a block that
has started goes on (row functions are loops over the columns), and the host goes
on inside `mpCTaskLaunch`, `mpCTaskWait` and `mpCReset`. `CoherenceAtomic`: each
worker's thread runs (weak fairness; its loops of compare-and-swaps end because
others stop changing the word), and the host comes back for a frame it started,
which every `matrix_calc` does. `TaskWorld`: threads run and the host finishes
what it began. Nothing makes a host begin a frame. `NetStreams`, `FieldLink`:
threads run, a program finishes a message it began and goes on reading; strong
fairness only where a program must win a mutex that a thread takes again and
again (`fieldServerLock`, `fieldServerNextMessage`). Data that is on a connection
arrives while the connection holds. `TaskExternal`: threads run.

**Properties against mutants.** Each property of a passing run is violated by a
plausible error in a definition of the model; the mutated forms stand before the
definition they replace, marked `(mutant...)`, and are used nowhere else. `TypeOK`
of the modules whose run does not list it says what values the variables have.

## 4. Disagreements found

Recorded as a run with a finding:

1. `fluid/fluid_vorticity.c:92`: on the last row the curl reads row 0 of the
   velocity (the `y*sy` is missing), and later tasks may have overwritten it
   (`frame_vorticity`).

Kept as configurations that TLC finds violated, and listed under the hazards:

2. `FieldLinkWoken.cfg` (`LockedAlone`), `field_client.c:66`: the thread calls
   `cond_wait` once and tests no predicate. If it returns without a signal between
   `fieldClientLock` ("Lock the field buffer so we can send it", `field.h:106`) and
   `fieldClientUnlock`, it sets `allSent` to 2 and sends the field while the program
   draws into it; `fieldClientUnlock` then does not give the frame.
3. `FluidFrameScaled.cfg` (`ConflictsOrdered`), `fluid/fluid_visual.c:306`: a
   scaled velocity output reads rows ahead of its own, with a declared distance
   of 0 (`fluid_cpu.c:584`).
4. `TaskWorldEnd.cfg` (`TerminateJoins`), `mp_taskWorld.c:345-349`: `mpTerminate`,
   which by `mpx.h:189` joins all threads, only forgets the world; a worker that
   then gives its record back dereferences NULL.
5. `GcdSmallField.cfg` (`RunsOnlyRows`), `mp_coherence_gcd.c:121`: the last row
   queues `|dep| + 2` blocks whatever the number of rows. On a field of fewer rows
   the task is called with rows beyond the field. The advection declares 65, so
   fields of fewer than 67 rows meet it.
6. `GcdLateAdd.cfg` (`WaitCoversFrame`), `mp_coherence_gcd.c:113` and the comment
   at line 89: adding tasks while tasks execute is not safe in this build. The
   program does not do so.

Met while modelling; the models have the behaviour, or name the assumption that
excludes it:

7. With many fluids workers can all be held by full token queues:
   `(fluids - 1) * (workers - size) >= workers` (`SyncReturns` fails for 4 fluids,
   3 workers, size 2).
8. A `netInStream` ring below twice the largest message can block with every byte
   free (`StreamsAssumption`); a reader between its two locks adds the size of its
   message to the -1 of `netInStreamOnFree`; a closed connection keeps the reader
   asking for ever.
9. `field_server.c:138` publishes a frame whose data did not come;
   `fieldServerFree` and `fieldClientOnFree` can wait for ever for a thread that
   was not waiting when they signalled; `fieldClientSend` copies a quarter of the
   bytes of a float field.
10. `FSCPUQuickAdvection.m:103, 272` count rows with the width; viscosity of
    `jit.tml.fluid` with an even number of iterations ignores the last one
    (`JITTask.m:217-219`); McCormack leaves `fluids` inputs locked.
11. `fluid_viscosity.c:196`: the AltiVec build computes the last vector of the
    horizontal velocity from the first.

## 5. What is proved

All proofs hold for every value of the constants that satisfies the named
assumptions of the modules, and the hypotheses listed here.

| Theorem | Says | Hypotheses |
|---|---|---|
| `RingProofs!Typing`, `CountersCover`, `WakeupsKept`, `NoDeadlock` | the four invariants of the queue | none |
| `RingProofs!RingIsFifo` | the queue implements `BoundedFifo` | none |
| `CoherenceGcdProofs!GcdTyping` | types of the scheduler | none |
| `CoherenceGcdProofs!RowsOnly`, `WaitCovers`, `OnlyAdded` | its three safety invariants | `LargeField`, `~AddWhileRunning` |
| `CoherenceGcdProofs!GcdIsPipeline` | it implements `RowPipeline` | `LargeField`, `~AddWhileRunning` |
| `FluidFrameProofs!PipelineSpacing` | tasks any number of places apart keep their distance | none |
| `FluidTasksProofs!FrameGood` | the distances of a frame's calls cover its conflicts, for both schedulers; at most 18 functions and `FrameTaskLimit` tasks | `Sound` |
| `FluidFrameProofs!DistancesCover`, `WindowsCover` | what the runs check of the task lists, for every size | `SoundConfigs`, and `SchedulerHoldsFrames` for the first |
| `FluidFrameProofs!FrameIsPipeline`, `FrameTyping`, `RowsOrdered` | frames are behaviours of `RowPipeline`; conflicting rows are ordered | `SchedulerHoldsFrames`, `SoundConfigs` |
| `WindowFrameProofs!WindowRowsOrdered` | conflicting rows are ordered on the atomic scheduler's contract | `Sound`, for all configurations |
| `FluidFrameProofs!SweepInRow`, `SweepOnceAll`, `SweepAll` | no access outside the row; no unit stored twice; none left out | none |
| `CoherenceAtomicProofs!AtomicTyping`, `NoAssertionFails`, `ScanIsComplete`, `RowsKept` | the four invariants of the scheduler on atomics | none |
| `CoherenceAtomicProofs!AtomicIsWindows` | it implements `RowWindows` | none |
| `FieldLinkProofs!LinkTyping`, `FramesGoForward` | types; no older frame is shown after a newer one, as long as announced frames have data (`~missed`) | none |
| `FieldLinkProofs!BuffersStayApart` | no buffer is filled while it is used | for the buffer the client sends: its thread was given the frame (`~unasked`, in `SendAlone`) |
| `TaskExternalProofs!TaskTyping`, `NoRowRaces`, `LocksCoverThreads`, `LocksPutBack` | types; no two threads on conflicting rows; the locks during and after a launch | none |
| `WindowFrameProofs!WorldTyping`, `CollectingWaits` | types of the worker threads; a frame that is collected has returned from every worker | none |
| `RingProofs!StreamsTyping`, `SentWhole`, `ReadWhole` | types of both ends; messages are sent whole, and read whole and in order | none beyond `StreamsAssumption`: the receiving ring holds two messages |
| `TaskExternalProofs!AllRowsComputed` | every row of the output comes from the iterate asked for | `Width >= Height` |

`LargeField` (every distance is at most `Rows - 2`) and `~AddWhileRunning` are
necessary: `GcdSmallField.cfg` and `GcdLateAdd.cfg` violate the properties
without them. `Sound(c)` excludes what `FluidFrameScaled.cfg` and the run
`frame_vorticity` find violated (section 4, 1 and 3): a velocity output of another
height, and a vorticity after which the velocity is damped, heated or smoothed in
the same frame. Every other configuration is sound. `SchedulerHoldsFrames` is about
the bounds of `RowPipeline`: room for `PressureAccuracy + ViscosityAccuracy + 15`
tasks, function numbers up to 17 and the distances 0, 1 and `ADVECT_DIST + 1`. The
code has room for 128 tasks (`fluid_pvt.c:118`) and 32 functions (`MAX_FNS`,
`fluid_pvt.h:195`), so in these configurations the assertion "Too many different
tasks!" cannot fail, and the tasks fit as long as the two accuracies (4 and 4 by default) add up to at most
113. `Width >= Height` is necessary too: two builds count the rows of
a matrix with its width (`FSCPUQuickAdvection.m:103, 272`), and leave rows of a
higher matrix out.

The assumptions of the modules are about sizes. `AtomicAssumption` asks for at
least one worker (`mpInit(3)`, `src/jit.tml.fluid2/jit.tml.fluid2.c:387`), a
table, a cache and a queue of at least one entry; `LinkAssumption`
for a ring of more than two messages (the code has eight) and natural bounds;
`SizeAssumption` and `ExternalAssumption` for matrices with at least one row and
column, one fluid, and iteration counts from 1 (the attribute is clipped,
`src/jit.tml.fluid/advection/jit.tml.pressure.m:407`). `StreamsAssumption` asks
that each ring hold the messages: the sender's, one and a byte, as
`netOutStreamBuffer` asserts; the receiver's, two. The proofs use only that the
receiver's ring holds one; the second is for `Delivered` (section 4, 8).

**Queue.** The invariant that is asked for, "no lost wakeup", is not inductive: it
does not say why a push that skips its signal may do so. The strengthening adds
that the counters cover the threads in `cond_wait` (so a skipped signal means that
nobody waits), and bounds messages by readers *on their way*. The argument is a
count: a push adds one message and, if anyone waits, one reader on its way. The
refinement proof relates the ring to a sequence, index by index, across the wrap.

**Scheduler.** Distance and completeness both follow from one count. Let
`Entered(t)` be the blocks of task *t* queued in this frame, `Passed(t)` the blocks
that know how many blocks of task *t+1* they queue, and `left[t]` those not queued
yet. Then `Entered(t+1) + left[t] = Dispatched(Passed(t), |dep|)` between any two
steps: 0 up to *|dep|+1*, then one per row, `Rows` at the end (`NextInv`). A row
is started only by a block that entered, hence the distance; `Entered = Rows` only
if the predecessor is through, hence no row too many; and a group found empty *in
its turn* has all its rows done, because the group before it was found empty and
owed nothing (`WaitInv`). The other conjuncts say where the host is, that the
table has no entries of an old frame, and that nothing runs in a frame not
launched. Each action has a lemma of its own.

**Frames.** `RowPipeline` orders only neighbours. `PInv` (in `FluidFrameProofs`)
extends it to all earlier tasks by the fact that done rows decrease along the
list, and `RowsOrdered` combines that with the static statement
`DistancesSuffice`, which the lists of sound configurations satisfy. On `RowWindows` the window of each task reaches below only,
and the windows of the tasks between two conflicting ones add up: `WInv` says
that when task *u* has started row *z*, task *t* has finished the rows up to *z*
plus the sum of the windows between them, clipped at the end of the field.

**Task lists.** Whether a distance suffices is decided between a task and every
earlier one, but a builder such as `fluidTaskPressure` sees none of them. So the
invariant along the builders (`Good`, in `FluidTasksProofs`) says more than that
all pairs of tasks are clear (`AllClear`): it bounds how far back the tasks so far
read (`Safe`: *n* rows; 1 until the advection, then `ADVECT_DIST + 1`) and names
the fields *P* that a task has read behind its row and no task since has waited
for. A task that declares at least *n* is clear of all before it and empties *P*; one
that declares less must not write a field of *P* (`Light`): this is why the host's
inputs, the forces and the picture may declare 0. The set *U* has the cells that
are not written again in the frame; the vorticity puts row 0 of the velocity there,
and the theorem holds exactly as far as no later task writes it. There is a lemma
for the footprint of each row function, one for each builder, for any number of
relaxations, and `FrameGood` is their composition; the exchange of field pointers
by the advection is why the last builders have theirs for a set of pointers. On
the atomic scheduler the distances add up along the list: `Offset` is a recursive
function, and that it exists, is natural and grows is shown by induction over the
natural numbers, which here is `WFMin` applied to the set of counterexamples.

**Sweeps.** The invariant relates the column variable to what is stored: in a loop
exactly the units below `x` (from `edge` or 0) are stored, `x` has not passed the
margin of the loop under way, and the rest is a multiple of the tail's step. That
the loop of eight ends with the row is where the width's being a multiple of 32 is
needed. The facts about the numbers of each of the catalogue's passes are lemmas
of their own.

**Atomics.** `IInv` says three kinds of things. The progress words determine each
other: a task that began follows one that completed a row, a task in order has at
most one row out, a fully reserved task follows completed ones. The bounds are
late but never wrong: whatever lies below `m_min` is reserved to its end, whatever
has completed a row lies below `m_max`. A row between `completed` and `working` is
with exactly one worker or message (`HeldInv`). And since every compare-and-swap
is preceded by reads that other workers may invalidate, `PlaceInv` says for each
place in the code what a worker still knows there, e.g. that the `m_min` it read
is a bound of the present one; words only grow within a frame, so such knowledge
lasts. The end of a frame needs the worker that counts itself last to be right:
`EndInv` says that the messages which stop workers exist only when the last task
is complete, and the reset is reached with every worker done. The refinement
then has one lemma per step that changes a progress word: the row a worker
reserves is one the contract lets start, because what it read about the
predecessor has only grown.

**Field pair.** `LInv` says who owns which buffer by the flags (`ClientInv`,
`FieldInv`, `RingInv`: the slot behind the one received is free), that both ends
agree on the connection, and, for the order of frames, that the packets on a
connection alternate as the sender writes them (`Follows`) and are not older than
the two fields of the server (`Ordered`). A cut loses a suffix, which leaves a
prefix of an alternating sequence; a new connection starts with an empty one.
`missed` is where the argument, and the code, give up: a frame whose data never
came is published all the same. `unasked` is the other place: `ClientInv` says
that a field is sent while the program draws into it only if the thread woke on its
own, which sets 2 without asking. `BuffersStayApart` therefore has the hypothesis in
its statement (`LockedAlone`, which has not, is violated). The order of the frames does
not need it: a frame sent again is followed by none that is older.

**Task sequence.** All threads of a launch are in one phase *g*, except those that
have not yet left the wait before it, recognisable by their `task` being `curTask`
(`PlaceOf`). A row that is done holds the iterate `Held(x, g + 1)`, every other
`Held(x, g)` (`Iterates`); the lemmas about the phases show, build by build, that
a phase computes from what `Held` says. The last thread to arrive can be sure
that all rows are done, since every other thread of the launch was counted
(`Barrier`), and none is counted that has a row or could take one. Threads are
created one by one while others already run: the count cannot be reached before
the last is created, so *g* is 1 until then.

**Task world.** The tokens owed for a fluid, `Due(g)`, are counted at both ends:
as many as calls of its frame are queued or under way, plus the tokens in its
queue (`TokensInv`). The host collects one token per worker; when the count is
down to zero no call can be left. `CallsInv` says for which fluid calls exist at
all, `RecordsInv` that every record is free, queued, or with one worker, so that
the record a worker takes is always there.

**Streams.** Both ends use a ring in the same way, so the argument is about `Ring`:
the bytes of `[s, e)`, and after a wrap those of `[0, w)`, are a chain of whole
messages with consecutive numbers. There is one lemma for each operation, fill,
publish, take, wrap, fold back to the front. To fill and to publish needs `Room`: the
writer is behind everything in use with the message inside the ring, or in front of
everything in use. What the two threads do between their critical sections is what
the invariant adds: the owner that fills keeps its `Room` while the thread gives
bytes back, even when the range moves to the front under it. The numbers tie the
ends together: *c* messages were put on the connection, those before *r* were
stored, and the connection has the ones between, or a prefix of them once it is
broken.

**Only model-checked.** Liveness (`PopServed`, `PushServed`, `FrameCompletes` of
both schedulers, `SyncReturns`, `Delivered`, `FreeReturns`, `FrameShown`,
`LaunchReturns`), which the prover does not reach. Every other property of a
passing run is a theorem.

## 6. Not modelled

- `mp_stack.c`: only the scheduler's `SEQUENTIAL` build uses it, whose macro is
  commented out (`mp_coherence.c:22`); so are the other builds of that file.
- `fluid_server.c`, `fluid_messenger.c`: one thread over field server and client.
- Objects, errors, wrappers, fields, bit streams, half floats: sequential, no state
  shared between threads beyond reference counts.
- The OpenCL back end, which is switched off (`mpSupportsGPU` returns 0), and the
  particles of `lagrange/`, which nothing calls.
- The other externals: sequential computations per frame, and device I/O.
- What the row functions compute, socket calls, and what a process does after
  undefined behaviour.

What would come next: fields that change their size in the field pair (`fieldResize`
before the swap is known, `field_server.c:107`), rows limited to 16 bits in both
schedulers, and the `SEQUENTIAL` build with its lock-free stack. Of the properties
that are checked, only liveness has no proof.
