# Verification of Blockcat (RIAPS)

TLA+ models of the real-time audio kernel under `src/crates/`, TLC
configurations that check them on small instances, and TLAPS proofs for
arbitrary values of the constants.

## 1. Inventory

The workspace has four crates. One audio (real-time) thread must never block,
allocate or free; a UI/control thread changes what it does; GC, watchdog and
monitoring threads clean up behind it. They share memory only through the
lock-free structures below.

| component | source | state | operations | who calls |
|---|---|---|---|---|
| SPSC ring | `riaps-core/spsc.rs` | `head`, `tail`, `buf` | push, pop, pop_slice_copy, len, capacity_left, Drop | one producer, one consumer; len: anybody |
| deferred drop, emergency slot | `riaps-core/memory.rs` | `ptr`, `vtable`, `vtable_ready`, `reclaimed` | defer_box, push, drain, drop_and_dealloc | audio thread pushes, GC/watchdog drains |
| generic RCU handle | `riaps-core/rcu.rs` | `current`, `version` | load, swap | audio reads, UI swaps |
| event bus shard | `riaps-dsp/event_bus.rs` | a ring, `overflow_counter` | emit, drain | real-time side emits, monitor drains |
| graph publication | `riaps-dsp/graph.rs` 222-386 | `current`, `version`, `hazard`, `pin_active` | try_pin, guard drop, swap, try_reclaim, try_into_box, Drop | audio pins, control plane swaps, collector reclaims |
| graph builder and processor | `riaps-dsp/graph.rs` 34-220 | nodes, connections, order, buffers | connect, disconnect, compile, process | UI builds, audio processes |
| parameter queue, gain node | `riaps-dsp/node.rs` | a ring, the gain | try_push, drain_to, process | UI pushes, audio drains |
| host block adapter | `riaps-host/adapter_buf.rs` | two sample FIFOs, quantum, latency | process_host_block, flush | audio callback |
| host adapter lifecycle | `riaps-host/lib.rs`, `alsa.rs`, `coreaudio.rs` | handle, running | initialize, start, stop | control thread |
| performance probe | `riaps-sys/probe.rs` | a ring, enabled, nesting depth, overflow counter | measure, drain, set_enabled | audio measures, monitor drains |
| thread provisioner | `riaps-sys/thread.rs` | strategy, priority, saved schedule | provision, Drop | audio thread at start |
| FPU guard | `riaps-sys/fpu.rs` | saved control register | new, Drop | audio callback |

What is hard: every structure in the first half is used by two or more threads
without a lock, so correctness rests on the order of single loads and stores;
indices and counters are machine words that wrap; addresses are reused after
free (ABA); decisions are taken on values that are stale when used
(`capacity_left` before `push`, `hazard` before `Box::from_raw`); and the block
adapter is correct only as an invariant over long sequences of callbacks.
PROJECT.json lists each of these hazards at its line together with the
properties that would catch it.

What makes each component correct: the ring is a linearisable bounded FIFO and
wait-free on each side; the bus keeps its reserved slots for fatal events and
accounts for every event; the graph's order respects its edges and a block is
computed from this block's samples only; the probe never measures twice at once;
a pinned graph is never freed and mutable access is
exclusive; pointer and vtable of a deferred object stay together and it is
freed once; the adapter never underruns a regular stream, adds the least
latency, carries every sample once and in order, and accounts for what it
drops; a parameter queue is one register whose newest value the stream settles
on; provisioners (on Linux) and guards give back what they changed on the
thread.

## 2. Modules

| module | models | built on |
|---|---|---|
| `BoundedQueue` | abstract: what the ring promises, an indivisible FIFO of N elements | |
| `SpscRing` | the ring, one action per access to shared memory | refines `BoundedQueue` |
| `SpscLen` | `len`/`capacity_left` called while the ring is in use | extends `SpscRing` |
| `EventBus` | emit and drain of one shard | `BoundedQueue` as its ring |
| `GraphCell` | abstract: what the graph handle promises, an indivisible cell | |
| `GraphPublication` | hazard-pointer publication of the graph | refines `GraphCell` |
| `EmergencySlot` | the slot between the audio thread and the GC thread | |
| `CompileGraph` | the graph builder, its compiler and the processing of a block | |
| `PerformanceProbe` | nested measurements, switched on and off while running | `BoundedQueue` as its ring |
| `SampleFifo` | operators: the ring of samples inside the host block adapter | |
| `AdapterBuffer` | abstract host block adapter: a FIFO is a length, a call one step | |
| `AdapterStream` | the host block adapter on its rings of samples, DSP block by DSP block | `SampleFifo`; refines `AdapterBuffer` |
| `AdapterHistory` | the adapter with the history of its stream, and the properties of latency and reserve | extends `AdapterBuffer` |
| `LatestValue` | abstract: what a parameter queue promises, one register | |
| `GainNode` | the UI's pushes, the loop that drains them, the gain applied to a block | `BoundedQueue` as its ring; refines `LatestValue` |
| `ThreadProvisioner` | real-time scheduling asked for, granted, refused and given back | |
| `FpuGuard` | nested guards of the floating-point control register | |
| `AudioThread` | one thread that uses provisioners and guards in any order | instances of the two |
| `*Proofs` | theorems about the module named; `SpscRingProofs` also about `SpscLen`, `EventBusProofs` about `GainNode`, `AdapterProofs` about `AdapterHistory`; `SysProofs` about `AudioThread` and `PerformanceProbe` | extends it (`GainNode`: an instance) and TLAPS; `AdapterStreamProofs` takes the arithmetic of `AdapterProofs` |

**Correspondence.** Variables keep the field names of the code; `ppc`/`cpc`,
`rpc`/`wpc`, `apc`/`gpc`, `epc` say where a thread stands inside a call, and
the calls' locals are variables next to them. An action is one access to shared
memory plus the thread-local code up to the next one; its guard is the branch
the code takes (`PushRejected`/`PushAdmitted` are the two ways the load of
`head` can come out). Accesses to plain (non-atomic) memory are actions too, so
that two of them in progress at once can be seen. Ghost variables are marked
`ghost` or `history` and read by no guard, but for the bound on `given`. Operators named `X_Something` above a definition
`X` are mutants: what `X` would be with a plausible bug.

**Memory model.** Actions interleave, so every atomic access is sequentially
consistent. For the ring and the slot the acquire/release pairs are on exactly
the variables through which ownership passes, which makes this sound. The graph
handle also needs the `AcqRel` swap of `current` ordered before a later
`SeqCst` load of `hazard`: x86-64 and AArch64 order the two, the language's
memory model alone does not promise it. This is listed as a hazard, not modelled.

**Abstractions.** Elements, graphs and objects are model values; an event is
its kind; a `DropVTable` is the type it was made for; a FIFO of samples is its
length in `AdapterBuffer`, which `AdapterStream` justifies on numbered samples.
There the DSP callback copies, as in the repository's tests, and
`AdapterBuffer` sees a call when it starts, as what it will have come to: the
mapping adds the blocks that are still to be processed and the output still to
be filled, so every DSP block must leave it unchanged. `GainNode` counts gains
in steps of 20 dB, where `db_to_linear` is exact in integers. In
`ThreadProvisioner` the kernel's rule (a thread without privilege may lower its
real-time priority or leave the real-time class, not raise it) is external, and
the privilege may be lost at any moment; the ghost `grants` is the order in
which provisioners were granted something, and `tangled` says that one was
granted twice or that they were not dropped in reverse. `refused` says that the
system did not let a Drop restore what it had saved; such behaviours are part of
every property. `FpuGuard` has a register as the set of its bits, the sticky
exception flag of MXCSR included, which Drop writes back too. In `CompileGraph` a node copies its input, so that samples are integers
and the mixing of buffers is real; `connections` is a set, and the order in
which edges were added shows only in the order nodes freed together are queued,
which is any order (`Orderings`). In `PerformanceProbe` the switch is read and
the depth counted in one step: only the audio thread touches the depth.
`retired_at_version` is returned to callers but read by none and is left out. An
address that is freed may be allocated again, for another type, in all modules
with a heap. The one-producer/one-consumer and one-writer/one-reader
contracts of the `unsafe` functions are assumed: one program counter per side.
The last `Arc` of the publication state destroys it (`DropState`); the
destructor is a step of its own after the last release, nothing else can refer
to the state in between.

## 3. Runs

| run | shows | bounds |
|---|---|---|
| `spsc` | safety, linearisability and wait-freedom of the ring, `len` called by the two owners and by a third thread | N=2, M=2, two values, indices modulo 4: full, empty, short batch and several wraps all occur |
| `event_bus` | reserved slots, accounting, delivery | N=4, two reserved, one ordinary and two fatal kinds, counters modulo 4 |
| `graph_publication` | no use after free, exclusive guard, version, refinement, progress | three addresses (enough for retire, free, reallocate, republish behind a reader's back), two readers, two writers |
| `emergency_slot` | matching pairs, no race, exactly-once, progress | three addresses, two types, counter modulo 4 |
| `compile_graph` | order, cycles, latency, a processed block | every graph of up to three nodes with latencies 0 and 3, max_block 1 to 3, a machine word of 0-6 (so that latency saturates, three buffers of 2 just fit and three of 3 overflow), blocks shorter and longer than max_block and an output longer than the input |
| `performance_probe` | nesting, overlap, accounting | ring of two, batches of two, three nested calls, counters modulo 4 |
| `adapter` | no underrun, latency, minimal reserve, recovery | DSP blocks 1-4, capacity 8, unrelated input and output lengths 0-4 and 6 that change at any call (6 on top of a remainder of 3 overflows the input FIFO), flushes |
| `adapter_samples` | samples neither lost, repeated nor reordered; refinement of `AdapterBuffer` | DSP blocks 1 and 2, capacity 4, input and output lengths 0-3, nine samples (`MaxSamples`: two laps of each ring), changes of quantum, dropped input and output, flushes |
| `gain_node` | one register, the loop ends, the stream settles | queue of three, three gains |
| `audio_thread` | on Linux the schedule given back, also around a refused restore, and honest reports of Direct; the control register given back, flushing inside guards | two provisioners, two guards, three platforms and architectures, priorities below, inside and above 1-99, a thread that is a real-time thread already or not |
| `provisioner_restore` | *violation*: a provisioner granted a priority twice | one provisioner, Linux |
| `adapter_flush` | *violation*: flush with a full output FIFO | D=2, capacity 4 |

Every bound is a constant of the cfg. Counters and indices are bounded by their
modulus, which is how the code bounds them; the moduli are small so that
wrapping happens. In the adapter the FIFO lengths are bounded by the capacity.
Symmetry is used in `audio_thread` only, which checks no liveness. Deadlock checking is off where the structure may be
dropped, after which nothing happens.

**Fairness.** `WaitFree` is stated under no fairness but that of the
calling thread: the specification lets the other side stop anywhere
for ever. In `EventBus` a begun `emit` continues and the consumer polls (the
module comment of `event_bus.rs`: the consumer polls the shards). In
`GraphPublication` a thread in try_pin is scheduled, the audio callback ends
and drops its guard, and the collector retries its tokens ("must be queued ...
and reclaimed"); nothing is assumed of swaps, and `PinCompletes` names an
endless sequence of them as the only excuse. In `EmergencySlot` a begun push
ends and the watchdog scans. In `AdapterHistory` the host goes on
calling (`tick` tells a call that changes nothing from no call). In `GainNode`
the callback of a running stream is called again and again and its loop is
scheduled, and the UI retries what `try_push` refused, as its doc comment
suggests; nothing is assumed of further changes. `BlockCompletes` names an
endless sequence of pushes as the only excuse, and `Settles` speaks of a UI that
is left alone.

### Findings

1. **A second grant** (`thread.rs:137`, run `provisioner_restore`). Each
   successful `provision` saves the schedule the thread has at that moment. The
   second one of a provisioner saves the SCHED_FIFO of the first, and Drop leaves
   the thread with it. Two provisioners that are not dropped in reverse order
   fail in the same way; nested ones are fine (`ScheduleRestored`).
2. **flush** (`adapter_buf.rs:125`, run `adapter_flush`) ignores how much of its
   last block fitted.

Remarks, without a run of their own:

- *Capacity that is not a power of two* (`spsc.rs:170`). Slots are `index % N`
  with an index modulo 2^w. If N does not divide 2^w the slots jump when the
  index wraps, and the producer writes a slot of the live window (N = 3, W = 8 in
  `Spsc.cfg` violates `NoDataRace`). Reached after 2^32 pushes on a 32-bit
  target. All capacities used in the repository are powers of two; `new` accepts
  any N > 0, and the theorems about slots assume `W % N = 0`.
- *`len` seen by a third thread* (`spsc.rs:86`). `head` may pass the loaded
  `tail`, and the result is near `usize::MAX`; `capacity_left` clamps it. For the
  producer, the one caller whose decision matters, `RoomSeenByProducerIsThere`.
- *Two blocks of capacity* (`adapter_buf.rs:42`) are not enough for every sequence
  of host blocks up to D: 3, 2, 3 with D = 4 and capacity 8 drops output (and
  reports it).
- `latency_samples` (`adapter_buf.rs:174`) leaves out the samples waiting in the
  input FIFO when the quantum changes. It is exact until then
  (`SteadyLatencyExact`); afterwards the delay is up to 2(D - 1) samples and never
  more (`DelayBounded`).
- *macOS gives nothing back* (`thread.rs:155`, `179-190`). Invariant #19
  (`thread.rs:59`, `176`) asks Drop to restore what was acquired; the QoS class is
  set, not saved, and Drop has no code for it, so the thread keeps
  `QOS_CLASS_USER_INTERACTIVE` after its provisioner (`ProvisionMacos`, `Drop`).
  `ScheduleRestored` therefore speaks of Linux only. The priority reported there
  is the one that was asked for (`thread.rs:157`), though the class has none.
- *A refused restore* (`thread.rs:186`). Drop ignores the result of
  `sched_setscheduler`. A thread with SCHED_FIFO 60 of its own that lost the
  privilege and was granted 50 stays at 50. `ScheduleRestored` and `ReportHonest`
  bound the damage (`Kept`): only a real-time thread is affected, and only by
  having less than its own, or the reported, priority.
- *Fallback on a real-time thread* (`thread.rs:118-121`). A BestEffort request
  that fails after a successful one reports Fallback and priority 0 while the
  thread goes on with the SCHED_FIFO of the first. Drop still restores
  (`ScheduleRestored`); `ReportHonest` is about Direct and does not judge the
  report.
- `StrictAction::RetryWithBackoff` (`thread.rs:44`) is documented to retry and
  fails at once like `FatalError` (`thread.rs:113`).
- The comment at `alsa.rs:8` says that `start` returns `Unsupported`; it returns
  `Backend`.

## 4. Proofs

Every theorem holds for all values of the constants that the named assumptions
allow: `RingAssumption`, `CallersAssumption`, `BusAssumption`, `GainAssumption`,
`PublicationAssumption`, `SlotAssumption`, `AdapterAssumption`, `StreamAssumption`,
`ThreadAssumption`, `ProbeAssumption` and `CompileAssumption` (capacities
positive, lengths natural numbers, the null pointer not a graph, the nesting of
measured calls below the width of its counter, and so on). TLC evaluates each of
them in a run. Sets of readers, writers, provisioners, guards, objects and values
may be infinite, and graphs of any size.

Every invariant a passing run checks is proved, as are the four refinements
(`BoundedQueue`, `GraphCell`, `LatestValue`, `AdapterBuffer`) and the action
property of the bus. The inductive invariants:

- `SpscRingProofs`. The theorems about slots also assume `W % N = 0`, without
  which they are false (see the remarks). `IInv` is `TypeOK` with `WindowInv`
  (at most N slots between head and tail, all initialised), `ProducerInv`
  (push's local tail is the shared one; past the check there is room, past the
  write the slot holds the element) and `ConsumerInv` (the consumer's local head
  is the shared one; what it is about to read is in the window; what it has read
  is the prefix of the contents). It is needed because each side acts on a stale
  reading of the other's index: the reading errs only on the safe side. The
  arithmetic lemmas (`ModShift`, `ModDistinct`, `SlotsDistinct`) show that up to
  N consecutive indices have distinct slots also across the wrap.
  `RingImplementsQueue` maps the queue to the contents of the window: a push
  takes effect at its store of `tail`, a pop at its store of `head`, a failed
  call at the load that decides it. `ReportedRoomIsThere` needs the indices only
  (`IndexInv`, `LenInv`) and holds for every capacity: what the producer is told
  was true when it loaded `head`, and the consumer only makes more room.
- `EventBusProofs`. `IInv` adds to `ReservedForFatal` that an admitted ordinary
  event still has room below the reserved region (`AdmittedHasRoom`), which
  connects emit's check with its push although drain runs in between. For
  `EventsAccounted` the counters wrap on their own, so `Balanced` says that the
  traces of the events are their number plus some multiple of the modulus
  (`\E k \in Int`), which each step preserves by ordinary addition; the wrapped
  equation follows at the end. `ReclamationIsExact` (`EmergencySlotProofs`),
  `VersionFollowsPointer` (`GraphPublicationProofs`) and `MeasurementsAccounted`
  (`SysProofs`) have an invariant of the same form, the first two
  with the cardinality of a set that is always finite (objects allocated,
  writers between swap and count). At the end of the module `GainNode` is
  instantiated next to the bus: `GainNodeIsARegister` rests on `GainInv`, the
  change accepted last is the last one queued, or else the one the loop holds,
  or else the gain in use.
- `GraphPublicationProofs`. `IInv` is `TypeOK` with `PinInv` (at most one
  thread is past the exchange of `pin_active`), `HazardInv` (between its store
  and the guard's drop the hazard is the reader's pointer) and `OwnerInv` (the
  published graph, the graphs in flight and those pinned are owned as they
  should be, and a graph past the reclaim check is no longer reachable).
  `HandleImplementsCell` maps a pin to its validation and a reclamation to its
  check of the hazard.
- `EmergencySlotProofs`. The slot alternates between the threads: push works on
  it while `ptr` is null, drain while `ptr` is its own object.
- `AdapterProofs`. `AInv` says what is inside the adapter while the stream is
  undisturbed: nothing before the first callback; with the first quantum exactly
  `D - gcd` samples, of which a multiple of the gcd in the input FIFO; after a
  change of quantum between `D - 1` and `2(D - 1)`. The multiple is what makes
  the least reserve enough: the input FIFO then holds at most `D - gcd` samples
  between callbacks, so that enough are left in the output FIFO. That
  `greatest_common_divisor` returns a common divisor is proved for all arguments,
  from its recursion (`EuclidDivides`).
- `AdapterStreamProofs`. First the ring: `PushAppends` and `PopUpToTakes` say that
  the loops of `push_slice` and `pop`, with their two wrapping indices, append to
  and take from `Contents`, however often they have lapped. `Intact` and
  `Complete` then say of two sequences, the output's and the input's, what
  `StreamIntact` says of their concatenation, and three lemmas say that samples
  given, moved from one to the other and delivered keep them (`GivenIntact`,
  `MovedIntact`, `DeliveredIntact`). `StreamInv` needs besides that the input FIFO
  holds less than a block outside a call and nothing during a flush, and that
  `underrun` is zero until a call returns. `NeededFits` shows on the way that the
  silence of `prime_for_quantum` always fits, as its `debug_assert` says: a
  capacity of two blocks is enough. `StreamImplementsAdapter` maps a call to the
  moment it starts, as what it will have come to: `DspBlockRefines` shows that a
  block moves exactly one block from what is due to what is done, drops included,
  and `ReturnRefines` that nothing is due when the call returns. With it the
  theorems of `AdapterProofs` speak of the rings.
- `SysProofs`, threads. `TInv` reads the saved values as stacks. Each grant's
  provisioner has saved what the thread ran with under the grant before it
  (`GrantStack`), the lowest one the thread's own schedule or, after a refused
  restore, less than that (`Kept`). What it ran with under a grant is a real-time
  schedule (first part of `Honest`), and so only a higher real-time priority can
  be refused to a Drop: the thread stays below what it was refused, and what
  stood for its own or a reported priority before still does (`Lowered`). Each guard has saved
  a register that flushes, the outermost one the thread's own bits
  (`GuardStack`). Both hold until provisioners are tangled (granted twice, or
  dropped out of order) or guards misnested, which is what the properties
  exclude.
- `SysProofs`, probe. `PInv`: `nesting_depth` is the number of calls in
  progress that were counted on entry, whatever the switch says now; the measured
  call has only uncounted calls around it (`Single`); and the accounting above.
- `CompileGraphProofs`. `Kahn` is the invariant of the loop: `indegree` counts
  the predecessors that are not in `order` yet, and the nodes with none left are
  those in `order` or `queue`. When the queue is empty and nodes are left, those
  are a set all of whose members have predecessors among themselves; conversely
  a complete order leaves no such set, as its first member in the order shows.
  `ProcessInv` says which nodes have been computed in this block; that the others
  do not disturb them is that the buffers are disjoint (`BuffersApart`) and that
  no predecessor comes later in the order. Past `sample_count` the output is
  silent. `LatencyInv` says of the nodes the
  loop has passed that `path_latency` bounds every path that ends there and is
  attained by one of at most `i` nodes, `i` the node's position, so that a path
  made longer is still one of `Paths`. `SinkAbove` shows that only the sinks
  matter, and `SaturatingFacts` that cutting off at every node is the same as
  cutting off at the end.

Induction over data is done by least counterexamples: a set of natural numbers
that is not empty has a least element (`LeastElement`, from the well-foundedness
theorem of the library), so the set of numbers at which a claim fails is empty.
Euclid's algorithm, the loops over the samples of a ring, the sums along a path, the bound on them and `SinkAbove` are
proved this way, and so is that the recursive functions have the values their
equations say.

Only model-checked is what takes fairness or speaks of what happens again and
again: `WaitFree`, `QueuedIsDelivered`, `PinCompletes`, `RetiredIsReclaimed`,
`PushedIsFreed`, `ReserveIsMinimal`, `Recovers`, `BlockCompletes`, `Settles`.

That `EventBus`, `PerformanceProbe` and `GainNode` may use `BoundedQueue` for
their rings rests on `RingImplementsQueue`; that `emit` may read the free space
in one step, on `ReportedRoomIsThere`.

## 5. Not modelled

Every component with state that several steps or actors can bring out of order
is modelled. Left out:

- `RcuHandle`: twenty lines over one atomic pointer that protect nothing
  themselves. `load` hands out a bare pointer, `swap` the old one, and the safety
  is entirely the contract of their callers; a model could only restate it. The
  graph handle, which replaces it, has the protocol.
- The lifecycle of `NullAdapter` (`riaps-host/lib.rs`): three guarded assignments
  by one thread; a property would restate a guard. The ALSA and CoreAudio
  backends are skeletons that start no stream.
- The monotonic clock (pure I/O), benches, and `src/project.zip`.
- Weak memory, and a guard dropped on another thread than the one it was made
  on (`FpuGuard` is `Send`; the models have one thread).
