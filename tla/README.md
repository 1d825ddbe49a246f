# CGRA-ME in TLA+

CGRA-ME ("CGRA Modelling and Exploration") describes a coarse-grained
reconfigurable array, generates its Verilog, and maps the data-flow graph of a
loop onto it.  This directory holds TLA+ specifications of the parts of it that
are hard to test: the elastic (latency-insensitive) hardware modules and the
processing element that is built from them, the clustered mapper with its
clustering, its placer and its router, the two concurrent ILP mappers of the
composite mapper, and the control unit and bus between the RISC-V processor and
the array in the hybrid system.  TLC checks the specifications on small
instances, TLAPS proves their main invariants for all parameters.

Paths below are relative to the repository; `core/` is `src/src/core/`.

## 1. Inventory

### What the system consists of

| Component | Source | State | Operations | Here |
|---|---|---|---|---|
| Elastic buffer | `core/ModuleElastic.cpp` (ElasticBufferFifo), `src/ip/elastic_modules/fwft_fifo.v` | ring memory, two pointers, word counter, FSM | clock edge (write, read, both), reset | `ElasticBuffer`, `BoundedFifo` |
| Eager fork | `src/ip/elastic_modules/elastic_eager_fork_1layer.v`, `elastic_eager_fork.v` | one register per output (per wire of the tree) | clock edge, reset | `EagerFork`, `ForkTree` |
| Fork with branch | `core/ModuleElastic.cpp` (ElasticForkBranch) | one register per output | clock edge, reset, configuration | `ForkBranch` |
| Elastic processing element | `core/ModuleElastic.cpp` (ElasticJoin, ElasticFPUnit, FPUnit_wrapper, ElasticTokenInducer, ElasticCrossbar), `core/ModuleFPUnit.cpp`, `src/src/modules/RIKENPE_Elastic.cpp` | buffers, valid bits and pipeline of the unit, mode and stop registers of its wrapper, token register, fork registers | clock edge, reset, configuration | `ElasticPE` |
| Other elastic modules | `core/ModuleElastic.cpp` (diverge, merge, select multiplexer, register file, memory port, VLU wrapper, config cell, lazy fork) | their registers | clock edge, reset | planned, in part |
| Simulated-annealing placer | `core/AnnealPlacer.cpp` | op-to-FU mapping, occupancy counters, record of a move | initial placement, perturbation, move, swap, accept, restore | `AnnealPlacer` |
| Router | `core/Pathfinder.cpp` | value-to-nodes mapping, occupancy counters, lists of users | initial routing, rip-up and reroute, success, failure | `PathFinder` |
| Clustered mapper driver | `core/ClusteredMapper.cpp` | status, iteration | cluster (again), place initially, alternate placer and router under a limit | `ClusteredMapperDriver` |
| Clustering | `core/TMPack.cpp` | work queue, clusters, their index, excluded pairs, the op graph | grow a cluster, keep it, split it, clone an op and start again | `TMPack` |
| Schedulers | `core/Scheduler.cpp`, `core/OpScheduler.cpp` | schedule | one pass | not modelled |
| Heuristic ILP mapper | `core/HeuristicMappers.cpp` | mapping so far, neighbourhood size, limit | warm-up pass, test placement, outer, inner and combined solves | `ILPHeuristicMapper` (control flow) |
| ILP mapper | `core/ILPMapper.cpp` | ILP variables | one solve | thread of the next module |
| Composite mapper | `core/CompositeMappers.cpp` | futures, seed, round | launch, wait, examine, return | `BothSmallTimeThenHeurFullTime` |
| Hybrid control unit and bus | `core/Control.cpp`, `src/ip/hybrid_system/` (`dp_ram.sv`, the load-store unit, the firmware) | counter, enable, end flag, registers, bus FSM, banks | processor writes and reads, countdown, end of a run, stores of the array | `HybridControl` |
| Mapper registry, mapping, MRRG, op graph, module library, bitstream, architectures, `cgrame`, LLVM passes | the rest of `src/src/` | tables and graphs, built once | queries, printing | not modelled |

### How the components interact

`cgrame` (`src/src/run/cgrame.cpp`) builds an architecture, derives its routing
resource graph (MRRG), reads an op graph and asks the mapper that the registry
names for a mapping, which becomes a bitstream.

* The clustered mapper schedules the op graph and clusters it (TMPack), which
  may insert ops into the graph and then has to be done again; then it
  alternates the placer and the router: the placer returns a mapping of ops to
  FUs by value; the router adds the routes or clears everything.  The placer
  keeps its placement between calls, the router keeps nothing (it must not).
* The composite mapper runs the ILP mapper and the heuristic mapper in threads
  (`std::async`), which share with it a seed that is captured by reference, two
  futures and the processors.  The driver waits with a timeout, examines what
  is ready, and returns, goes on or gives up.
* The mappers see time limits; an external solver answers with a status.
* The bitstream configures hardware modules.  Elastic modules talk by
  valid/stop wires: a word moves at a clock edge at which valid is up and stop
  is down.  Values leave a buffer, are forked (and branched on a predicate) to
  the crossbar and joined at the inputs of an FU.
* In the hybrid system a RISC-V processor writes the inputs of the array to the
  control unit, starts it, polls, and reads the outputs, over one bus.

### What is hard

* **Concurrency of hardware.** The outputs of a fork take a token in different
  cycles, data and condition come by different paths, everything stalls at
  will, a reset may come at any time.
* **Redundant state.** The buffer has a counter, two pointers and an FSM that
  say the same; placer and router keep counters beside their mappings, and the
  router a third record.  All are updated in different places.
* **Undo.** A rejected move of the placer has caused a chain of swaps, and one
  op may have moved twice; the restoration loop runs over a `std::map`.
* **Threads, time limits, partial results** in the ILP mappers: a status that
  survives or does not, a future that is read once, a seed read late.
* **Two clocks for one line.** The valid bits of the floating-point unit and its
  pipeline are clocked by different enables, and its wrapper stops the join by
  a register, a cycle late.
* **A work queue** whose elements are put back, taken by others and, after an
  insertion into the graph, thrown away while the index of the clusters is not.
* **Exceptions and early returns** that leave state behind.
* **One register, several writers.** In the control unit a write of the
  processor, the countdown and the end port meet in one clock edge; the answer
  to a read is chosen a cycle later; a poll answers before the run is over.

`PROJECT.json` lists the hazards, each with its line and with the properties
that would show it going wrong; those without a property say why.

### What makes each component correct

* Buffer: it is a bounded queue; it never loses, repeats or reorders a word.
* Forks: each enabled output takes each token exactly once; an offer persists
  while it is stalled; tokens leave when consumers are ready again and again.
  The tree behaves as one wide fork.  A branch hands each token to the side its
  own condition selects, and to no other.
* Processing element: operands of one token are joined with each other; a pair
  that was joined leaves the unit once and in order; whatever arrives is joined.
* Clustering and its driver: clusters are disjoint and cover the graph; no op is
  missed; an inserted clone keeps the dataflow; an op is put back only when
  something has changed; the mapper ends.
* Placer: counters equal the mapping; rejection restores; what is returned is
  legal, supported by the FUs, and respects fixed ports and clusters.
* Router: records agree; a success shares no node, connects every sink and has
  one driver per node; a failure leaves nothing.
* ILP mappers: only usable mappings are returned; larger sizes are tried; a
  seed that failed is not used again; the thread limit and the time limit hold.
* Control unit: each request is answered once, by the right word; a start is
  never lost; a counted run has the same length whatever else happens; the
  firmware goes on only when the cycles it asked for are over, starts the next
  run only after the end, and does go on.

## 2. The modules

```
BoundedFifo  <--implements--  ElasticBuffer  <--+
EagerFork    <--implements--  ForkTree       <--+  ElasticRefinement_proofs
    ^  <--implements (unconditioned)--  ForkBranch  <-  ForkBranch_proofs
    |
    ElasticPE  <-  MCElasticPE, ElasticPE_proofs (fork and processing element)
TMPack  <-  ClusteredMapperDriver  <-  MCClusteredMapperDriver,
                                       ClusteredMapperDriver_proofs
AnnealPlacer  <-  MCAnnealPlacer, AnnealPlacer_proofs
PathFinder    <-  MCPathFinder,   PathFinder_proofs
ILPHeuristicMapper  <-  BothSmallTimeThenHeurFullTime  <-  ..._proofs
HybridControl  <-  HybridControl_proofs
```

Names of operators and variables are the source's where TLA+ allows it.  The
operators beside a definition with a similar name (`PlaceWithoutCount` beside
`placeOp`) are wrong variants of it, each the form a plausible mistake would
take; no specification uses them.  They were put in place of the definition one
at a time to see that the property concerned notices (`mutants` in
`PROJECT.json`).

### ElasticBuffer, BoundedFifo

One step is one rising clock edge (`Clock`) or the asynchronous reset.  The
state is the registers of `fwft_fifo.v`: `ram`, `write_address`,
`read_address`, `usedw`, the FSM `state`, and `eb_enable`, the configuration
bit; `received` and `sent` record what crossed the upstream and downstream
interface at the last edge.  The wrapper's wires are operators over them.  The
depth is a parameter (`DEPTH`), as in the source, and need not be a power of
two.  `BoundedFifo` is the promise: a sequence of at most `Capacity` words.
The refinement mapping reads the words between the pointers as the queue.  A
disabled buffer raises no stop and drops what it acknowledges; it is mapped to
a queue that receives nothing.

### EagerFork, ForkTree

`EagerFork` is the unit fork with a buffer in front of it: `state_regs` is the
set of outputs not served yet, `waiting` the number of tokens in the buffer.
The consumers choose at each edge which outputs stall.  `consumed` and `got`
count tokens at the input and per output since the last reset; they exist for
the properties only.  Reset arms output 0 alone (`'h1` in the source), so the
cycle after a reset is a state of its own.

`ForkTree` is the recursive generate block: the registers of all unit forks
together, valid running from the root to the leaves and stop back, both as
recursive functions on the wires, with clipped unit forks at the edge of each
layer (`TreeClock`).  It implements `EagerFork` of the full fanout, cycle for
cycle: an output is to be served if no register between it and the root is
clear (`toServe`).  `LayersAssumption` asks that both fanouts are at least 2 and
that the layers suffice for the outputs (`width`, the outputs that a tree of so
many layers can have); it does not ask for the fewest layers, since the source
rounds a quotient of logarithms up and may get one too many (125 outputs in
fives).

### ForkBranch

ElasticForkBranch in every configuration that `getBitConfig` can set: a fork of
some outputs, or a branch with one output for true and one for false.  The
combinational part is one operator per wire; `Clock` takes a set of stalled
outputs, the arrival of a token and the next condition.  Data come from a
buffer; the condition from an elastic source that holds it until it is taken.
`due` counts the released tokens that were meant for an output, `late` remembers
that an output stalled a token before its condition was there.  `CGRA_Enable`
is high: the control unit holds it from the start of a run to its end.

### ElasticPE

One half of RIKEN_PE_Elastic; the other half is the same with a second unit.  A
step is a clock edge of everything between the crossbars: `buffA` and `buffB`,
the join, the unit with its wrapper, the token inducer, `buffOut` and the
crossbar fork.  The module extends `EagerFork` for the last two, so each step of
the PE is a step of that fork (`PEStepIsForkStep`), and instantiates it once
more as `InFork`, for the input fork.  A token is its number since the reset,
a result the numbers of its two operands.

`register` is the wrapper's shift register of valid bits, `core` the operands in
the pipeline of the unit; each moves under its own clock enable.  `fp_valid`
reads the bit of the *current* mode's latency and `fp_out` the stage of the
*configured* mode's, as in the source.  `wiring` is how the crossbars feed the
operands: two streams, one stream forked into both, one operand, or operand A
from the unit's own last result, for which the inducer supplies the first
token.  `slipped` is history: since the reset, operands stood at the join in a
cycle in which the wrapper's stop register and the stop of the output differed.
What the wiring leaves outside the PE arrives and stalls at will.

### TMPack, ClusteredMapperDriver

`TMPack` is `clusterPEs`, one step per iteration of its work loop.  An op is a
name with the number of `_new` suffixes that clones have; `flow` is the set of
edges of the op graph, which `Restart` changes.  `Grown` are the clusters that
the greedy growth can produce in one kind of PE (each op has an FU of its own,
was next to one before it across a pair that is not excluded, and nothing that
is left fits); `max_used_ops` the largest.  The searches in the MRRG of a PE are
open: `checkReachbitlity` may come to each verdict that the shape of the cluster
admits, and each verdict has the effect the source gives it: `Keep`,
`SplitPorts`, `SplitPair`, `Resolve` (clone and `Restart`, or throw), `Unroutable`.
The work queue starts with the ops without an input and is extended by the sinks
of what was visited.  `FlowsAssumption` therefore asks that every op is reached
from ops without an input other than itself (`Fed`): a loop that nothing enters
would never be visited, and no dataflow graph of a kernel has one, since its
values have to come from somewhere.

`ClusteredMapperDriver` is `mapOpGraph` around it, with `mapStatic` and
`mapElastic`: the support test, the clustering until nothing was inserted
(static fabrics only), the first placement, and the loop of placements and
routings with its bound (`MaxIterations`, 1000 in the source), its time limit
and the exceptions.  Placer and router appear as how they can end; what they do
meanwhile is in `AnnealPlacer` and `PathFinder`.  The driver has no state that
they change and that it reads, other than their result.

### AnnealPlacer

The class as its driver uses it: `clearPlacement`, `setInitialPlacement`, then
`determineTemperature` and `placeOpGraph` any number of times in turn.  One
step is one iteration of an innermost loop: the placement of one op, one swap,
one restored op.  Random choices are nondeterministic over exactly the values
the source can draw; acceptance of a move is a free choice, so costs and
temperatures are left out.  `phase` says which loop runs; `todo` holds the
moves of the current cluster, `evicted` and `home` the loop inside `swap()`,
`old_placement` what `std::map::emplace` recorded.  A cluster with a fixed op has
one draw for each op, without a second try.  The exceptions (no free FU, that
draw, occupancy limit) end in `thrown`, the draw that never succeeds in `spinning`.
`before` remembers the placement when a move began.

### PathFinder

The class as its driver uses it: `routeOpGraph` for one placement after the
other.  One step routes or rips up one value, or reaches one sink.
`dijkstraVisit` is the set of paths the search may return: loop-free, from the
producer or the value's earlier routes to a pin of the sink that takes the
operand, with the latency wanted, not through an FU that holds an op nor through
a node too narrow for the operand, not entering the earlier routes from outside.
Costs decide between them and are
left out, so every admissible path may be taken.  `MaxIterations` is the
number of rounds, 70 in the source.

### ILPHeuristicMapper, BothSmallTimeThenHeurFullTime

`ILPHeuristicMapper` is the control flow of `real_mapOpGraph`: up to two passes
over the neighbourhood sizes; for each a test placement, an outer solve whose
candidates are routed by inner solves, and a final combined attempt.  A
mapping is its status and what it maps (nothing, ops, ops and routes); a solve
ends with a solution, without one, or at its limit; an exception is possible
wherever the solver is called.  Time is one bit, `expired`, that may turn true
in any step, plus the limit in seconds where the source compares seconds.

`BothSmallTimeThenHeurFullTime` runs it beside the ILP mapper: `pc` is the
place of `mapOpGraph_internal`, `ilp` the thread and its future, `returned` the
result.  The thread reads `ilp_mapper_seed` in a step of its own, after the
launch, because the source captures it by reference.  Leaving the function
waits for the thread (the destructor of an `std::async` future does).

### HybridControl

The system that `core/Control.cpp` generates, one step per rising clock edge:
`ClockWrapper` is the register process of `hybrid_wrapper` (a write first, then
the countdown or the end port, so that the later assignments win),
`ClockMemory` the handshake of `mm_ram` and the banks of `dp_ram.sv` with both
their ports.  The combinational part of `mm_ram` is one operator per wire, and
takes the request on the bus as its argument.  A bank stands for one of its
words.  While the array is enabled it may store to any set of banks, and its
outputs show anything at any time.

Each action is what the processor puts on the bus at that edge: nothing
(`Quiet`), or the one request of a firmware operation.  `pending` is the access
that the load-store unit waits for; it sends the next one at the earliest in
the cycle of the answer.  The firmware is that of
`src/ip/hybrid_system/hybrid_conn/firmware/`: it starts a run, polls the
register it wrote, and goes on when it reads 1: with any access from `Latency`
cycles after that answer on, and with the next start from `StartLatency` cycles
on (`pause` counts them down).  Programs that wait a fixed time instead of polling
(`fft_main.c`, `test_main.c`) are not modelled.  Between runs, and while it
polls, it may load, store and read the array's outputs in any order.  It makes
no access between setting and clearing the reset of the array, as in
`src/benchmarks/userbench/test/firmware/test_main.c`: a store then would be
acknowledged and dropped.  `rst_ni` acts at power-up only, which is `Init`.

`left`, `expected` and `stale` are history: the enabled cycles a counted run
has to get yet, the word in memory when the pending load was granted, and that a
run to the end port was started with `end_cgra` still set.

## 3. What TLC checks

| Run | Question | Bounds | Distinct states |
|---|---|---|---|
| `elastic_buffer` | Is the ring buffer a bounded queue, do its redundant registers agree, and does every word leave? | depth 3, two words | 360 |
| `fork_tree` | Is the tree the wide fork? | fanout 5 of binary forks in 3 layers, 2 outputs disabled | 605 |
| `fork_branch` | Does the branch deliver each token by its own condition, once, and when may it lose one? | 3 outputs, 14 configurations, 3 tokens | 16,088 |
| `fork_branch_loss` | Does what is meant for an output reach it? (it does not) | as above | stops early |
| `elastic_pe` | Do pairs stay together, do valid bits and data keep step, is each pair one result while nothing slipped, and is all that arrives joined? | 2 modes of latencies 2 and 0, 4 wirings, buffers of 2, 4 operands | 9,027 |
| `elastic_pe_loses` | Is the unit elastic behind its wrapper? (it is not) | as above | stops early |
| `clustered_mapper` | Do clusters, index and graph agree through cloning and restarts, is no op missed, and does the clustering end? | 4 graphs of 4 ops, 4 fabrics, PEs of 3 and 1 FUs, 2 clones of a name | 21,493 |
| `annealplacer` | Does the placement stay consistent, is it legal when returned and restored on rejection? | 5 ops in 4 clusters, 3 elements, 4 architectures | 12,927 |
| `pathfinder` | Do the records agree, is success exclusive and connected, does failure leave nothing? | 2 values, 3 sinks, 7 routing nodes, one pin too narrow for one value, 3 rounds | 148 |
| `pathfinder_shorts` | Does every node of a route have one driver? (no) | 1 value, 2 sinks | stops early |
| `composite_mapper` | Is what is returned usable, do both threads keep to their rules, and does it end? | 3 limits, 2 thread counts, all switches | 419,382 |
| `hybrid_control` | Does the bus answer rightly, is a counted run exact, and does the firmware go on, and only when the cycles it asked for are over? | 2 banks, 2 outputs, two words, counts up to 4, an access in the cycle after the branch | 28,928 |

Why the bounds are enough for the interesting cases:

* *Buffer.* Three slots are the fewest with a middle: the pointers wrap at a
  number that is no power of two, and the counter has values that are neither
  at nor next to a bound.  Two words tell order.
* *Forks.* Three outputs give a disabled one, a served one and a stalled one at
  the same time.  Tokens are counted up to 3 or 4 between resets: one in
  service, one behind it in the buffer, one that comes after; a fork has no
  memory beyond the current token.  Fanout 5 over binary unit forks has a
  complete unit fork, a clipped one and three layers.
* *Processing element.* One mode has a pipeline, whose bits and stages can come
  apart, the other has none and is the wrapper's other path; the reset mode is
  the one without, so that a configuration of the other passes through a change.
  Buffers of two words can be empty, full and between.  Four operands are the
  latency plus a buffer: the first has left before the last is joined.
* *Clustering.* Four ops and a PE of three FUs: no cluster holds the graph, and
  there are clusters with an op inside, one whose source is shared and one
  whose sink is.  The graphs are a chain, a tree, a diamond and a loop; the
  fabrics include an op that no PE maps and one that only a FU outside the PEs
  does.  Two clones of a name let a clone be cloned.
* *Placer.* The elements of the four architectures give: the same FU drawn
  twice for a cluster, a cluster with one possible place, a cluster with none
  (the endless draw), an FU held by a fixed op, swaps of single ops and of
  clusters in both directions.
* *Router.* Two values compete for a wire and a routing FU; a sink lies behind
  an FU that holds an op in one of the placements; three rounds let a value be
  ripped up, rerouted and ripped up again.
* *Mappers.* A limit of 0 (none), one below the heuristic's waiting time (which
  makes its limit negative) and the default; sizes 4 and 5 by 2, so that the
  last step overshoots.
* *Control unit.* Counts up to 4 lie on both sides of the threshold of 3 and
  include 0.  Two banks and two outputs tell a right answer from a wrong one.
  The firmware makes its next access directly after the branch of a poll
  (`Latency` 1) and its next start one cycle later (`StartLatency` 2), the least
  that the programs need; the mutant shows that one more in the threshold would
  be too many.

Deadlock is checked in every run but `clustered_mapper`, whose program returns
or throws in the end.  The placer, the router and the composite mapper end as
well; there an explicit stuttering action, `Stopped`, stands for it.

The type invariants are proved or part of a proved invariant (section 4) and not
repeated in the runs, nor are some properties that are proved for all constants
and imply nothing that the runs check (`OfferPersists` of the fork,
`SearchedValueIsUnrouted`, the rules of the threads in `ThreadsBehave`).

### What the runs with violations show

* `fork_branch_loss`: a token waits, its condition is not there yet, and the
  output it is *not* meant for stalls.  The registers of the other outputs are
  cleared although nothing was offered; the condition then selects a cleared
  output, and the token is released without reaching it.  `LossOnlyWhenLate`
  shows (and `LossExplained` proves) that there is no other way to lose one.
* `elastic_pe_loses`: the wrapper assigns its stop twice, the second time
  unconditionally and as a register.  In the first cycle of a stall of the output
  the join releases a pair that the stopped unit does not take; in the first
  cycle after it the unit takes a pair that the join keeps.
  `ExactUnlessSlipped` shows (and `ResultsAreExact` proves) that nothing else
  loses or doubles one.
* `pathfinder_shorts`: the search forbids to enter an earlier route from
  outside, but an unused edge between two nodes of earlier routes is inside;
  a node may so get two drivers, one through a register and one directly.

### What a reader should know besides

* Processing element: a change of the mode should drain the unit
  (`core/ModuleElastic.cpp`, line 1798); the same unconditional assignment undoes
  that.  `StageInStep` holds nevertheless, since the mode is constant while a
  kernel runs and nothing is in the unit when it starts.
* Processing element: in a loop through the unit, a result stays in the output
  buffer until the neighbour has taken it too, while the loop goes on.  With a
  buffer of one word the next result meets a stalled output, and so the
  wrapper's late stop; the properties about loops ask for two (`LoopHasRoom`).
* Clustering: an op whose cluster failed goes back on the queue with a pair
  excluded.  Around a loop of the graph, directed or not, the pair can be joined
  again from the other side and nothing need change: the work loop of
  `core/TMPack.cpp` (line 755) may then run for ever, with no time limit inside.
  `RetryExcludesMore` and `MappingEnds` are about graphs without such loops.
* Clustering: the sink of a cloned op is linked to the clone by the name of the
  clone's output (`core/TMPack.cpp`, line 558), not by the operand it had.  Operand
  tags are not modelled.
* Driver: `mapElastic` ignores what `clusterPEs` returns (`core/ClusteredMapper.cpp`,
  line 179); after an insertion it goes on without clusters, which
  `WholeGraphPlaced` has as its exception.  On a static fabric the schedule is
  from before the insertion, and `getCyclesToSink` (line 219) throws for a clone,
  so that no mapping succeeds after one (`Placeable`).
* Driver: `determineTemperature` runs after a successful routing too and may
  throw (line 162): a mapping that was found is then lost.
* Placer: a swap tests that the picked op can execute at its new FU, but not that
  the displaced one can at the FU it gets in return (`core/AnnealPlacer.cpp`, line
  557), nor does the verification of the mapping (`core/Mapping.cpp`, line 125).
  `UniformSupportsOp` says where no op ends up on an FU that cannot execute it:
  where every op that can be displaced (a single op by any other, an op of a
  cluster by one of an evicted cluster) can go wherever the displacing one can.
* Placer: "If there is a cluster then swap all the nodes of the cluster"
  (`core/AnnealPlacer.cpp`, line 522) holds for the evicted cluster only.  An op at
  its new location is exchanged one for one (line 538), also if it belongs to
  another cluster of several ops, which is then torn apart; nothing brings it
  together again.  `ClustersStayTogether` is therefore about op graphs with one
  such cluster.
* Composite mapper: clearing a mapping also resets its status
  (`core/HeuristicMappers.cpp`, line 1971), so a heuristic pass that ran out of time
  between two solves reports failure; the composite mapper takes it for a proof
  of impossibility and skips the round with the full limit
  (`core/CompositeMappers.cpp`, line 116).
* Placer: a cluster that holds a fixed op is never picked, but it can be evicted
  by a swap, fixed op included (`core/AnnealPlacer.cpp`, line 524).  It may also be
  moved to a port another op is fixed to.  Where all fixed ops are alone in
  their clusters they stay (`LoneFixedOpsStay`).
* Control unit: a run of *n* enables the array in *n* + 1 cycles
  (`CountedRunExact`), while the guide speaks of "the number of cycles".
* Control unit: nothing but power-up clears `end_cgra`.  The poll of a second
  run to the end port is answered 1 at once.  The properties about the end of a
  run hold up to such a start, which `stale` marks.
* Control unit: a poll answers 1 while up to three cycles are left.  The answer
  takes one of them and the branch another.  `counter/knn4.S` (lines 57-59),
  `knn8.S` (61-63), `mm4.S` (64-66) and `mm8.S` (86-88) access the bus directly after
  the branch (`Latency` 1): when the poll read the counter at 3, that access falls
  into the last enabled cycle.  The cycles asked for are over then, since this is
  the one beyond them (`GoesOnAfterEnd`), but `CGRA_Enable` is still 1: a word that
  the array stores in that very cycle is not yet what a load gets, and a start
  would be lost.  No program makes one there; between a poll and a start lies at
  least one more instruction (`StartLatency`, at least 2).
* Control unit: `data_rdata` is chosen by the address that is on the bus in the
  cycle of the answer.  `LoadsReturnTheWord` is about loads during whose answer
  that address is in the RAM; during a load that is followed at once by an access
  to a register, the processor sees the port register instead.
* Control unit: `ram_data_rdata_tmp` has four entries whatever the number of
  banks is, so there can be no fifth bank; and `hybrid.h` puts the registers at
  2^22 whatever the size of the RAM, which fits a RAM of 2^22 bytes.  Both are
  outside the model.

### Fairness

* Clocked modules: weak fairness of the clock edge (the clock runs), and strong
  fairness for each consumer: an output that is offered a token again and again
  is sometimes served.  Consumers are elastic modules that stall only while
  they hold words they could not pass on.  No two outputs need be ready
  together.  In `ForkBranch` the condition also covers an output whose register
  is set while nothing is offered to it, since the module looks at its stop.
* Processing element: weak fairness of the clock edge, and strong fairness of
  edges at which a given output is offered a result and its consumer does not
  stall.  Operands need not arrive; `EveryOperandJoined` is about those that do.
* Clustered mapper: weak fairness of the one thread that runs it.
* Composite mapper: weak fairness of the driver, of the thread's start and of
  the heuristic mapper (the operating system schedules threads), and of a
  solve with a limit (the solver stops there).  A solve without a limit need
  not end, so `MappingEnds` is claimed for a limit only.  Strong fairness of the
  end of the candidates: the solver suggests finitely many.
* Control unit: weak fairness of a cycle without a request (the branch of a
  loop is one, so no program keeps the bus busy for ever) and of the next poll
  (the loop polls again); strong fairness of the end port in such a cycle: the
  application makes the selected output show 1, again and again if need be.
* Placer and router: no liveness is claimed.  The placer's draw may be endless
  (`spinning`), and the annealing loop's length depends on costs that are left
  out; the router ends by its bound on rounds.

## 4. What is proved

Each `_proofs` module extends its specification and is checked by tlapm with
Z3, Zenon and LS4.  Constants are assumed to be what the `ASSUME`s in the
specifications say (which TLC evaluates on the instances) and nothing else.

| Theorem | For all | Argument |
|---|---|---|
| `BufferInvariant`, `BufferIsFifo` (`ElasticBuffer`) | depths, word sets | `IInv` = the types, `PointersAgree`, `FsmTracksCount`: without the pointers the counter alone does not show that the slot read is the oldest.  The refinement needs that the slots between the pointers are distinct (`PlaceInjective`) and that a write and a read change the sequence at one end each (`WordsWrite`, `WordsRead`). |
| `TreeIsFlat` (`ForkTree`) | fanouts, fanouts of the unit forks, numbers of layers that suffice, configurations | Valid goes down and stop goes up, so both wires are inductions over the layers, one from the root and one from the outputs: a point is valid iff nothing between it and the root is clear, and a stop is up iff some output below, to be served yet, stalls.  Hence a register is set after the edge as the wide fork's register is, at every output below it.  Every output has a path to the root, and the root is the only point of its layer (`width`). |
| `TypeCorrect`, `ServedOnce`, `OffersPersist` (`EagerFork`), `PEServedOnce` (`ElasticPE`) | outputs, configurations, depths | A register is set exactly while its output is level with the input (`RegistersTrack`), except between a reset and the first edge, when there is no token (`JustReset`).  Every step of the PE is a step of its fork. |
| `UnitInStep` (`ElasticPE`) | modes, latencies, wirings, depths | `PEInv`: types, each valid bit with its stage (`LinesInStep`), operands that a valid bit stands for have a number (`OperandsNumbered`), and the unit is in another mode than the configured one only while it and buffer A are empty (`ModeSettled`); without the last, a result of one mode could leave with the bit of the other. |
| `PairsStayTogether`, `ResultsAreExact` (`ElasticPE`) | modes, latencies, wirings, depths | Outside loops each buffer holds the numbers that follow the last released pair (`Numbered`), so both heads are the same; from the number of the last result that was handed on to that of the last released pair, the unit holds each number once, the youngest last (`Exact`).  An edge at which the wrapper's stop is that of the output keeps this (`UnitMoves`).  In the loop there is one token (`LoopInv`): it is in the inducer, in buffer A, in a stage of the unit or in the output buffer, at one of them only, and it has met as many pairs as `paired` says.  Each edge leaves it or moves it on.  With room for two words it never meets a stalled output, so that the wrapper's late stop does no harm; with one word, `PairsMatch` claims nothing of the loop and `ExactUnlessSlipped` only while nothing slipped. |
| `ClustersIndexed`, `PlacerGetsGraph`, `InsertionsKeepDataflow` (`ClusteredMapperDriver`) | graphs, fabrics, numbers of clones, outcomes of the searches | `ClusterInv`: while the work loop runs, the visited ops are exactly those in a cluster, from which a new one takes none, and both are empty when it is entered; so the old index may survive.  `GraphInv`: the loop that stopped for an insertion has said so.  `FlowInv`: sources are ops of the graph, one per name, and those of a clone are those of its original. |
| `NothingMissed` (`ClusteredMapperDriver`) | as above | `QueueInv`: the ops without an input, and the sinks of visited ops, are visited or queued.  When the queue is empty, the visited ops hold those without an input and are closed under sinks, so by `Fed` they are all.  `Fed` speaks of the graph before the insertions: the clones of an op have sources of the same names (`FlowInv`), and among the clones of one name only the original feeds any (`OriginInv`).  The queue is extended by `FlattenSeq`; that its value holds the members of every part is an induction over the sequence. |
| `RetriesProgress` (`ClusteredMapperDriver`) | as above, graphs without loops as the property says | A cluster is grown along links, each across a pair that is not excluded.  The pair a failure excludes is inside the cluster; had it been excluded before, both its ops would be linked in another way, and the graph would have a loop (`PairClosesLoop`). |
| `NeverTwice`, `TokensMeet`, `LossExplained`, `UnconditionedFork` (`ForkBranch`) | outputs, configurations, depths | An output is ahead only of the current token and with a clear register; while no condition was late, an armed register means level and a clear one means served; a branch that has something to decide has a register set. |
| `PlacementsSupported`, `FixedStay` (`AnnealPlacer`) | op graphs, architectures, clusterings, fixed ports | `Supported`: not only the placement but the record of the move and the moves still to make use FUs that execute the op; what is evicted is in a cluster of several.  `Guarded`: fixed ops are never picked, and no other op is, was or is about to be at a port one is fixed to.  Both rest on `IndexAssumption`, which `ClustersIndexed` proves of the clustering. |
| `CountersAgree`, `PlacementsLegal`, `RejectionsRestore` (`AnnealPlacer`) | op graphs, architectures, clusterings | `Consistent`: a counter is the cardinality of the ops mapped there; lemmas say that `ripUpOp`, `placeOp`, `moveOp` and `exchange` keep it.  `Undoable`: the record agrees with the placement before the move for every op it holds and the others have not moved, whatever chain of swaps; each restored op keeps it. |
| `ClustersTogether` (`AnnealPlacer`) | op graphs with one cluster of several ops, architectures | `TogetherInv`: the ops of the cluster are, or by the moves still to make will be, at one location, which is `home` while they are evicted; so they were when the move began (`BeganTogether`), which is where a rejection takes them back.  No op of the cluster is displaced by another of it, since they share no FU, and any other op that displaces one evicts the cluster as a whole.  During the initial placement only clusters that were taken up are placed. |
| `RoutesConnect` (`PathFinder`) | graphs, op graphs, placements | `PartlyReached`: while a value is searched for, its route so far leads to the sinks before those still to be reached; a route that is kept only grows until it is recorded, and the placement changes only while nothing is routed. |
| `RecordsAgree`, `SearchesUnrouted`, `FailuresLeaveNothing`, `SuccessesExclusive` (`PathFinder`) | graphs, op graphs, placements | `Consistent` for three records, the value under search is unrouted, values from the current one on are unrouted in the first round; a counter of at most 1 is a set of users of at most one. |
| `FailuresAreThorough` (heuristic mapper) | sizes, steps, limits, switches | `AllSizesTried`: the loop is left with a mapping, after the last size, or because time ran out, and nothing after it changes that. |
| `SuccessesCorrect`, `SuccessesRouted`, `FailuresMapNothing`, `SeedsAdvance`, `FutureRead`, `OneThread` (composite and heuristic mapper) | sizes, limits, switches, whatever the solvers answer | `HMInv` (a success outside the warm-up is routed, suggestions before an inner solve map nothing) and an invariant of the driver that ties its place to the states of both threads and says that the present seed is not a spent one. |
| `BusAnswersAtOnce`, `LoadsCorrect`, `CountedRuns`, `EarlyAnswerSafe` (`HybridControl`) | banks, outputs, words, counts, latencies of at least 1, of a start at least 2 | The bus FSM and the load-store unit are in step, so the FSM never waits for a grant; what a bank has read is what was in it (`LoadInFlight`). `Margin`: from an answer of 1 on, the counter of a run falls as fast as the pause, which begins at `StartLatency` when the counter is at most 1; so it is 0 or gone when the first access is made, and the run is over when the pause is. |

With these, every safety invariant, every action property and every refinement
that a passing run checks is a theorem.  Only model-checked is liveness
(`EveryWordLeaves`, `EveryOperandJoined`, `EveryDecidedTokenLeaves`, `MappingEnds`
of both mappers, `EveryRunEnds`): liveness under fairness, and `ENABLED`, are
outside what the prover handles.

The library's induction theorems take a predicate as a parameter, which none of
the provers can instantiate.  Where a proof needs induction over data (the layers
of `ForkTree`, the wires of its tree, `FlattenSeq`, `width`), it is done as a least
counterexample: the set of numbers that violate the claim is a set like any
other, and if it is not empty it has a least member (`WFMin` with
`NatLessThanWellFounded`).  That a recursive function satisfies its equation is
shown in the same way, from the functions on the first *n* arguments.

## 5. What is not modelled

* Costs, temperatures and random numbers: choices are free, so the properties
  hold for every cost function, and nothing is said about quality.
* The ILPs themselves (constraints, objective, reading the solution): the
  solver is external and may answer anything its interface allows.
* The MRRG that each hardware module presents to the mapper, the schedules,
  latency analysis of a mapping, the verification functions, bitstream
  generation, Verilog printing, parsing, the command line, the LLVM passes:
  functions on data that is built once, without an order of events.
* In the clustering: RAM ports, which the option `clusterMemoryOperations` adds
  and which are off by default; operand tags, so that two edges from one op to
  one sink (the op is both operands of it) count as one; how a path or a port is
  searched.
* In the router: an op that a value reaches twice with one operand tag, for which
  `routeVal` throws; the op graphs given to it have none.
* In the processing element: values, the immediate operand (always valid), and
  what is inside the FloPoCo cores.
* Vendored and generated code (`src/thirdparty/`, the parsers under
  `src/src/dotparser/generated/`), which is most of the repository's lines.
* A disabled `CGRA_Enable` in the middle of a run.
* In the hybrid system: the timer and its interrupt (no firmware enables it),
  the instruction port (it only reads), the input registers of the array and
  its own reads of the banks (its outputs and stores are free anyway), the
  configurator, stores of bytes and half words, and the generated header.
* The lazy fork, declared incorrect by its own comment (`core/ModuleElastic.cpp`)
  and instantiated by no architecture.

## 6. Plan

In this order:

1. **Predicated crossbars**: select multiplexer and merge with `ForkBranch`, as a
   branch that is merged again: no token lost or overtaken.  Then the memory
   port, whose answers come from outside.
2. **Operand tags in the clustering**, with the link of a clone to its sink, and
   clusters with RAM ports.
3. **Cycle arithmetic** as pure algorithms: `getCyclesToSink` and the
   scheduler's slack against a reference definition.
4. **Hybrid system**: the second run to the end port as a run of its own, the
   programs that wait a fixed time, the answer chosen by the present address, the
   array's reads of the banks.
5. **Proofs**: the steps that the liveness properties rest on, as action
   properties (what each step brings nearer to its end, and that no step takes
   it back), and the theorems of the modules above.
