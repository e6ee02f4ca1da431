# Formal models of librocketnpu

librocketnpu is a userspace driver and operator library (matmul, convolution,
pooling, attention, encoders) over the Linux `rocket` accelerator driver, for
the NPUs of the RK3588 and RK3576. The arithmetic runs on the part. The host
plans tiles, writes register commands into buffer objects (BOs), submits jobs,
waits on fences and gathers results. What is hard to test in it is not the
arithmetic but the protocol around it: a part that can signal "done" without
having written, buffers that outlive the call that filled them, caches,
processes that share sysfs files, and every failure in between.

The TLA+ modules here model that protocol. TLC checks them on small instances,
and TLAPS proves the core results for every value of the constants. File paths
below are relative to the repository; `PROJECT.json` maps every definition to
the lines it models.

## 1. Inventory

### Components

| Component | State | Operations | Talks to |
|---|---|---|---|
| Device open/close, two-core guard (`src/rocket_npu.c`) | the atomic count of open fds | `rocket_open`, `rocket_close` | sysfs (bound cores), kernel, BO pool |
| RK3576 transient-BO pool (`src/rocket_matmul_rk3576.c`) | free list keyed by fd number and size, byte count, mutex | get, put, drain on close | open/close, GEM |
| RK3576 power-domain cycle (`src/rocket_matmul_rk3576.c`) | once-per-process probe results; sysfs delay of every core | `rocket_rk3576_power_idle` | every process on the machine, through sysfs |
| RK3576 convolution write guard (`src/rocket_conv2d_rk3576.c`) | resident surface, "stamped" flag, redo count | `r76_int8_exec`, `r76_submit_ops` | part, power cycle |
| RK3576 chained runs (same file) | a surface and a flag per layer, two redo budgets | `rocket_chain_plan_rk3576`, `rocket_chain_new_rk3576`, `rocket_conv2d_int8_chain_run_rk3576` | write guard's flags, part, graph layer |
| Resident and streamed fp16 weights (`src/rocket_prepacked.c`) | context with one fd per worker, weights, per-shape scratch cache | init, pack, run, stream, free | fan-out, fp16 matmul |
| Worker fan-out and slot cache (`src/rocket_fanout.c`) | LRU cache, threads of one call | `rocket_slot_get`, `rocket_fanout_run`, clear | prepacked paths |
| fp16 matmul execution (`src/rocket_matmul.c`, part 3) | register-command, output and ping-pong BOs, jobs in flight | `mm_compute`, `_reuse`, `_pipe`, `_kacc`, `_kacc_cube` | kernel fences, CBUF |
| Matmul plan (`src/rocket_matmul.c`, part 1) | none | `mm_plan_geom`, `mm_plan_stream`, `mm_pick_nt`, `mm_max_kt` | hardware profile |
| BO allocation, cache sync, submit, fence wait (`src/rocket_npu.c`, `rocket_op.c`, `rocket_busy_poll.c`, `rocket_fence_watch.c`) | wait counters, spin budget | alloc, ensure, free, prep, fini, submit | kernel; every operator |
| Command chaining (`src/rocket_chain.c`) | the words of a register-command buffer | pack, pack_at, seal, verify | matmul, chained runs |
| Capability probes, lazy settings (`rocket_npu.c`, `rocket_driver_name.c`, `rocket_sysfs.c`, `rocket_log.c`) | cached answers, -1 while unresolved | resolve on first use, explicit set | every component |
| RK3588 one-call operators (`rocket_conv.c`, `rocket_pool.c`, `rocket_reduce.c`, `rocket_activation.c`, `rocket_ew.c`, the matmul entry points, ...) | BOs of a call or a context, host scratch | one entry point each, create and free of contexts | submit and wait |
| Integer, 4-bit and bf16 resident weights (`rocket_prepacked_int8.c`, `rocket_prepacked_int4.c`, `rocket_bf16_stream.c`) | as the fp16 contexts | create, pack, run, free | fan-out |
| Attention, norms, feed-forward, encoders (`rocket_attn.c`, `rocket_norm.c`, `rocket_ffn.c`, `rocket_sam_encoder.c`, `rocket_siglip.c`, `rocket_modernbert.c`) | contexts of weights, scratch arenas | create, encode, free | the operators above |
| RK3576 convolution, matmul and pooling entry points (`rocket_conv2d_rk3576.c`, `rocket_matmul_rk3576.c`, `rocket_pool_rk3576.c`) | resident handles, settled surfaces, redo counts | pack, run, cube in/out, free | BO pool, power cycle, write guard |
| RK3576 tiling (`npu_regcmd_rk3576.c`, the plan parts of the above) | none | output-channel tile, row windows, feature allowance | the part's CBUF |
| Graph linking (`graph/rocket_graph_rk3576.c`) | which layers read and leave cubes, which surfaces are placed or shared, runs | five link passes, in a fixed order; the offer to the run finder | cube calls of the handles, chain planner |

### How they interact

* A user of the library opens an fd per worker; every other object hangs off
  an fd. A close drains the pool before the kernel destroys the handles.
* A job reads and writes BOs; the kernel's fences order jobs by the *output*
  BOs they name. Waiting for a job is waiting for the write fence of one of
  them. A wait may time out and return while the job is still queued.
* The RK3576 part may complete a job without running it ("poisoned"), run part
  of it and be retired at the driver's backstop with the fence signalled as if
  it had completed, or drop single programs of a job. The host detects this
  with a sentinel in the output surface and the time the job took, and redoes
  the job after a power cycle.
* The power cycle goes through sysfs files every process on the machine shares.
* Prepacked paths borrow the scratch of a shape and swap a resident weight into
  it for one call.

### What is hard, and what correctness means there

| Component | Hard because | Correct when |
|---|---|---|
| open/close | threads race between a count, a kernel call and a later decision; foreign fds are closed through the same function | a guarded open is granted only alone; the count follows the fds; the release loop ends |
| BO pool | fd numbers are reused; slots and bytes are bounded | nothing pooled outlives its file; no BO is lost or held twice; bytes are exact |
| power cycle | several files, several processes, kills, unbinds | an observed cycle happened; the system's delay is put back; a zero left behind heals |
| write guard, chained runs | results of earlier attempts and calls look like this call's | OK means this call's rows, in every layer someone reads; the flag never lies; every call ends |
| chain planner | the same rules are written twice over different windows | what is planned can be built, is maximal, disjoint and complete |
| prepacked, fan-out | every step of a call can fail in every worker; scratches are recycled under live weights | no BO leaks; a weight is used only by the tiling it was packed for; every call returns |
| one-call operators | a call takes up to forty steps and most of them can fail, each with its own unwind; the CPU and the part share cached memory | whatever fails, everything is given back once, the error is reported, the CPU and the part never use a buffer at once, nothing of this call can disturb the next |
| planners (RK3588, RK3576) | a planner and a generator state the same budget twice; a task past a law of the part raises no error | every task of a plan is accepted, completes, and computes all its rows and channels |
| command chaining | the part has only what the link before says; a buffer is rebuilt with other counts | every program runs once, whole, and nothing behind the last |
| fence wait | an absolute deadline from a relative time-out of any size, signals, a spin before it; waits note themselves concurrently | a wait reports only what happened; the counters are exact |
| graph linking | five passes wire and unwire the same handles; each call may refuse half-way | every layer finds its operands in the form it reads them, in the network as wired and with its kicks |
| fp16 matmul | five loop programs must sum the same products; buffers are rebuilt while jobs run; jobs outlive calls | every program equals the oracle, also after a failed call |

## 2. Modules

| Module | Models | Notes |
|---|---|---|
| `OpenGuard` | abstract: a holder is admitted, exclusively or not | the promise of the two-core guard |
| `DeviceFd` | `rocket_open`, `rocket_close`, BO pool | one action per atomic operation, system call or critical section; refines `OpenGuard` |
| `DeviceFdProofs` | | proofs about `DeviceFd` |
| `PowerIdle` | the power-domain cycle | one action per sysfs access of one process |
| `SubmitGuard` | the write guard of one convolution tile | the part is nondeterministic |
| `SubmitGuardProofs` | | proofs about `SubmitGuard` |
| `ChainRun`, `MCChainRun` | one kick for several layers | the run (links, pools, switches) is a rigid variable chosen in `Init` |
| `ChainPlan` | the run finder and the constructor's acceptance tests | the node array is chosen in `Init`, or left behind by `GraphLink` |
| `GraphLink`, `MCGraphLink` | the five link passes over a network, the library's cube calls, the offer to the finder | extends `ChainPlan`: the finder runs on what the passes left |
| `SlotCache` | `rocket_slot_get` as operators on a sequence | used by `Prepacked` |
| `Prepacked`, `MCPrepacked` | contexts, weights, pack/run/stream, fan-out | composes `SlotCache` with the workers |
| `MatmulExec`, `MCMatmulExec` | the five fp16 compute loops, the queue and the part | program and shape are rigid variables |
| `OpSteps` | how an operator is written down: one constructor per kind of step and per kind of failure exit | no state |
| `OpMachine` | the machine that runs one operator and lets any step fail that can | BOs, host blocks, jobs, return variable |
| `OpsConv`, `OpsVision`, `OpsActivation`, `OpsNorm`, `OpsAttention`, `OpsEncoder`, `OpsMatmul`, `OpsPrepacked`, `OpsR76` | some 190 operators, contexts and handles of the library as lists of steps, in source order | one definition per C function |
| `LibraryOps` | `AllOps`, the operators of those modules | |
| `OpOutline` | | what a list of steps claims by itself about every call of it, and when these claims make the operator sound |
| `PlanArith` | arithmetic the planners share | |
| `MatmulPlan` | the RK3588 matmul planners of every datatype and the six generators' view of a task | the call is chosen in `Init` |
| `R76Plan` | the RK3576 output-channel tile, row windows and allowance ladder, on a part that obeys the measured laws | the shape is chosen in `Init` |
| `ChainLayout` | the words of a register-command BO of several programs, and the part that follows the links | buffer and batches are chosen freely |
| `FenceWait` | `rocket_bo_prep` as a wait, spin budget, fence-watch counters | one step per access to shared state |
| `WellOrder` | | minimal elements, recursive functions and sums over finite sets: the lemmas that stand in for induction |
| `PowerIdleProofs`, `ChainRunProofs`, `PrepackedProofs`, `MatmulExecProofs` | | proofs about the module each is named after |
| `CallProofs` | | proofs about `ChainPlan`, `FenceWait` and `OpMachine` |
| `MCCalls` | puts `OpMachine`, the planners, `ChainPlan`, `GraphLink`, `ChainLayout` and `FenceWait` side by side | they share no state; one run explores them all |

### DeviceFd

`count` is `rocket_open_fds`; `openFds`, `gem` and `bosize` are the kernel's
view; `pool` and `bytes` are the free list. The two-core decision is made in
one step (`OpenDecide`) and used in the next (`OpenClaim`), as in the code, so
cores may be bound or unbound in between. `ReleaseLoad/Stop/Swap/Retry` are the
compare-and-exchange loop. `Foreign` threads stand for callers that opened the
node themselves and hand the fd to `rocket_close`. The pool's mutex makes each
of get, put and drain one step.

### PowerIdle

A call is: resolve the directory list, the idle and the kick delay once; write
zero to each device; poll each device's status until one scan finds all of them
suspended or the budget runs out; write the remembered delay to each device;
sleep if the cycle was not observed. Each file access is a step, so another
process, a resume, an unbind or a kill fits anywhere. `cycled` is a ghost: the
shared domain collapsed since the call began.

### SubmitGuard

`rows[t]` is what the resident surface holds for row task `t`, as what it was
computed from: the sentinel, an earlier input, part of this one, or all of it.
A job completes, is poisoned, is retired at the backstop with any subset partly
written, loses some tasks, or fences early. `blank` is the set of tasks whose
correct rows equal the sentinel. `multi` says whether one job carries the tile.

A wait may time out before its job has run (`WaitTimesOut`): the call fails and the
job stays queued (`left`). From then on it may run at any step (`LeftRuns`), between
two calls or after the next one's stamp, and there may be several such jobs, left
by several calls. By then the register commands and the
features it reads may be a later call's, so it may write rows of either input, whole
or in part, to any task. A job submitted behind it waits for it, because both write
the surface and the driver's fences order them. `crossed` is a ghost: such a job has
run since this call began.

### ChainRun and ChainPlan

`ChainRun` follows each layer's surface through stamp, kick, lag check, write
check (which stamps interior surfaces for the next call), completion score,
both redo budgets and de-scatter. A layer whose feed is wrong computes a full
but wrong surface, so a failure upstream must be caught at its own layer.
`ChainPlan` runs the finder over *every* array of nodes of a given length and
compares it with the constructor's tests as an independent definition.

### GraphLink

A network is a sequence of layers: kind, the layers it reads, channel count and
traits (no handle, prepared on the host, asymmetric weights, several surfaces,
...). `cubeIn`, `cubeOut`, `placed` and `shared` are the arrays of the plan.
`feat`, `surf` and `leaves` are the handles' side: the cube each reads, where
each writes, whether it leaves a cube instead of rows. `LinkAdd`, `LinkConcat`,
`LinkTail`, `LinkShared` and `LinkPair` are the loop bodies of the passes, in
this order, each over the whole network: guards, then the calls that may refuse
(`CanPlace`, `CubeOf`, `TakesCube`, `CanLeave`), then either `Wire` with the
flags or `Unwire`. `PassOver` is a layer the pass leaves alone, also because its
buffer could not be allocated. `OfferKicks` is the candidate loop of
`kick_build`; the finder of `ChainPlan` then runs on it. Channels are counted in
groups of 16, of which direct programs write and read two at a time, because
what the passes may get wrong lies between the two. The property is stated on
what the network then computes: which program wrote each group last before its
reader runs, and whether a kick put the sentinel over it (`Restamps`).

### Prepacked

Handles are allocated lowest first per fd, as the kernel does, so a freed and
reused handle is visible as such. A buffer's content is the matrix scattered
into it and the signature of the layout. Every allocation and every pack may
fail; a thread may fail to start, which makes its worker run inline after the
others were spawned.

### MatmulExec

A program is a sequence of batches; each is Build (register commands into a
buffer), Submit, Consume (wait, then take the tiles). The queue may hold jobs
of a call that timed out. A job runs what its buffer holds *when it runs*.
What a task computes is the pair of operand tiles it read, and a sum is the
sequence of pairs, so a stale operand, a lost or doubled partial, a wrong order
or a wrong slot all show. The part's rules (external): an operand survives in
the CBUF from one task of a job to the next, a batch that is not one job loses
it, a weight tile larger than the CBUF share is never whole, a buffer in both
lists makes the driver drop the job.

### OpSteps, OpMachine and the operators

An operator is data: its steps in source order (allocate one by one or test at
the end, ensure, fill inside a bracket, patch, submit with its read and write
lists, wait, take, free, loop, leave early, call another operator), each with
what the code does when it fails: go to the exit label with the return variable
as it is, set it first, return at once releasing a named subset, or return what
a fallback returns. The record also names what the exit label frees, what a
success keeps for the caller, what belongs to a context and survives the call,
and what the caller keeps filled. The machine executes it: `TakeStep`s move a
buffer through `raw`, `synced`, `owed`, `result`, `done`, and so on; any step
that can fail may fail; a job stays in `jobs` until its output is waited for.
Branches of a function that differ in the buffers they use are alternatives
(`Either`, `Maybe`) or operators of their own (the Boolean parameters). Loops go
round again at most `MaxLaps` times in a call.

`OpOutline` computes, for each step of an operator, the states each BO may be in
there, the values of the return variable and the jobs that may run: a data-flow
analysis over the list of steps, name by name, that never executes a call. `Sound`
says which outlines exclude every leak, stale read and lost error, and
`AsClaimed` that the operator of a call has such an outline and that the call is
where the outline claims. The proofs about `OpMachine` start from it (section 5).

### MatmulPlan

`PlanGeom`, the streaming search, grouped and pinned plans and the adjustments
of each entry point are operators; a step of the machine plans a call, and the
next emits any one of its task heights as the generator of that datatype does,
with its bank split and its refusals. `PlansHold` compares the two sides:
nothing legal is refused, nothing planned is rejected in the middle of a call,
the operands of each task have their banks, weights stream only where the part
can, resident weights are where a call of other rows looks for them, and no
narrow partial saturates.

### R76Plan

The planners are operators again; the machine runs each channel tile and row
task of one shape and marks the channel groups of each output row right unless
the task breaks a measured law of the part (external, from the comments and
sweeps in the source): the reach of the allowance rung it selects, the weights
beside it, the weight phase in which groups stall. Then "ok" means every group
of every row is right (`SurfaceWhole`).

### ChainLayout

A buffer is words; an address counts words. A batch is packed gapped, chained
or at explicit offsets with claims about the next length, sealed, verified if
its caller does, and submitted. The part starts at the first program and has
only links for the rest (`Runs`). A second batch in the same buffer finds the
first one's words. The pad word behind an odd program is inert.

### FenceWait

A waiter resolves the spin budget, polls, spins, arms a deadline, blocks, is
interrupted and blocks again, and notes a timed wait in the counters. The clock
and the fence are separate steps, and integers have the width of the code
(`MaxInt` for INT64_MAX), so the deadline saturates or wraps as there.

## 3. Runs

| Run | Question | Bounds |
|---|---|---|
| `devicefd_guard` | Is a guarded open alone? Does the code implement `OpenGuard`? Does close end? | 3 threads, 3 fd numbers, 1 or 2 cores |
| `devicefd_pool` | Do count, pool and bytes stay exact, with a foreign close? | 3 threads (one foreign), 2 BOs, 2 sizes, cap below two large BOs |
| `poweridle_clients` | What may one client rely on, and does a survivor heal the delay? | 1 or 2 processes, 2 cores, 1 fault (unbind or kill) |
| `poweridle_unbind` | Is the delay always put back? (violated, finding 1) | 1 process, 2 cores, 1 unbind |
| `submitguard_tile` | Does OK mean this call's rows, and is the flag true? | 3 tasks, 3 attempts, one job or job by job |
| `chainrun_all` | The same for a whole run of layers | 4 kinds of run, up to 4 layers, budgets 3 and 2 |
| `chainrun_dirty` | Does it hold after a failed call? (violated, finding 2) | 3 convolutions |
| `prepacked_cache` | Do buffers and cache survive every failure? | 1 worker, 4 shapes, 2 slots, 4 uses |
| `prepacked_workers` | Is the answer the product of the named weight? Does the call return? | 2 workers, 2 weights, 3 shapes, 1 slot |
| `matmulexec_programs` | Do all programs equal the oracle? | 4 shapes, every switch, BATCH 6, 2 jobs left behind |
| `calls_alone` | Whatever fails, does each operator give back everything, report it, and keep the CPU and the part apart, and has each a sound outline? Do the planners only cut what the part computes? Is a planned run buildable, does every layer of a linked network find its operands, does a packed chain run whole, is a wait honest? | see below |
| `graphlink_tails` | Does a cube that declares a constant tail hold it when it is read? (violated, finding 3) | one network of five layers |

### Why the bounds are enough

* `devicefd`: the races are between the decision and the claim of one thread
  and a grant or release of another; a third thread changes the count under the
  release loop. Three fd numbers allow reuse of a number. Two BOs of two sizes
  under a cap of 3 reach "full by bytes" and "full by slots".
* `poweridle`: two devices are the smallest number for which one write or poll
  succeeds and the next does not. One fault at a time is the documented case.
* `submitguard`, `chainrun`: three tasks or layers give a first, an interior
  and a last; three attempts reach both the redo that succeeds and the one that
  exhausts the budget. The four runs cover a shortcut over a pool, a shared
  surface, per-kick checking and the sentinel switched off.
* `calls_alone`, one item per machine:
  * `OpMachine`: every operator the `Ops` modules list, every failure of every
    step, a loop going round once more. A second lap is what shows a buffer
    kept from the first; the state of a buffer does not depend on more.
  * `R76Plan`: 1,376 shapes on both sides of each limit: planes that need one
    or many windows, channel counts at every rung and phase boundary, strides,
    kernels up to 13, all five kinds.
  * `MatmulPlan`: some 2,250 calls: single rows, row counts below, at and past
    the tile cap, K at the bank boundaries and the ceilings, narrow and wide N,
    legal and illegal groups, both settings of streaming and accumulation.
  * `ChainPlan`: every array of 4 nodes, up to 2 programs each, cap 3. Four
    nodes hold two runs, a trailing pool that is given back, a placement node
    and a window split by the cap.
  * `GraphLink`: every network of four layers over convolutions of 16 and 32
    channels, depthwise layers, pools, adds and concatenations, plain and with
    asymmetric weights; and six families (MobileNetV2's block, depthwise only,
    ResNet's shortcut and shared sum, Inception's branches, a branch read
    twice, a pool before several readers with a host layer between) at 16, 24,
    32 and 48 channels with any one layer given any one trait. Some 5,500
    networks. Widths on both sides of a group and of a pair of groups are what
    the placement rules distinguish.
  * `ChainLayout`: addresses end at 64 words; buffers end at the last address,
    one word past it, across it or behind it; programs of 5 to 9 words, odd and
    even; two batches in one buffer, one to three programs each, any one length
    claim wrong.
  * `FenceWait`: two waiters and a setter; INT64_MAX is 7, so a time-out of 15
    is UINT64_MAX and overflows when it is added to the clock.
* `graphlink_tails`: the smallest network of the kind the finding names.
* `prepacked`: one more shape than slots, the tile cap crossed in both
  directions, an uneven split, more uses than entries.
* `matmulexec`: with BATCH 6 the shapes give up to three full batches and
  partial ones, a short remainder in each dimension, 1, 2 and 3 K steps (both
  parities of the ping-pong), and chained groups of two and of three tiles, the
  last of a shape short.

`CHECK_DEADLOCK FALSE` is used in the two `prepacked` runs, where the cache clock
is bounded (`MaxUses`) and no call can begin behind it, and in `calls_alone` and
`graphlink_tails`, whose machines are single calls that end.

## 4. Fairness

* `DeviceFd`: a thread inside open or close runs on (weak fairness per step).
  The successful exchange of the release loop needs strong fairness: other
  threads can change the count between its load and its exchange, but each of
  their exchanges is progress of their own and there are finitely many threads.
* `PowerIdle`: a call runs on; an idle device suspends after its delay; the
  poll has a finite budget, so a scan that keeps failing does run out.
* `SubmitGuard`: the calling thread runs on. Its wait has a deadline, so nothing is
  asked of the part, not even that a job ends.
* `ChainRun`: a submitted job ends, because the driver retires it at the backstop,
  and the calling thread runs on. Nothing is assumed about *how* it ends: no call
  relies on the part recovering.
* `Prepacked`: the thread of a call and its workers run on. Nothing makes a
  caller start a call.
* `MatmulExec` and the machines of `calls_alone` state safety only and assume
  no fairness. Each of the latter is one call that runs to its end.

## 5. Proofs

Proved with TLAPS for every value of the constants that the `ASSUME`s of the
modules admit (any number of threads, processes, cores, fds, BOs, tasks, layers,
nodes, workers, shapes, attempts and laps, every setting of the switches). Each theorem
follows from an inductive invariant by `Init => Inv` and `Inv /\ [Next] => Inv'`,
with one lemma per action; TLC checked each invariant on the run's instance
before it was proved.

| Module | Theorems | Inductive invariant |
|---|---|---|
| `DeviceFdProofs` | `TypeCorrect`, `CountCorrect`, `GuardCorrect`, `GuardImplemented` (refinement of `OpenGuard`), `PoolCorrect`, `NoBoLostCorrect`, `PoolAccountedCorrect` | `TypeInv`, `CountInv`, `OwnInv`, `BytesInv`, each built on those before |
| `SubmitGuardProofs` | `GuardTypes`, `DeliveryCorrect`, `FlagCorrect`, `HealthyCorrect` | `IInv`; `HealthyCallSucceeds` is inductive beside it |
| `ChainRunProofs` | `TypesCorrect`, `DeliveryCorrect`, `FlagsCorrect` | `RoundInv` |
| `PowerIdleProofs` | `PowerTypes`, `ObservedCorrect`, `PolicyCorrect` | `TypeInv`, `ObservedInv`, `KeptInv` |
| `PrepackedProofs` | `TypesCorrect`, `CacheCorrect`, `RecyclingCorrect` (an action property), `BosCorrect`, `AnswerCorrect` | `CacheInv`, `Owners`, `AnswerInv`, each built on those before |
| `MatmulExecProofs` | `TypeCorrect`, `RunsSubmitted`, `Oracles` | `IInv` |
| `CallProofs` | `BuildableCorrect`, `GreedyCorrect` (of `ChainPlan`) | `FinderInv` |
| | `HonestCorrect`, `CountersCorrect` (of `FenceWait`) | `HonestInv`, `CountInv` |
| | `OpTypes`, `OutlineCorrect`, `LeakCorrect`, `ReportCorrect`, `SettledCorrect`, `DanglesCorrect`, `ApartCorrect` (of `OpMachine`) | `OpInv` |

Why the invariants are needed, module by module:

* `DeviceFd`. `TypeInv` adds that a thread past its open has an fd. `CountMatches`
  alone is not inductive: the release loop's exchange needs to know that the
  thread itself is still counted, so `CountInv` compares the count with the
  threads that owe a release. `OwnInv` says each fd belongs to one thread and
  each live BO to one holder or the pool. `BytesInv` needs it: a BO put is not
  in the pool already, and a fresh BO, whose size changes, is none of the pool's.
  `GuardCorrect` and `GuardImplemented` assume `Foreign = {}`: a foreign close
  takes the count below the number of fds held, and then a guarded open may be
  granted beside another (the code says so of callers that bypass it).
* `SubmitGuard`. `RowsInv` is the heart of `IInv`: at every stage, which rows can
  hold what. A redo starts from the sentinel, so bytes of a retired attempt
  cannot satisfy a later write check; that much needs a surface no left job has
  written (`Unmixed`). Where one has, `RowsInv` knows only the rows the jobs of this
  call wrote, and these are right while `healthy` holds. `LeftInv` says how late a
  left job can be: it runs before the first job of a call fences, and never on a
  surface whose flag is up, which is why the flag may be trusted all the same.
* `ChainRun`. Before a kick every checked surface carries the sentinel, by a
  fresh stamp or by a flag that is true. A kick that passes the guard therefore
  wrote every layer, with no divisor lagging. Of the layers whose output were
  not this call's take the first: it reads only this call's, a contradiction
  (`WholeKickGood`). As in `DeliversThisCall`, this is under the coverage the
  guard documents and after calls that did not fail behind their kick
  (finding 2 is what happens otherwise).
* `ChainPlan`. The finder's window is one the constructor accepts but for its
  end (`GrownOK`, `NextLinked`), and no longer window that starts there is
  accepted (`NoLonger`), which is what makes giving nodes back lossless. The
  theorems are about the finder on any node array, so also on the one
  `GraphLink` leaves; that the hand-over happens is checked there.
* `PowerIdle`. `Observed`: a device a scan has passed stays suspended until the
  call ends, because only a job of this process could resume it, so a scan that
  reads the devices one after the other has seen them suspended all at once.
  `Kept`: with all cores bound no write fails, so zeros are always followed by
  the loop that restores. Both are of a lone process; two processes refute them
  (section 6).
* `Prepacked`. `CacheInv`: no key is cached twice, so the slot a call resolved
  stays its own while its workers run, and each worker step changes one place
  of that slot (`WorkerFrame`). `Owners`: on each fd the live handles are divided
  among the scratches and the weights. A run lends a scratch's place to a
  weight's buffer; the scratch then owns the handle the worker saved (`Own`), and
  without that case the invariant fails at the swap. `AnswerInv`: a weight's
  buffers hold what was packed into them, what a worker is about to read is the
  matrix the caller named, and a worker that succeeded has written its slice. The
  last step, that the slices cover C, is arithmetic on the tiling rule
  (`FirstWorkers`, `SlicesCover`, `CellsCovered`).
* `MatmulExec`. `RunsWhatWasSubmitted` needs to know where the buffers stand:
  `BufferInv` says that every batch of the call whose programs may still run
  (`Live`) is held by its buffer, whole, because the next build into that buffer
  comes a pipeline depth later (`CountInv`). `Oracles` needs more, because a call
  may time out and its jobs run during the next call, from buffers rebuilt
  meanwhile. `BuiltAt` limits what such a late job can do: it finds at each place
  some task of the same program, so it writes slots of its own output buffer
  only, and a batch that adds to a slot adds what was there before (`OutInv`:
  what a live batch adds to is right from its build on, and what it leaves is
  right or its job is still queued, for the fence then orders the late job before
  the read). `AccInv` says the CPU has added exactly the partials of the batches
  read, each in the order of its K steps, so the last batch completes the
  oracle's sequence. What the batches of the five programs are (which tiles, in
  which order, in which slots) is proved first, from their definitions.
* `FenceWait`. `Armed`: the deadline lies at least the timeout behind the start of
  the wait or is saturated, and the clock stays below saturation
  (`ClockAssumption`). `CountInv`: each counter counts the waiters past the step
  that raises it, and what a waiter remembers of the maximum never exceeds it.
* `OpMachine`. Its properties are true of the operators the library has and not of
  any list of steps, so the theorems have a hypothesis, `SoundOutline`: the
  operator of the call is well formed and its outline, worked out from the list
  of steps alone, is sound. That is a condition on the text of an operator, one
  name at a time, without the combinations of states a call can be in. It is
  met by every operator the `Ops` modules define, none of which is left out of the
  list that runs: TLC checks it, as the first conjunct of `AsClaimed`, in
  `calls_alone`. Five operators meet it only because the properties except them,
  and the theorems say no more of these than the properties do: `Silent` names one
  call that loses an error, `Abandoned` the scratch one worker leaks, `Unprepared`
  the steps of three that do without the bracket they need (section 6). Taking any
  one name out of these sets makes the run fail. `OpInv` says that a call that goes on is where the outline claims
  (`AsClaimed`) and that a call that has ended left what the outline allows
  (`EndedWell`). The proof has two halves. Each action moves a name as `Becomes`
  says, so a call that goes on stays inside a closed outline (`GoesOn`). Each way
  out, a failing step with some of its names done, a step that leaves early, or
  the exit label, ends in states that `SafeStep` or `SafeExit` has examined
  (`Ends`, `FailsWell`, `SucceedsWell`). The number of laps does not occur in it:
  the run takes a loop round twice at most, the theorems say the same of any
  number.

Induction. The library's induction theorems take an operator as a parameter, which
the provers here cannot instantiate. `WellOrder` replaces them: every non-empty
collection of finite sets has a minimal member (`MinimalSet`), hence every
non-empty set of numbers a least one (`LeastNumber`, `UpTo`). From these follow
that a function with given steps exists (`StepByStep`), that the fold behind
`MapThenSumSet` exists, is unique and does not depend on the order in which
`CHOOSE` takes the set apart (`SumExists`, `SumUnique`, `SumSplit`, `SumUnion`).

Checked by TLC only:

* All liveness (`CloseReturns`, `SurvivorHeals`, `CallReturns` of three modules):
  it needs `ENABLED`.
* `R76Plan`, `MatmulPlan`: statements about searches over a given set of shapes
  against measured limits. A theorem for all shapes would say more than is known
  of the part.
* `GraphLink`, `ChainLayout`: single calls over chosen networks and buffers. Their
  loop invariants are not worked out.

## 6. Findings

1. `poweridle_unbind`: when one core is unbound after the probe, writing the
   zeros fails part way; the block that would write the old delay back is
   skipped, and the remaining cores keep a delay of zero.
2. `chainrun_dirty`: a chained call that fails behind its kick leaves the
   "already stamped" flag up on a surface the kick wrote. The next call skips
   the stamp, and a poisoned kick then passes the write check with old bytes.
   The per-layer path takes the flag down before its submit.

3. `graphlink_tails`: a branch that a concatenation and one asymmetric
   convolution both read is placed in the shared buffer; the convolution is
   handed a cube that declares a zero-point tail, but that tail lies under the
   next operand's channels. If that operand's program runs before the
   convolution, its zero-point term sums another layer's channels.
   `EveryLayerReadsItsOperands` excepts exactly this case (`Overlapped`).

Conditions under which a documented property does *not* hold, stated in the
properties instead of reported as findings:

* With two clients, a probe made inside another client's window finds a zero,
  keeps the default and later writes that default instead of the configured
  delay; and "observed suspended" may combine two moments (`PolicyKeptByOne`,
  `ObservedByOne`).
* A task whose correct rows equal the sentinel in every byte reads as unwritten
  after every redo, and the call fails (`HealthyCallSucceeds`).
* After a timed-out wait, a later call rebuilds the register commands of a job
  still queued (`RunsWhatWasSubmitted` holds until a call fails). `MatchesOracle`
  shows that the later call's answer is right all the same.
* A chained run checked at its last layer only promises nothing on a part whose
  programs die one by one (`Covered`).
* A convolution whose wait times out leaves its job queued
  (`src/rocket_conv2d_rk3576.c:663-666`). If it runs after the next call has stamped
  the surface (`:2814-2818`), its bytes pass the any-byte write check for a job of
  that call that was poisoned, and the call returns OK with rows of another
  input. `DeliversThisCall` therefore says: where such a job has run since the call
  began, every job of the call must itself have written all of its rows.
* A flash-attention worker that gets only part of its scratch closes its device and
  returns without the part it got (`src/rocket_attn.c:1338-1341`), against the
  comment on the field, "the worker allocates+frees a local scratch" (`:1316`).
  `NothingLeaked` excepts these names in this worker (`Abandoned`).
* The global extrema pool reads its input with no read bracket at 1x1, where it
  runs no pass (`src/rocket_reduce.c:365-369`); with passes it waits for the last
  one. `CoresAndCpuApart` excepts the one read (`Unprepared`).
* The fused feed-forward paths write a cube through its map and call `rocket_bo_prep`
  on it again before `rocket_bo_fini` (`src/rocket_ffn.c:196`, `:336`). The bracket
  was still open from the wait for the cube, so it is this second prep that is one
  too many: it may drop the lines the CPU has just written. The machine makes the
  cube `old` there, and `CoresAndCpuApart` excepts that prep and the job that
  reads the cube behind it (`Unprepared`). Everywhere else a bracket over dirty
  lines is an error of the operator.
* `rocket_sam_encode_ctx` returns 0 when its neck fails: the layer loop left 0
  in the return variable and two exits behind it set no error
  (`src/rocket_sam_encoder.c:758`, `:764`). `ErrorsReported` excepts this one
  call by name (`Silent`).
* `rocket_matmul_int4_ex` drops the caller's cap on the K tile when it pads a
  single row (`src/rocket_matmul.c:3388`), so `Unsaturated` excepts that.
* A setting resolved from the environment on first use can overwrite one set
  explicitly meanwhile (`src/rocket_busy_poll.c:25`; `include/rocket_npu.h:303`
  says the setter overrides the environment). `FenceWait` has the race; only the
  length of a spin depends on it.

Seen while reading, where the models do not tell the difference or assume the
case away:

* `mm_batch_run` keeps its record of the zeroed operands when a prep fails
  (`src/rocket_matmul.c:2758`), against its own comment at `:2909`.
* The redo of an RK3576 int32 task does not stamp the surface again
  (`src/rocket_matmul_rk3576.c:2943`).
* `rocket_conv2d_int8_cube_out_at_rk3576` with no slice clears the external
  surface before it allocates a surface again, which may fail; the pool's
  setters free a surface before their program is generated, which may fail.
* A convolution the fp16 depthwise planner accepts may be refused by the
  function that runs it, and the int8 one does not bound a chunk's weight cube.
* `add(x, x)` would be wired with one slice for both operands, and
  `multi_link` does not ask whether a host layer reads a shared surface (the
  header has such callers leave the handle out).
* A packed program of odd length leaves its pad word as it was, and clearing a
  link writes the word before the length word without checking what it is.

## 7. Not modelled

* Register-command words and their hardware encodings: straight-line code with
  no state, validated against the part. Limits they impose enter the planners.
* Arithmetic, formats and layout of the operands: a tile is the operands it was
  computed from.
* Logging, profiling counters, environment parsing. The tuning and A/B knobs
  (`ROCKET_MM_*`, `ROCKET_REUSE`, `ROCKET_RK3576_NET_*`, row and tile overrides)
  are at their defaults.
* The hardware profile table: `MatmulPlan` uses its RK3588 row.
* In `OpMachine`: what the arithmetic of a step needs, so a fallback taken on a
  value is a free choice; calls in sequence (a call is one behaviour, with the
  context it finds in any state an earlier call leaves); mapping failures in the
  model loaders.
* In `MatmulPlan`: the job count near INT_MAX; a shrink loop of the grouped plan
  no legal call reaches; a batch is taken to be one job where reuse is asked for.
* In `R76Plan`: rows with a pitch, CBUF row reuse, the packed fp16 image, the
  job count near INT_MAX, the envelope of the fp16 matmul.
* In `ChainLayout`: the words of a program other than its trailer; the pad word
  behind an odd program is assumed inert, as the code does.
* In `FenceWait`: resetting the counters, the resolution of the slow mark, the
  overflow of a spin budget in microseconds.
* In `GraphLink`: counters and log lines, the limit of 32 runs and the cuts of
  the bisection knobs, geometries that do not match, and a re-allocation that
  fails when a wiring is taken apart. Host layers read only layers without a
  handle, and the operands of an add differ, as the header asks of the caller.
* In `MatmulExec`: a build and a job are single steps, and a job whose fence
  signals has run (the RK3588 path has no write check; the fence watch only
  warns of slow waits). The scratch half of `mm_compute_kacc_cube` is kept
  between calls in the model, where the code allocates it per call.
* In `ChainRun`: the early returns before the stamp, which change nothing.

## 8. Plan

What is left to model, in order of importance:

1. The divisor lag of RK3576 pooling outside a chained run, and the narrow
   fallback of its int8 matmul, as results of a part that may lag or saturate.
2. The integer compute loops as instances of `MatmulExec`, and the integer
   contexts as instances of `Prepacked`, with slots in flight.
3. The lazy settings other than the spin budget, with the setters that race.
4. Sequences of calls on one context in `OpMachine`, for the state a failed
   call leaves to the next.

Proofs, in order: the loop invariants of `ChainLayout` (the links of a packed batch
lead through every program) and of `GraphLink`;
lemmas about single operators of the planners.
