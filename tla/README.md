# A verification of DeepSeek-V4.1-Flash-Accel in TLA+

This directory models the parts of DeepSeek-V4.1-Flash-Accel whose correctness
depends on order, failure or state kept between calls, checks the models with
TLC on small instances and proves the main results with TLAPS for every value
of the constants. The repository is a set of runtime patches and tools around
stock vLLM and FlashInfer: a plugin loaded into every vLLM worker, two scripts
that edit the installed packages, a launcher with its checks, a downloader and
measurement clients. vLLM, FlashInfer, PyTorch and CUDA are outside it; they
are modelled only as far as the repository's code relies on them, and every
such definition is marked external in `PROJECT.json`.

## 1. Inventory

For each component: the state it keeps, its operations, whom it meets, what is
hard about it, and what makes it correct.

**Weight offloader hook** (`vllm_dsv41_opt/__init__.py`). State: vLLM's
`cpu_offload_bytes`, a mark on each moved parameter, the storage each
parameter points at. `register()` reads the environment, may refuse it, and
replaces `UVAOffloader._maybe_offload_to_cpu`; vLLM then calls that once per
module in model order. It calls the pinned allocator, and vLLM's own method
where UVA is off. Hard: parameters shared between modules, a budget that is
tested before each parameter and overshot by the last one, a layer filter that
must not apply to towers, an allocation failing in the middle, two
implementations mixed in one process. Correct: the counter is the bytes moved,
each parameter moves once, the right ones move, the overshoot is less than one
parameter, and no module is left unable to read its weights.

**Exact pinned allocator** (`pinned.py`). State: open mappings, CUDA
registrations, finalizers, `_live_bytes`, `_peak_bytes`, `_failed_releases`.
`empty_pinned` maps, registers, arms a finalizer, counts and returns a tensor;
`_release` is the finalizer. Hard: finalizers run on any thread between any two
of those steps; register and unregister can fail; views and queued kernels
outlive the tensor. Correct: nothing reachable is unmapped, nothing CUDA has
registered is ever unmapped, the ledger is the truth when nothing is in flight.

**Marlin weight staging** (`staging.py`). State: two log flags and a local
temporary. The wrapper copies one offloaded matrix to the GPU and calls the
GEMM on the copy, which it drops before the GPU has run anything. Hard: the
allocator reuses the temporary at once, other streams and graph capture, the
copy running out of memory. Correct: every GEMM reads its own weight's present
bytes, graphs contain no copies, temporaries do not accumulate.

**Routing profile** (`routing_profile.py`). State: per-layer GPU counters, a
generation number, the snapshot file. Hard: counters are created lazily and
must not be created in graph capture; a snapshot resets the counters before its
file is written. Correct: no step is counted twice or lost silently.

**Patch scripts** (`upstream/{vllm,flashinfer}/apply_patch.py`). State: the
files of the installed package and a `.orig` beside each. Operations: apply,
`--revert`, `--check`. Hard: killed between or inside writes, run twice, run on
a reinstalled package with a stale backup, edits whose two texts overlap.
Correct: exit status 0 can be trusted, a second run changes nothing, a killed
run costs no file.

**Runtime edits the scripts carry** (`upstream/vllm/apply_patch.py`): block
size negotiation with a filter on states per block, the token width of a block,
the width of prefill index rows, and the null block: dummy forwards write into
block 0, the runner scrubs it after capture (VL-013) and the kernels gather a
real row instead of it (FI-004). Correct: the negotiated size is the largest
admissible one, the width is one the kernel instantiates, no request reads a
non-finite null block.

**Preflight** (`deploy/preflight.py`). No state: some thirty facts about the
machine, the checkpoint, the installed stack and the launch's own flags become
findings, and those an exit status. Hard: early returns, checks that depend on
what another one read, facts that hide others, and findings that are stale by
the time of the launch. Correct: what it refuses stays refused when one more
thing is wrong, and what it passes comes up.

**Launcher and supervision** (`deploy/serve.sh`, `deploy/systemd/`). The gate
on preflight's exit status, the environment, `exec vllm serve`. Hard: the stack
may change between the gate and the imports. Correct: a server runs what the
gate looked at.

**Environment setup** (`scripts/env/setup.sh`). Installs, patches and drops the
cached build. Hard: it can stop half way, and it passes over a failed
FlashInfer patch, a failed removal and every status of preflight but 1. Correct:
a setup that ends well leaves a stack that is patched as far as its own checks
reached, and no stale build where it could remove one.

**Memory planner** (`tools/plan_memory.py`). Pure arithmetic from headers and
`config.json` to an offload budget, the host memory that budget pins, and a
verdict. Hard: it walks layers where the offloader walks modules, rounds each
buffer, and counts the backend's padding on the GPU's side but not on the
host's. Correct: it foresees what a load pins, and a plan that fits is one whose
load fits, up to that padding.

**Endpoint checks** (`deploy/healthcheck.sh`, `deploy/verify.py`). Used as one
gate. Hard: a server that computes NaN still answers every request. Correct: it
does not pass the gate.

**Model download and verification** (`scripts/download/`). State: the model
directory. Hard: interrupted transfers. Correct: a resumed download that
reports success is complete.

**NUMA bandwidth probe** (`scripts/bench/numa_bandwidth.py`). `main()`, one
worker process per GPU in each of two placements, and the files they signal
with. Hard: workers fail, hang in the driver or are late, `main()` may be
killed. Correct: all GPUs of a placement measure together and next to nobody
else, the report is complete, and no process is left waiting.

**Benchmark clients, fault scanner, sparse-MLA reference,
quantisation and tiny-model tools, release checks**: sequential clients, text
processing and floating-point numerics (section 6).

## 2. Modules

| module | models | builds on |
|---|---|---|
| `OffloadBudget` | the abstract promise of the offloader: parameters are placed one at a time, each once, none after the budget is reached | |
| `Offload` | `register()` and the hook, module by module and parameter by parameter | refines `OffloadBudget` |
| `Planner` | the arithmetic of `plan_memory.py`, from tensors to the verdict | |
| `Preflight` | every check of `preflight.py` that can warn or fail, its exit status, the arguments `serve.sh` passes on | |
| `HostMemory` | what a load pins and leaves on the GPU, held against plan and preflight | composes `Offload`, `Planner` and `Preflight` |
| `Offload_proofs` | theorems about `Offload` and `HostMemory` | `HostMemory`, `SumTheorems` |
| `PinnedMemory` | `empty_pinned` and `_release`, statement by statement | |
| `MarlinStaging` | the wrapped GEMM over streams, graphs and the caching allocator | |
| `PluginMemory_proofs` | theorems about `PinnedMemory` and `MarlinStaging` | both, `SumTheorems` |
| `PatchTool` | `main()` of both patch scripts | |
| `PatchTool_proofs` | theorems about `PatchTool` | `PatchTool` |
| `BlockNegotiation` | the patched block size negotiation, backend by backend | |
| `KernelShapes` | from V4.1's launch options to the kernel shapes that are called | composes `Preflight`, `BlockNegotiation` and the prefill width |
| `BlockNegotiation_proofs` | theorems about `BlockNegotiation` and `KernelShapes` | `KernelShapes` |
| `NullBlock` | capture, scrub and masked gathers | |
| `Probes` | `healthcheck.sh` and `verify.py` run as a gate against that server | extends `NullBlock` |
| `NullBlock_proofs` | theorems about `NullBlock` and `Probes` | `Probes` |
| `RoutingProfile` | the counters, the snapshot RPC and its file | |
| `RoutingProfile_proofs` | theorems about `RoutingProfile` | `RoutingProfile`, `SumTheorems` |
| `Deployment` | `setup.sh`, preflight's view of the patches, the launch gate, the JIT build | uses what `PatchTool` shows of the exit status |
| `Download` | both scripts of `scripts/download/`, over files aria2c and another client write | |
| `NumaProbe` | the bandwidth probe's `main()` and its workers | |
| `HostScripts_proofs` | theorems about `Deployment`, `Download` and `NumaProbe` | the three |
| `SumTheorems` | lemmas about sums over finite sets, greatest elements, naturals and powers of two | |

Each `MC` module only gives its constants their values. Where two components
meet in one module of proofs, each has names of its own: `StagingInit` and
`StagingSpec` in `MarlinStaging`, `DownloadInit` and so on, `NumaInit` and so on.

### Offload

`conf` is one process's environment; `stage` is the position of the loader's
single thread. `Register` and `RefuseSettings` are the two ways out of
`register()`. One call of the hook is `SkipModule` (an early return) or
`EnterModule`, then `SkipParam` or a move per parameter, then `LeaveModule`. A
single-copy move is three steps, `AllocateHost`, `CopyToHost` and
`PublishView`, since the allocation may fail and the order of the copy and the
publication is what makes a view readable. `StockOffloadParam` is vLLM's own
method (external): the model gives it the same visits and the same budget, and
the `functional_call` wrapper it installs when UVA is off. A parameter's data
is `"cuda"`, `"cpu"` or `"uva"`; a `"uva"` parameter looks like a GPU one to the
code, which is why the mark exists. Layer names and prefixes are abstracted to
`LayerOf` and a set of selected parameters.

### Planner, Preflight and HostMemory

`Planner` and `Preflight` have no variables: their programs compute once. A
request `r` is the planner's command line. `RankWeights` is what one rank must
hold (`per_rank_dense`, `expert_bytes_per_rank`), `OffloadNeeded` what of it is
too much, `PlannedBytes` what `pinned_offload_bytes` returns: its loop over the
layers (`WalkedBytes`; `PlanLayer`, w13 before w2), which stops at the budget
and rounds each buffer, or the budget where `config.json` lacks a key
(`known`), `EngramPinned` the pinned table shards, `HostNeeded` their sum over
the ranks and `Fits` the exit status. Sizes are bytes where the tool prints
GiB. `MaxPower` bounds them: PyTorch's rounding (`Pow2`) looks among the powers
of two up to 2^`MaxPower`.

`Preflight` takes a machine `m`, the set of what is wrong with it (`Fault`, one
member for each thing a check reads) and its available memory, and the
arguments `a`. Each check is the set of levels it records, so an early return
is a case that records nothing further; `Status` is the exit status, with the
traceback a `config.json` that is no JSON ends in, the usage error and the
missing interpreter.

`HostMemory` puts both next to `Offload`. `Pinned` is what the process really
pins for the parameters it moved, through `WeightTorchProxy` (`IsEligible`) or
PyTorch's allocator. `Experts` says where each decoder layer's w13 and w2 are:
modules in layer order, w13 before w2, no matrix shared (`ExpertsAssumption`).
`MovesExperts` is a load whose selected parameters are exactly these matrices,
none of them built on the CPU, and `IsPlan` relates a request to one with its
budget and layers. The sizes of the matrices are those that vLLM's MoE method
(external) gives them: a rank's part, padded up to the backend's tile
(`LoadedW2Bytes`), as `plan_memory.py:13` and its table `MOE_TILE` describe it.
The planner's host side walks them without the padding (`W2Bytes`). Where the
two differ (`IsPadded`), `PinnedUnpadded` is what the moved matrices would pin
without it. `PlannerAgrees` compares the pinned bytes, `VerdictHolds` the
verdict, `AllowanceMissesOneBuffer` preflight's estimate, with a load that has
ended.

### PinnedMemory

The loading thread walks `MapPages`, `RegisterPages` or `RegisterFails`,
`ArmFinalizer`, `CountLive`, `RaisePeak`, `ReturnTensor`. `Collect` starts a
buffer's `_release`, at any point of the walk; `Unregister` or
`UnregisterFails`, `CloseMapping`, `DiscountLive` are its statements, and
releases of several buffers interleave. `holders` is who keeps the buffer: the
function's frame, the tensor, the CUDA view. `Drop` carries the docstring's
contract, that the last alias is let go only when the GPU is done. A module
counter is read and written within one statement under the interpreter lock, so
a statement is a step; sizes are in pages. `live` is an integer and not a
natural number in the type invariant: that it is the sum of what is mapped, and
so never below zero, is `LedgerMatchesMappings`.

### MarlinStaging

`queue[s]` is what stream `s` still has to run; the host only appends to it.
`DirectCall`, `CloneReusing`, `CloneFresh` and `CloneFails` are the outcomes of
a call up to the clone, `StagedGemm` the GEMM on the clone and the return that
drops it. The allocator hands a dropped block back to the same stream at once.
`BeginCapture`, `EndCapture`, `Replay` are CUDA graphs; `RewriteWeights` is a
reload of the weights' storage behind the same pointers.

### PatchTool

A file's text is, per edit site, how often the old and the new text occur in
it, and whether its end is missing. `Applies` differs between the scripts
(`oldFirst`): vLLM's looks for the new text first, FlashInfer's for the old
one. A *cut* edit's new text is the beginning of its old text and occurs
wherever that does. Writing a file is two steps, the truncation (`OpenBackup`,
`OpenFile`) and the contents (`FillBackup`, `FillFile`), with `Crash` possible
between any two; in a write it leaves a beginning of the text (`CutShort`),
which may still have all the edits' texts, and later runs edit what is left.
`Upgrade` is a reinstalled package: as shipped, with a reworded anchor, or
without a file; `.orig` files stay.

### BlockNegotiation and KernelShapes

A backend is a record of the sizes it names and how it treats states per
block; a group of layers is a set of backends with a manager size and a number
of tokens per state. `InGroup` walks the groups as
`prepare_kernel_block_sizes` does; within one, `KeepManagerSize` and
`TryListedSizes` are the two halves of `select_common_block_size`, `SkipSize`,
`TakeSize` and `NoCommonSize` its loop, one candidate per step, largest first.
`IsFiltered` and `IndexerStates` are the DeepGEMM filter the patch adds.

`KernelShapes` fixes the backends to what the patched attention code declares
(`Indexer`, `SparseMla`, `SlidingWindow`; `PageSizes` is smaller on a stack
without the edits that have no marker) and starts from the launch options and
what is wrong with the machine. `Lint` is all of `Preflight` behind
`serve.sh`'s gate, `SkipLint` is `SKIP_PREFLIGHT=1`, `StartServer` comes up or
dies of a `Stopper`, and the negotiation and `prefill_index_width`
(`BeginWidth` to `KeepWidth`) lead to an engine that is `Settled`. `Blindfold`
names the faults that take away what a check reads. `SingleDispatches`,
`DualDispatches` and `DecodeDispatches` are the kernel tables FlashInfer's
patch leaves.

### NullBlock

`null` is the null block, cell by cell; hybrid cache groups overlay one
buffer, so `Block0` of two views may share cells. `capture_model()` is called
twice (`profileOnly`): `DummyForward` queues a forward, `RunDummy` is its write
into some writer's block 0, `Synchronize` the runner's wait, `ZeroBlock` and
`RunZero` the two ends of an asynchronous `zero_()`, `CaptureReturns` the
return. `Query` gives every index row of a request a number of valid entries
and reads NaN if a gathered null row is NaN. `conf` says which of the two
patches the stack has. Whether a replayed graph with a padded batch also writes
through the zero block tables is not decidable from this repository:
`paddedWrites` leaves it open, and what the scrub alone achieves is stated for
the case that it does not.

### Probes

`Script` is the order in which the two programs ask: health, models, `*42*`,
six continuations, the passage, the chat. Each question but the first is a
request of the model's server, sent (`Send`), decoded (`Decode`) and answered,
with other requests beside it (`OtherStep`). A finite answer may be right or
wrong; one made from NaN is wrong, since it decodes to nothing or is refused by
the JSON encoder. `Sane` is the verdict of `verify.py`.

### RoutingProfile

The host is one thread: `rpc` is where the snapshot stands, and `apply()` runs
only when it is idle. `launched` is what the GPU has not counted yet.
`ApplyUncounted`, `ApplyCounted` and `ApplyCaptured` are `apply()` for a batch
of another shape, an eager batch of six tokens and one in capture;
`Synchronize`, `ReadLayer`, `WriteTemporary`, `Replace` are
`snapshot_and_reset()`, `SnapshotFails` an exception once the counters are
reset. `Counted` is the Triton kernel over padded lanes; `Summary` is what a
sequence of selections should have added up to, expert by expert (`Total`).
`issued`, `frozen` and `profiled` are history variables the properties compare
with.

### Deployment

An edit of vLLM's is in the package or not. At the site of one of FlashInfer's
stands the text as shipped, the new one, one lost in a file cut short, or the
file is missing (`Sources`); FlashInfer may not be importable at all. What
preflight looks for are sets of edits: `Marked`, whose new text it asks for in
vLLM; `Refused`, whose stock text it refuses; `Required`, asked for where the
file is there; `Wide`, asked for only where images are served. `Blocks` is its
exit status 1 from that: a FlashInfer that cannot be imported, or lacks a file,
is only warned of or passed over with `--text-only`.

`setup` is the next step of `setup.sh`: the scripts may apply any subset of
their edits or be killed, FlashInfer's failure is passed over, vLLM's ends setup
(`PatchTool` shows that after exit status 0 no edit's new text is missing).
`DropBuild` may fail unnoticed, as `rm ... || true` does, and `SetupPreflight`
ends setup well with every status but 1, also that of a preflight that was
killed; `reached` records whether the removal succeeded and whether preflight
came to a verdict, which the code itself does not know. `Interrupted` stops
setup anywhere, `Upgrade` is a package replaced by hand. Launches are
independent of it: `CheckAndLaunch` is the gate, `SkipPreflight` a launch
without one, then the loader takes the prebuilt module, the cached build or
compiles, and a compilation (`Compile`, `Compiled`) takes time in which setup
goes on. `SetupWorkspace` and `LaunchWorkspace` are the directories the two
scripts fall back on. A restart by systemd is `Exit` and a new launch.

### Download

A file is one of six contents; `"sparse"` has its full length and a gap, which
a transfer in several segments can leave, and `"mixed"` has segments of two
uploads. `step` is where `download_model.sh` is; its loops take files in any
order. `FetchSmall` and `FetchShard` call `fetch`, whose `until` loop is
`TransferFails` and `Retry`. aria2c (external) writes in `WriteSegments` and
`TransferEnds` and keeps its control file in between, which is all the script
relies on. `Interrupt` may come anywhere. `RenameRefused` is an `mv -n` that
reports the file it did not overwrite as a failure, as some releases do, under
`set -e`. `Verify` is one run of `verify_shards.py`, at any moment.

### NumaProbe

`main` and `next` are the position of `main()`: `Spawn` per GPU, the wait for
the ready files (`Release`, `NotReady`), the wait for each process
(`WaitSucceeds`, `WaitFails`), `ReadRows`, and the `finally` clause
(`Terminate`, `Reap`) that an exception (`Raise`) goes through as well. A
worker writes its ready file, sees the go file or misses it, measures, writes
its row and exits (`WorkerExits`); `Fail` and `Hang` are its troubles, `Die`
its death by a signal, which a hung driver call survives unless it is SIGKILL.
`ready`, `go`, `rows` and `report` are the files. A deadline is a step that may
come at any time while a process waits.

## 3. Runs

| run | shows | bounds |
|---|---|---|
| `MCOffload` | the final placement is the greedy prefix, what is charged is what was moved, modules can read their weights, loads end, the abstract budget is implemented; the planner foresees the pinned bytes and its verdict is kept; preflight's allowance falls short by less than one buffer per rank | 5 modules, one empty, 6 parameters of 8 to 96 bytes, the embedding shared with the head; budgets at and beside the sums a walk goes through; every combination of flags; plans with and without expert parallelism, with matrices that are padded to twice their size, and of a `config.json` without dimensions; Engram on the GPU, an unreadable shard, four GPU and four host sizes |
| `MCPinnedMemory` | memory safety, the ledger, the peak, failed releases, eventual release | 3 buffers of 1, 2 and 4 pages, each allocated again and again |
| `MCMarlinStaging` | staged operands, graphs, temporaries | 2 interchangeable streams, 2 matrices of size 1 and 2, memory for 3; queues of 3 operations, a graph of 1, one rewrite |
| `MCKernelShapes` | the size chosen is the largest admissible, an error is true, DeepGEMM never asserts; no fault hides another from preflight; a launch it passed comes up and calls kernels that exist | every combination of V4.1's options, with and without `--v41`, on a sound machine (`Flags`), every pair of faults under the presets' options (`Faulty`); groups of one or two of six backends beside a sliding-window group, 5 manager sizes, 4 numbers of tokens per state |
| `MCNullBlock` | either patch keeps outputs finite, the scrub is complete, a server that reads NaN fails the gate | 3 overlaid views over 4 cells; 2 requests, one of them the gate's, tiles of 2, rows of 0 to 4, 2 dummy forwards queued |
| `MCRoutingProfile` | every snapshot file is the profile of its own generation | 2 interchangeable layers, 2 GPUs of 3 experts padded to 4 lanes, 2 steps per generation, 2 generations, 1 restart |
| `MCDeployment` | a setup that ends well leaves vLLM patched, and FlashInfer as far as preflight judged it; servers on it run the sources on disk where the stale build was removed | 2 vLLM edits, with and without marker, 2 FlashInfer edits, one refused as shipped and one asked for; unbounded runs |
| `MCDeployment_workspace` | **violation**: setup drops a build the launcher does not use | the same, the workspace variable unset |
| `MCNumaProbe` | workers measure together and next to nobody, the report is complete, nobody is left behind | 3 GPUs in both placements, any failures |
| `MCDownload` | what the script calls present and what verification accepts is complete, and later runs leave it alone | 2 small files, 2 shards with diverging mirrors, one with a listed hash; unbounded runs |
| `MCPatchTool` | exit status, idempotence and crashes of both scripts, FlashInfer's without `--revert` | 2 files, 2 or 3 sites, 4 invocations, 2 crashes, 1 reinstallation |
| `MCPatchTool_revert` | **violation**: FlashInfer's `--revert` is not idempotent | the same, 2 invocations |

Why these bounds are enough. In `Offload` a property can depend on one tied
pair, one parameter before and one after the budget is reached, one filtered
and one unfiltered layer and one module outside the decoder: all occur together,
and every budget value is tried, including exact hits. In `PinnedMemory` an
allocation can meet the release of its own slot's previous buffer and of two
others at different statements. In `MarlinStaging` one block must be reused
while a reader is queued, on the same and on another stream, and memory must
run out: two streams, two matrices and three units are the least that do so,
and three queued operations hold a copy, its GEMM and the next copy. In
`PatchTool` files and sites are independent but for the loop, so two files and
two sites show every relative position; two crashes are needed to break a
backup and then a file. `MaxQueue`, `MaxGraph`, `MaxVersion`, `MaxRuns`,
`MaxCrashes` and `MaxUpgrades` are bounds in guards.

In `MCKernelShapes` groups of two backends are enough, since a size is
admissible for a group if it is for each member. In `MCNullBlock` the ring
overlies two caches, one of which has a cell of its own while the other is only
read; the rows cover no, full and partial tiles, and two queued forwards can
straddle the wait (`MaxDummy` is the bound in a guard). In `MCRoutingProfile` a
lane past the experts of one GPU names an expert of the next, as 48 of 64 do in
the code; two steps suffice to lose one, and two generations and a restart to
mix them (`MaxSteps`, `MaxGeneration` and the server's `MaxRuns` are the bounds
in guards). `Deployment` is finite by itself: an edit of vLLM's has a marker or
none, one of FlashInfer's is refused as shipped or asked for, and there is one
of each (the second stands for FI-003, too, with images). In `Download` files
meet only in the script's loops, so one file beside the index and two shards,
one with and one without a listed hash, show every combination; it is finite by
itself. In `MCOffload` one size is below and one above the least exact
allocation, and no power of two, so that each rounding differs from the others;
a padded matrix falls on the other side of that size than the same without
padding; `MaxPower` is 30, far above every size there. Two faults at a time are
what one early return or one chained condition of preflight needs to hide a
finding. In `NullBlock` a tile has more than one entry, so that a prompt's
first token leaves a partial one. `NumaProbe` is finite by itself; with three
GPUs one can be ready, one have failed and one hang.

Two properties of `Offload` stop short of tied parameters where UVA is
disabled. There vLLM's own method moves a shared parameter when it wraps the
first module and leaves the second unwrapped, and a module led by such a
parameter is passed over. That is vLLM's behaviour, not the plugin's, and the
model's version of it is only as good as what the plugin relies on, so it is
not reported as a finding: `ReturnedModulesReadable` is about modules that
share no parameter (`Untied`), `PlacementIsGreedyPrefix` about UVA.

The type invariants are theorems (section 5) and not in a run.

Deadlock is checked except in `PatchTool`, a script run by hand a bounded
number of times, and in `RoutingProfile`, whose last generation may be used up.

Weaknesses the models show that have no run of their own:

- `download_model.sh:34` skips a small file that is not empty, so one that was
  interrupted is never resumed: a partial index ends every later run at line 44
  (`IndexUnreadable`), and any other partial small file ends in "all shards
  present", with only its control file to tell. The header's "partial ones
  resume" is about shards, for which `EndedMeansPresent` holds.
  `verify_shards.py --sha256` in turn accepts a shard whose hash ModelScope does
  not list (NO-REF), so `VerifiedStaysGood` claims one upload for listed shards
  only.
- Preflight looks for no marker in `indexer.py`, `sparse_mla.py` and
  `flashinfer_sparse.py` (`vllmHalfPatched`). It passes a stack that lacks the
  edits of these three, which then finds no common block size, although
  `upstream/README.md:47` says that "a partly applied stack is reported as
  such". `PassedComesUp` names the fault as an exception. It leaves out launches
  that are not declared V4.1's as well, for which preflight skips its V4.1 checks.
- Preflight opens the first and the last four shards; one cut short in between
  is passed (`innerShardCut`). A second `nvidia-smi` query that fails reads as
  idle GPUs (`noUsedQuery`).
- `serve.sh` stops on exit status 1 only. A usage error (2), for instance an
  `ENGRAM_GIB` that is no number, reads as a warning, and an interpreter that
  does not exist (127) launches unchecked (`usageError`, `noPython`).
- Both patch scripts take a file as they find it. One whose write was killed
  or ended by a full disk behind its last edit site has every new text, so the
  next run reports it as already patched with exit status 0
  (`upstream/vllm/apply_patch.py:493`); the whole text is in `.orig`
  (`OneCrashIsRecoverable`). `ZeroExitMeansDone` is about the edits, and about
  whole files only where no run was killed.
- The 10 % that `preflight.py:117` keeps for the last parameter is a share of
  the budget and not of a parameter: `AllowanceMissesOneBuffer` gives the
  bound that does hold.
- The planner's "fits" ignores a need that exceeds the expert weights, and the
  host when nothing must be offloaded; `VerdictHolds` leaves both out.
- `plan_memory.py:142` sizes the pinned buffers without the padding that line
  110 adds on the GPU's side. Its docstring calls the result the "Host bytes a
  per-rank offload budget actually consumes"; under tensor parallelism that
  does not fill the backend's tile it is too small, and a load under a plan that
  "fits" can pin more than the host has. `PlannerAgrees` and `VerdictHolds` say
  how much too small at most: the padding of the matrices that were moved.
- `setup.sh:44` swallows a removal that fails, so that a stale build of another
  user's survives a setup that ends well, and `setup.sh:70` ends well unless
  preflight's status is 1: a preflight that was killed, or a FlashInfer that
  cannot be imported (a warning with `--text-only`), leaves FlashInfer's edits
  unchecked. `SetupOkMeansPatched` and `ServesPatchedSources` name these cases.
- `serve.sh:79` checks the sources and the server reads them minutes later. A
  package upgraded by hand in between goes unnoticed; `ServesPatchedSources` is
  about servers whose last setup ended well and saw the package.
- `verify.py` prints SANE with a perplexity of `None` although its docstring
  says it "fails loudly on non-finite logits", and it does not judge the chat
  reply. What `GatePassesNoNaN` relies on are the other probes.

**Findings.**

1. `MCPatchTool_revert`: FlashInfer's script looks for the old text first.
   Reverted, the cut edit at `upstream/flashinfer/apply_patch.py:50` finds its
   search text in a stock file too, so each `--revert` of a file that is
   already as shipped inserts the `pbs` constant once more, against
   `upstream/README.md:46`, "Both scripts are idempotent".
2. `MCDeployment_workspace`: `scripts/env/setup.sh:44` removes the cached build
   under `$HOME` unless `FLASHINFER_WORKSPACE_BASE` is set, while
   `deploy/serve.sh:52` sets the variable to `/data/cache/flashinfer` itself.
   The launcher's old build survives setup, against `setup.sh:42`, "drop any
   cached build so the next launch compiles the edited kernels". Ninja may
   still notice the edited sources (`upstream/README.md:83`); the property only
   says what setup leaves behind.

## 4. Fairness

`Offload`: weak fairness of the whole step relation. The loader is one thread of
straight-line code and ends only by returning or raising. `LoadEnds` needs no
more. `PinnedMemory`: weak fairness of each buffer's `Collect` and `Release`
while the interpreter is alive, since CPython runs a finalizer when the last
reference goes and `_release` has no loop and no wait. No fairness is assumed
of the program that holds the buffers. `NumaProbe`: weak fairness of `main()`'s
steps, of each worker's steps and of the arrival of a signal. The operating
system runs the processes, and every wait in the code has a deadline, so a
waiting process takes one of its steps in the end; which one, the fairness does
not say. A driver call that hangs is not assumed to return, workers are not
assumed to fail, and `main()` is not assumed to be killed: `NobodyIsLeft` holds
whether or not they are. All the other modules state safety only and assume
none.

## 5. What is proved

`Offload_proofs`, from the assumptions on the constants in `Offload` (positive
sizes, modules as sequences of parameters, settings of the stated type):
`TypeCorrect`, `BudgetOvershoot`, `MovedIsCharged`, `Implementation` and
`ForwardReadsWeights`. None of these is inductive alone. The invariant `IInv`
adds that the module being wrapped was not filtered or skipped (`ModuleOpen`),
that a move in progress concerns a parameter still on the GPU under a budget
not yet reached (`MoveInProgress`), and that every moved parameter is
recognised as such when it is met again (`MovedIsRecognised`), which is what
makes a move final and the refinement's "each once" hold. For `MovedIsCharged`,
`Placed` says wherever the load stands which storage a parameter has, and that
only the current one's buffer may be filled without being published, and
`Charged` that the counter is the sum over the set of moved parameters: a shared
one that was moved again would be added without the set growing. `RInv` adds, for
readability, where each unwrapped weight can be: every moved parameter of a
finished module is filled, plain CPU storage appears only on stock's path with
UVA off and its module, if it shares nothing, is then wrapped, and the module
under way owes a wrapper exactly when `did` is set.

`GreedyPlacement`, in the same module, is the exact final placement. The
property speaks of loads that are done; the invariant `Placing` says the same of
every position of the walk (`Greedy`): the counter is the sum of the sizes
moved, only what was offered before the position and may move has moved, all of
that while the budget lasts, and a parameter stays behind only if what was
offered before it had reached the budget already. `Standing` and `AtWork` say
where the walk is between two modules and within one. A shared parameter is
offered at two positions and counts once, which is why the sums are over sets.

Three theorems hold a load that is done against the two tools that foresee it.

- `Allowance`: without the last parameter moved, the placement had not reached
  the budget, so what is pinned without that one's buffer, and all the more
  without the largest, is within preflight's factor of the budget.
- `PlannerIsRight`: the planner's walk over layers and the loader's walk over
  modules keep in step (`InStep`). Without padding the two have spent the same,
  or both have reached the budget, and have pinned the same. With padding the
  planner has spent no more as long as the loader is below the budget, so it
  walks on at least as long and has counted every buffer the loader moves, in
  its size without padding (`PaddingAdds`). With a layer filter the planner
  stands as many layers in as the filter has left in (`Alike`), and what it
  pins never falls over the layers it still has to go (`LastIsGreatest`).
- `VerdictIsKept` combines that with the planner's arithmetic: either the
  budget was reached, and what is left on the GPU is within the usable bytes,
  or everything selected has moved. That half needs no sizes, so it holds for
  padded matrices and without the dimensions as well.

These three use the assumptions of `Planner` and `HostMemory` as well:
dimensions and table sizes that the ranks divide, the place of the expert
matrices, and no size beyond the last power of two that `Pow2` is defined for.

`PluginMemory_proofs`, for every set of buffers and sizes of `PinnedMemory`:
`TypeCorrect`, `MemorySafety`, `NeverUnmapRegistered`, `PeakIsSound`,
`FailedReleaseIsKept`, `LedgerIsTrue`. The inductive invariant says what each
point of `empty_pinned` and of `_release` may assume of its buffer: mapped,
registered, armed, unheld and unread, and not in two of these lives at once.
For the ledger, `Counted` names the buffers that `live` stands for at each of
these points: the mapped ones but for one that `empty_pinned` has not counted
yet, and those that `_release` has closed and not yet subtracted. Each step
that moves a buffer in or out of that set adds or subtracts its pages.

The same module proves for `MarlinStaging`, for any streams, matrices and
memory, `StagingTypeCorrect`, `StagedOperands`, `GraphsPinNothing` and
`TemporariesDiffer`. `StagedOperands` speaks of a GEMM at the head of its
queue. `QueuesFind` says it of every one in a queue: the last copy into its
block that runs before it is of its own weight, or there is none and the block
holds that weight's present bytes already. `FrameFinds` says it of the call
under way, whose GEMM is not queued yet, and `BusyIsFrame` that no other call
has the block: so the allocator may hand a block on while its reader waits,
since the next copy queues behind it on the same stream.

`RoutingProfile_proofs`, for any layers, GPUs, experts and lanes:
`ProfileTypeCorrect`, `SnapshotIsItsGeneration`, `CountersAreTrue`. While no
snapshot runs, the counters are the summary of what has been issued less what
is still launched (`Counting`); during one, every layer has been read, is still
to be read or never counted, and nothing is launched (`Snapshotting`). The
arithmetic is that the lanes of a GPU below its number of experts count each
expert once and padding never (`LanesCountExperts`).

`BlockNegotiation_proofs`, for any groups, backends and sizes under
`IndexerAssumption` (an indexer's backend lists its sizes one by one):
`TypeCorrect`, `ChoosesTheLargest`, `IndexerNeverAsserts`, `ErrorIsTrue`. The
invariant `Searching` says that the manager's size was refused before the loop
began and that every admissible listed size is still untried, so the first
size taken is the largest and an empty list means there is none.

The same module proves three theorems about launches, `KernelShapes`'
`LaunchSpec`, from `OptionsAssumption` (an engine that has options is V4.1's
for those options). TLC tries two faults at a time; these hold for any number:
`OneMoreFaultUnblocksNothing` goes through preflight check by check, with
`Looked` for what the state contributes. `PassedLaunchComesUp` combines
`Gated`, which keeps what preflight saw until the engine runs, with the
negotiation's own invariant, which `LaunchNegotiates` carries over: the sizes
exist (`V41SizeExists`), so the negotiation cannot fail. `PassedLaunchDispatches`
needs one more invariant, `Climbing`, of the width found so far on the ladder,
and `Window = 128`, which is the model's and not the code's.

`NullBlock_proofs`, for any views over any cells: `TypeCorrect`,
`OutputsFinite`, `ScrubIsComplete`. `ScrubUnderWay` says that during the scrub
no dummy forward is left and that a view already visited is zero or its
`zero_()` is queued, `ScrubDone` carries that to the serving stage, and
`EagerIsClean` covers servers without graphs. That a view's zeroing covers the
cells it shares with others is what makes the overlay harmless.

`GateStopsNaN` is about `GateSpec`,
any prompt, any other traffic and any tile of more than one entry
(`ProbeAssumption`): the row of a prompt's first token ends in a partial tile,
so every finite answer to the probe shows that the null block is clean in all
views (`Witnessed`), `Quiet` that it stays so once the runner serves, and
`Passing` that the gate does not pass without such an answer. It concerns
stacks on which no padded replay writes the null block, as the property says.

`HostScripts_proofs` has the theorems about the three scripts. For any files of
`Download`: `DownloadTypeCorrect`, `EndsWithEveryShard`, `FinishedIsSkipped`,
`VerifiedIsComplete`. `GapsMarked` says that a file with a gap has a control
file and only unfinished files have one, and that a small file is never renamed
into place; `Visited` says what each stage of the script has found or fetched,
and that a transfer under way concerns an unfinished file.

Of `Deployment`, for any edits of either package and any sets that preflight
looks for, with one workspace or two: `TypeCorrect`, `EndsPatched` and
`ServesEditedKernels`. `Progress` says what each step of setup has left for the
later ones; `Fresh` says that once the build was dropped where the launcher
looks, whatever a concurrent launch compiles or has compiled comes from the
edited sources.

Of `NumaProbe`, for any number of GPUs: `NumaTypeCorrect`, `MeasuredTogether`,
`ResultsAreComplete`. `Barrier` says that a placement is released only when all
its ready files exist and that nobody measures before; `Waited`, `Collected`
and `FirstIsComplete` carry what each wait of `main()` has established through
its loops to the report, on the path without an exception, which is the only
one that leads there.

`PatchTool_proofs`, for any files and any table of edits of either script and
any flags, reinstallations and number of crashes: `TypeCorrect`,
`OneCrashCostsNoFile`, `PatchedIsLeftAlone`. `OneCrashIsRecoverable` speaks of
a script that is not running and is far from inductive. `Reading` says what is
in memory while a file is worked on, `Backing` that a file is opened only
behind its backup, `Unharmed` that before the first crash only what is being
written is cut short, and `Recoverable` what the first crash may have left: a
backup cut short beside a whole file, or the reverse, but not both, whatever
later runs edit and write. `TextAssumption` says that the mark for no text is
not itself a text.

`StockIsLeftAlone` states when `--revert` is idempotent on a stock file:
no script that looks for the old text first has an edit that only cuts
(`CutsLookNewFirst`). FlashInfer's has one, which is finding 1.

`StatusIsTrue` is about tables in which every file has an edit and no order of
looking meets an edit it cannot cope with (`TrustedTables`). vLLM's script
looks for the new text first and has no pair twice and no edit that only cuts:
otherwise it would find the new text the second time, or always, and leave an
occurrence of the old one. FlashInfer's looks for the old text first and has
both, so the theorem is about its invocations without `--revert`, which inserts
a line once more than was cut (finding 1) while an apply takes out only one.
`Counted` says that a file has a site's texts no more often than the table
lists the site, after any history. `Progress` says that at every place of the
table the text looked for occurs no more often than the rest of the table lists
its site (`Left`), so that none is left at the end, and that each site gone
through has the other text. What a crash leaves of a text has every site at
most as often (`CutsCount`), so the theorem covers the runs over it; that such
a file is reported as done if only its end is missing is the weakness named in
section 3, and why `Done` says no more than that a run was killed.

`SumTheorems` is what the proofs about sums rest on. `MapThenSumSet` is a fold
with an operator parameter, and the library's induction theorems take a
predicate as one; the provers can instantiate neither. So lemmas speak of the
recursive function that the fold chooses (`SumOver`, `SumIsFold`), every
induction, over finite sets as over naturals, is a least counterexample of a
well-founded relation (`Minimal`, `Least`), and a recursive function is first
shown to exist and then read off its `CHOOSE` (`SumsExist`, `PowersExist`,
`PlanningsExist`).

Only model-checked: liveness (`LoadEnds`, `AbandonedIsReleased`,
`NobodyIsLeft`), which is out of the prover's reach. The two violation runs are
what the theorems about the same properties leave out: two workspaces, and
`--revert` with FlashInfer's cut edit.

## 6. Not modelled

External and modelled only as relied upon: vLLM's loader and stock offloader,
PyTorch's caching allocator, CUDA streams and graphs, FlashInfer's module
loader and JIT build, pip, aria2c. Assumed of callers: the pinned allocator's
contract on aliases. Not modelled at all: kernels, quantisation and reference
attention (floating point), kernel benchmarks and the rates of the NUMA probe
(measurements), the fault scanner and release checks (text patterns), presets
and documentation. Preflight's `check_numa` prints and neither warns nor fails.
`plan_memory.py` ends in a traceback on a header or a `config.json` it cannot
parse and with status 2 without an index: no verdict, and no model. systemd's
limit of three starts an hour is systemd's own; a restart is a launch at any
time. The benchmark clients talk to a server as any client does and keep no
state of the system; their thread pools only collect measurements.

## 7. Plan

The modules above were written in the order in which they carry the serving
path and the state that survives a crash. What could follow:

1. `WeightLifecycle`: `Offload` composed with `PinnedMemory`, so that a
   parameter's view and its buffer are one and a failed load gives its memory
   back.
2. The accounting of `gsm8k_compare.py` and `bench.py`: what a request that
   fails or is cut off counts as.
