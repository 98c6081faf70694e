---------------------------- MODULE KernelShapes ----------------------------
(***************************************************************************)
(* From deploy/serve.sh to the kernels a DeepSeek-V4.1 engine calls: the   *)
(* machine and the flags preflight lets through (Preflight), the cache     *)
(* groups the edited attention code asks for, their negotiated block sizes *)
(* (BlockNegotiation), the width of the prefill index rows, and the grids  *)
(* FlashInfer's sm_120 sparse-MLA kernels are instantiated on              *)
(* (upstream/{vllm,flashinfer}/apply_patch.py).                            *)
(***************************************************************************)
EXTENDS BlockNegotiation, Preflight

CONSTANTS
    Window,         \* sliding window of the model, in tokens
    IndexTopk       \* entries the decode indexer selects per layer

\* What a launch is configured with; an engine carries its own.
Options ==
    [ family : {90, 120}, fp4 : BOOLEAN,
      blockSize : Nat \ {0},                \* --block-size
      ratios : SUBSET {0, 1, 2},            \* compress_ratio of its layers
      imageTokens : Nat,                    \* vision_max_n_token, 0: no tower
      textOnly : BOOLEAN,                   \* --language-model-only
      imageLimit : {"zero", "some", "unknown"},
      runtimeDecode : BOOLEAN,              \* FI-001 applied
      wideDual : BOOLEAN,                   \* FI-003 applied
      broken : SUBSET Fault, avail : Nat,   \* what else is wrong, host GiB
      tp : Nat \ {0}, ep : BOOLEAN, offload : Nat, exact : BOOLEAN,
      staging : BOOLEAN, engramOffload : BOOLEAN, engram : Nat,
      eager : BOOLEAN, v41 : BOOLEAN ]      \* serve.sh's other settings

VARIABLES
    step,       \* where the launch is
    lint,       \* preflight's verdict
    rung,       \* position in _SM120_PREFILL_TOPKS
    width       \* prefill_index_width

shapeVars == <<step, lint, rung, width>>

allVars == <<vars, shapeVars>>

-----------------------------------------------------------------------------
(***************************************************************************)
(* Cache groups                                                            *)
(***************************************************************************)
\* states_per_block_to_tokens
TokensPerBlock(blockSize, ratio) ==
    IF ratio > 1 THEN blockSize * ratio ELSE blockSize

\* What the indexer and sparse MLA offer, with the edits and without.
PageSizes(o) ==
    IF "vllmHalfPatched" \notin o.broken THEN {64, 128}
    ELSE IF o.family = 90 THEN {64} ELSE {128}

Indexer(o) == [indexer |-> TRUE, ints |-> PageSizes(o), bases |-> {}]

SparseMla(o) == [indexer |-> FALSE, ints |-> PageSizes(o), bases |-> {}]

SlidingWindow == [indexer |-> FALSE, ints |-> {}, bases |-> {32}]

\* The sliding-window cache asks for 64-token pages.
SwaGroup == [manager |-> 64, tokensPerState |-> 1, fp4 |-> FALSE,
             backends |-> {SlidingWindow}]

CompressedGroup(o, ratio) ==
    [manager |-> TokensPerBlock(o.blockSize, ratio), tokensPerState |-> ratio,
     fp4 |-> o.fp4, backends |-> {Indexer(o), SparseMla(o)}]

\* Layers of different ratio have different block sizes and so fall into
\* groups of their own.  The sliding-window cache is the first group.
V41Engine(o) ==
    [ family |-> o.family, options |-> o,
      groups |-> <<SwaGroup>>
                 \o (IF 1 \in o.ratios THEN <<CompressedGroup(o, 1)>> ELSE <<>>)
                 \o (IF 2 \in o.ratios THEN <<CompressedGroup(o, 2)>> ELSE <<>>) ]

\* An engine of another model has no options here: preflight asks nothing of
\* it without --v41, and its prefill row is not the edits' concern.
HasOptions(e) == "options" \in DOMAIN e

ASSUME OptionsAssumption ==
    \A e \in Engine : HasOptions(e) =>
        e.options \in Options /\ e = V41Engine(e.options)

IsV41 == HasOptions(engine)

opt == engine.options

-----------------------------------------------------------------------------
(***************************************************************************)
(* Preflight and the start of the server                                   *)
(***************************************************************************)
Machine(o) ==
    [ avail |-> o.avail,
      broken |-> o.broken \union When(~o.runtimeDecode, "decodeStock")
                          \union When(~o.wideDual, "prefillNarrow") ]

LintPasses(o) == ~StopsLaunch(Status(Machine(o), LauncherArgs(o)))

Lint ==
    /\ step = "preflight"
    /\ lint' = IF LintPasses(opt) THEN "passed" ELSE "failed"
    /\ step' = IF LintPasses(opt) THEN "start" ELSE "refused"
    /\ UNCHANGED <<vars, rung, width>>

\* SKIP_PREFLIGHT=1
SkipLint ==
    /\ step = "preflight"
    /\ lint' = "skipped"
    /\ step' = "start"
    /\ UNCHANGED <<vars, rung, width>>

\* What a V4.1 server cannot come up with: the reason for each check.
Stopper ==
    { "noDriver", "fewGpus", "gpuBusy", "noNvcc", "noModelDir", "noConfig",
      "badConfig", "noShards", "shardMissing", "endShardCut", "innerShardCut",
      "noTorch", "noVllm", "noFlashinfer", "vllmUnpatched" }

\* vllm serve comes up to the point where it lays out its caches, or dies.
StartServer ==
    /\ step = "start"
    /\ step' = IF opt.broken \intersect Stopper = {} THEN "negotiate" ELSE "crashed"
    /\ UNCHANGED <<vars, lint, rung, width>>

-----------------------------------------------------------------------------
(***************************************************************************)
(* The prefill index width                                                 *)
(***************************************************************************)
PrefillTopks == <<128, 192, 256, 512, 1024, 2048>>

\* Mutant: keyed on the checkpoint's vision tower.
TowerMeansImages(o) == o.imageTokens > 0

\* images_can_arrive: --language-model-only puts every limit at zero; an
\* unknown modality raises and counts as enabled.
ImagesCanArrive(o) == ~o.textOnly /\ o.imageLimit # "zero"

RowWidth(o) == Window + IF ImagesCanArrive(o) THEN o.imageTokens ELSE 0

BeginWidth ==
    /\ step = "negotiate"
    /\ stage = "ready"
    /\ IsV41
    /\ step' = "width"
    /\ rung' = 1
    /\ UNCHANGED <<vars, lint, width>>

OnLadder == step = "width" /\ opt.family = 120 /\ rung <= Len(PrefillTopks)

ClimbRung ==
    /\ OnLadder
    /\ PrefillTopks[rung] < RowWidth(opt)
    /\ rung' = rung + 1
    /\ UNCHANGED <<vars, step, lint, width>>

TakeRung ==
    /\ OnLadder
    /\ PrefillTopks[rung] >= RowWidth(opt)
    /\ width' = PrefillTopks[rung]
    /\ step' = "serving"
    /\ UNCHANGED <<vars, lint, rung>>

\* Another platform, or a row wider than every instantiated kernel.
KeepWidth ==
    /\ step = "width"
    /\ ~OnLadder
    /\ width' = RowWidth(opt)
    /\ step' = "serving"
    /\ UNCHANGED <<vars, lint, rung>>

-----------------------------------------------------------------------------
NegotiateGroups == step = "negotiate" /\ Negotiate /\ UNCHANGED shapeVars

Launch ==
    \/ Lint
    \/ SkipLint
    \/ StartServer
    \/ NegotiateGroups
    \/ BeginWidth
    \/ ClimbRung
    \/ TakeRung
    \/ KeepWidth

Settled ==
    /\ \/ step \in {"serving", "refused", "crashed"}
       \/ stage = "error"
       \/ stage = "ready" /\ ~IsV41
    /\ UNCHANGED allVars

LaunchInit ==
    /\ Init
    /\ step = IF IsV41 THEN "preflight" ELSE "negotiate"
    /\ lint = "none"
    /\ rung = 0
    /\ width = 0

LaunchNext == Launch \/ Settled

LaunchSpec == LaunchInit /\ [][LaunchNext]_allVars

-----------------------------------------------------------------------------
(***************************************************************************)
(* Properties                                                              *)
(***************************************************************************)

\* The prefill grids: single-cache for layers without a compressed cache,
\* dual-cache for the others, both at 64-token pages.
SingleDispatches(topk, page) ==
    page = 64 /\ \E i \in 1..Len(PrefillTopks) : topk = PrefillTopks[i]

DualDispatches(o, topk, page, extraPage) ==
    /\ page = 64
    /\ extraPage \in {2, 64}
    /\ topk = 128 \/ (topk = 2048 /\ o.wideDual)

\* The decode grid before FI-001, and any shape after it.
DecodeDispatches(o, topk, page) ==
    o.runtimeDecode \/ (page = 64 /\ topk \in {128, 192, 256, 512, 1024})

States(i) == sizes[i] \div engine.groups[i].tokensPerState

\* Faults that take away what a check reads, and so what it would refuse:
\* the program itself, an argument it can read, the memory query, the host's
\* or the checkpoint's account of itself, FlashInfer or its sources.
Blindfold ==
    { "noPython", "usageError", "noUsedQuery", "noMeminfo", "noIndex",
      "noFlashinfer", "noDecodeSource", "noGatherSource" }

\* "The launcher refuses to start if deploy/preflight.py finds a blocking
\* problem": no early return hides one.  Whatever else is wrong, one more
\* fault turns a refused launch into an accepted one only if it is one of
\* the few that preflight merely warns of or does not notice.
OnlyBlindfoldsUnblock ==
    step = "preflight" /\ ~LintPasses(opt) =>
        \A f \in Fault \ opt.broken :
            LintPasses([opt EXCEPT !.broken = @ \union {f}]) => f \in Blindfold

\* A launch that preflight has let through comes up, and its cache groups
\* find a block size.  The exceptions are a launch that does not say it is
\* V4.1's, a check that was blindfolded, a shard that is not among the eight
\* sampled ones, and edits of vLLM's without a marker.
PassedComesUp ==
    lint = "passed" /\ opt.v41 /\ (step = "crashed" \/ stage = "error") =>
        opt.broken \intersect
            (Blindfold \union {"innerShardCut", "vllmHalfPatched"}) # {}

\* What a server that passed preflight with its eyes open calls, its kernels
\* have: page sizes, states per page and index widths of every group, for
\* text-only and image serving, on the model with a 1024-token tower.
LintedKernelsDispatch ==
    step = "serving" /\ lint = "passed" /\ opt.v41 /\ opt.family = 120
      /\ opt.broken \intersect Blindfold = {} /\ opt.imageTokens \in {0, 1024} =>
        /\ 0 \in opt.ratios => SingleDispatches(width, sizes[1])
        /\ \A i \in 2..Len(sizes) :
             /\ DualDispatches(opt, width, sizes[1], States(i))
             /\ DecodeDispatches(opt, 2 * IndexTopk + Window, sizes[1])

=============================================================================
