----------------------------- MODULE HostMemory -----------------------------
(***************************************************************************)
(* Memory of one load, in three accounts: what the process leaves on the   *)
(* GPU and pins on the host (Offload, with vllm_dsv41_opt/pinned.py or     *)
(* PyTorch behind each buffer), what tools/plan_memory.py says it will     *)
(* (Planner), and what preflight lets it have (Preflight).                 *)
(*                                                                         *)
(* Planner and preflight see the checkpoint's dimensions and a number of   *)
(* GiB; the process walks vLLM's modules.                                  *)
(***************************************************************************)
EXTENDS Offload, Planner, Preflight

CONSTANTS
    Experts,        \* each decoder layer's module, and the places of its
                    \* w13_weight and w2_weight among the parameters
    Plans,          \* requests to the planner
    Available       \* host memory preflight may find available

W13(l) == ModuleParams[Experts[l].module][Experts[l].w13]

W2(l) == ModuleParams[Experts[l].module][Experts[l].w2]

\* Layers are modules of their own, in the order of the model, with w13_weight
\* before w2_weight and neither shared.
ASSUME ExpertsAssumption ==
    /\ Experts \in Seq([module : Modules, w13 : Nat \ {0}, w2 : Nat \ {0}])
    /\ \A l \in DOMAIN Experts :
          /\ Experts[l].w13 < Experts[l].w2
          /\ Experts[l].w2 <= Len(ModuleParams[Experts[l].module])
          /\ \A k \in DOMAIN Experts : k < l => Experts[k].module < Experts[l].module
          /\ \A x \in Position :
                /\ At(x) = W13(l) => x = <<Experts[l].module, Experts[l].w13>>
                /\ At(x) = W2(l) => x = <<Experts[l].module, Experts[l].w2>>

ASSUME HostAssumption ==
    /\ Plans \subseteq Request
    /\ Available \subseteq Nat
    /\ \A p \in Param : Size[p] <= Power[MaxPower]
    /\ MapThenSumSet(LAMBDA i : Tensor[i].bytes, DOMAIN Tensor) <= Power[MaxPower]

-----------------------------------------------------------------------------
(***************************************************************************)
(* The process                                                             *)
(***************************************************************************)
\* WeightTorchProxy._eligible: a pinned CPU allocation that is large enough.
IsEligible(p) == conf.exactPinned /\ Size[p] >= MinBytes

\* weight_torch.empty(..., pin_memory=True)
HostBytes(p) == IF IsEligible(p) THEN Paged(Size[p]) ELSE Pow2(Size[p])

Pinned == MapThenSumSet(HostBytes, offloaded)

\* The bytes of w2_weight per rank as vLLM's MoE method builds it: a rank's
\* part of an expert's matrix is padded up to the tile of the backend.
LoadedW2Bytes(r) ==
    (RankExperts(r.ep) * CeilTo(r.tile, RankInter(r.ep)) * Dims.hidden
       * PayloadQuarterBits(r)) \div 32

-----------------------------------------------------------------------------
(***************************************************************************)
(* Properties                                                              *)
(***************************************************************************)
\* The load the planner is about: it may move the expert matrices of the
\* layers, all built on the GPU, and nothing else.
MovesExperts ==
    /\ conf.singleCopy /\ conf.uva
    /\ conf.onCpu = {}
    /\ conf.selected = UNION { {W13(l), W2(l)} : l \in DOMAIN Experts }

\* r is a plan for this load: the budget and the layers are the load's, and
\* the matrices have the sizes the backend gives them (not those the planner
\* walks).
IsPlan(r) ==
    /\ r.exact = conf.exactPinned
    /\ Selected(r) = conf.budget
    /\ Dims.layers = Len(Experts)
    /\ r.known => \A l \in DOMAIN Experts :
          Size[W13(l)] = 2 * LoadedW2Bytes(r) /\ Size[W2(l)] = LoadedW2Bytes(r)

IsPadded(r) == LoadedW2Bytes(r) # W2Bytes(r)

\* What the moved matrices would pin without the padding.
UnpaddedHostBytes(r, p) ==
    RoundPinned(IF \E l \in DOMAIN Experts : p = W13(l)
                THEN 2 * W2Bytes(r) ELSE W2Bytes(r), r.exact)

PinnedUnpadded(r) == MapThenSumSet(LAMBDA p : UnpaddedHostBytes(r, p), offloaded)

\* "model exactly that sequence": a finished load of matrices without padding
\* has pinned what the planner said, buffer by buffer with its rounding, at
\* every budget.  Where the backend pads them (tensor parallelism whose part
\* of a matrix is no multiple of the tile) the two walks drift apart: the
\* planner leaves the padding out of every buffer.  It has then walked enough
\* buffers all the same, so that the padding of the moved matrices is all it
\* misses; and so, too, under a layer filter, which it is not told of.
PlannerAgrees ==
    stage = "done" /\ MovesExperts =>
        \A r \in Plans : IsPlan(r) /\ r.known =>
            /\ PinnedUnpadded(r) <= PlannedBytes(r)
            /\ conf.allowed = NoFilter /\ ~IsPadded(r) => Pinned = PlannedBytes(r)

\* The verdict is kept.  A load under a plan that meets the reserve leaves no
\* more on the GPU than the planner counts as usable, with or without padding.
\* Under one that fits, all ranks together pin no more than the host has; for
\* padded matrices, the padding of what was moved comes on top, which the tool
\* does not count.  Two cases are left out because the tool does not look at
\* them: more to offload than there are expert weights, and a host without any
\* need to offload.
VerdictHolds ==
    stage = "done" /\ MovesExperts /\ conf.allowed = NoFilter =>
        \A r \in Plans : IsPlan(r) /\ Fits(r) /\ MeetsReserve(r) =>
            /\ RankWeights(r) - bytes <= r.usable \/ offloaded = conf.selected
            /\ r.known /\ r.host > 0 /\ OffloadNeeded(r) > 0 =>
                 Ranks * (IF IsPadded(r) THEN PinnedUnpadded(r) ELSE Pinned)
                   + (IF r.engramOnGpu THEN 0 ELSE EngramPinned(r)) <= r.host

\* check_host_ram's allowance is a fraction of the budget, the overshoot is a
\* whole parameter: a load that it lets start may pin more than it was told
\* is available, by less than the largest buffer of each rank.  (Exact
\* allocation: of matrices of at least MIN_BYTES, whose pages round them by
\* less than the tenth.)
AllowanceMissesOneBuffer ==
    stage = "done" /\ conf.uva /\ offloaded # {}
      /\ (conf.exactPinned => \A p \in offloaded : 10 * HostBytes(p) <= 11 * Size[p]) =>
        \A engram \in {0, 200}, avail \in Available :
            ~HostRamFails(engram, conf.budget, Ranks, conf.exactPinned, avail) =>
                engram + Ranks * Pinned < avail + Ranks * Max({ HostBytes(p) : p \in offloaded })

=============================================================================
