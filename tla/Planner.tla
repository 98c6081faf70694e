------------------------------ MODULE Planner ------------------------------
(***************************************************************************)
(* tools/plan_memory.py: from the checkpoint's headers and config.json to  *)
(* the weights per rank, the offload budget they need, the host memory     *)
(* that budget pins, and the verdict.                                      *)
(*                                                                         *)
(* A request r holds the command line.  Memory is counted in bytes where   *)
(* the tool prints GiB, and --bits-per-weight in quarters of a bit.        *)
(***************************************************************************)
EXTENDS Integers, Sequences, FiniteSetsExt

CONSTANTS
    MinBytes,       \* pinned.MIN_BYTES, round_pinned's 64 MiB
    PageBytes,      \* mmap.PAGESIZE, round_pinned's 4096
    Ranks,          \* tp * pp
    Dims,           \* layers, experts, hidden and inter of config.json
    Shard,          \* files of the checkpoint
    Tensor,         \* the tensors of the headers: kind, bytes, shard
    BackendMargin,  \* BACKEND_MARGIN_GIB
    MaxPower        \* no buffer is larger than 2^MaxPower

\* classify: the groups that are treated apart.  "engram" are the tables'
\* weights and scales (.engram.embed.), "proj" the rest of Engram.
Kind == {"engram", "proj", "expert", "vision", "dense"}

Request ==
    [ ep : BOOLEAN, tile : Nat \ {0}, quarterBits : Nat \ {0},
      known : BOOLEAN,          \* config.json has the keys of Dims
      usable : Nat,             \* gpu-gib * gpu-util - reserve-gib
      host : Nat,               \* 0: unknown
      engramOnGpu : BOOLEAN, exact : BOOLEAN, vision : BOOLEAN, margin : BOOLEAN,
      offload : Nat \union {-1},    \* -1: --offload-gb not given
      missing : SUBSET Shard ]      \* shards whose header cannot be read

ASSUME PlannerAssumption ==
    /\ MinBytes \in Nat \ {0} /\ PageBytes \in Nat \ {0} /\ Ranks \in Nat \ {0}
    /\ Dims \in [{"layers", "experts", "hidden", "inter"} -> Nat \ {0}]
    /\ Dims.experts % Ranks = 0 /\ Dims.inter % Ranks = 0
    /\ BackendMargin \in Nat /\ MaxPower \in Nat
    /\ Tensor \in Seq([kind : Kind, bytes : Nat, shard : Shard])
    /\ \A i \in DOMAIN Tensor : Tensor[i].bytes % Ranks = 0

-----------------------------------------------------------------------------
(***************************************************************************)
(* Pinned allocations                                                      *)
(***************************************************************************)
\* 2^k
Power[k \in 0..MaxPower] == IF k = 0 THEN 1 ELSE 2 * Power[k - 1]

\* roundup_pow2, what PyTorch's caching host allocator takes.
Pow2(size) ==
    IF size = 0 THEN 0
    ELSE Min({ n \in { Power[k] : k \in 0..MaxPower } : n >= size })

CeilTo(unit, size) == ((size + unit - 1) \div unit) * unit

Paged(size) == CeilTo(PageBytes, size)

\* Mutant: exact allocation is taken to page every buffer.
AlwaysPaged(size, exact) == IF exact THEN Paged(size) ELSE Pow2(size)

\* round_pinned
RoundPinned(size, exact) ==
    IF exact /\ size >= MinBytes THEN Paged(size) ELSE Pow2(size)

-----------------------------------------------------------------------------
(***************************************************************************)
(* GPU side                                                                *)
(***************************************************************************)
\* What the readable shards hold of a kind.
Tensors(r, kind) ==
    { i \in DOMAIN Tensor : Tensor[i].kind = kind /\ Tensor[i].shard \notin r.missing }

KindBytes(r, kind) == MapThenSumSet(LAMBDA i : Tensor[i].bytes, Tensors(r, kind))

\* What --engram-config moves to the host: the tables, or all of Engram where
\* no table is found.
HostEngram(r) ==
    IF Tensors(r, "engram") # {} THEN KindBytes(r, "engram") ELSE KindBytes(r, "proj")

\* Expert parallelism splits the experts over the ranks, tensor parallelism
\* every matrix.
RankExperts(ep) == IF ep THEN Dims.experts \div Ranks ELSE Dims.experts

RankInter(ep) == IF ep THEN Dims.inter ELSE Dims.inter \div Ranks

\* expert_bytes_per_rank, padded to the tile of the MoE backend
TiledExpertBytes(r) ==
    (Dims.layers * RankExperts(r.ep) * 3 * CeilTo(r.tile, RankInter(r.ep))
       * Dims.hidden * r.quarterBits) \div 32

\* A config without those keys: what the checkpoint holds, divided.
PaddedExpertBytes(r) ==
    IF r.known THEN TiledExpertBytes(r) ELSE KindBytes(r, "expert") \div Ranks

\* per_rank_dense: the vision tower is replicated, all else is divided.
RankDense(r) ==
    (KindBytes(r, "dense") + KindBytes(r, "proj") + KindBytes(r, "engram")
       - IF r.engramOnGpu THEN 0 ELSE HostEngram(r)) \div Ranks
    + IF r.vision THEN KindBytes(r, "vision") ELSE 0

RankWeights(r) ==
    RankDense(r) + PaddedExpertBytes(r) + IF r.margin THEN BackendMargin ELSE 0

OffloadNeeded(r) ==
    IF RankWeights(r) > r.usable THEN RankWeights(r) - r.usable ELSE 0

Selected(r) == IF r.offload = -1 THEN OffloadNeeded(r) ELSE r.offload

MeetsReserve(r) == Selected(r) >= OffloadNeeded(r)

-----------------------------------------------------------------------------
(***************************************************************************)
(* Host side                                                               *)
(***************************************************************************)
\* The scales of MXFP4 and NVFP4 (4.25 and 4.5 bits in all) stay on the GPU.
PayloadQuarterBits(r) == IF r.quarterBits \in {17, 18} THEN 16 ELSE r.quarterBits

\* What the tool takes for the bytes of w2_weight per rank, and half those of
\* w13_weight.  The tile does not enter here.
W2Bytes(r) ==
    (RankExperts(r.ep) * RankInter(r.ep) * Dims.hidden * PayloadQuarterBits(r)) \div 32

\* One turn of the inner loop: break once the budget is spent.
Plan(r, so_far, size) ==
    IF so_far.spent >= Selected(r)
      THEN so_far
      ELSE [spent |-> so_far.spent + size,
            pinned |-> so_far.pinned + RoundPinned(size, r.exact)]

\* One turn of the outer loop: w13, then w2.
PlanLayer(r, so_far) == Plan(r, Plan(r, so_far, 2 * W2Bytes(r)), W2Bytes(r))

\* pinned_offload_bytes' two loops
WalkedBytes(r) ==
    LET after[l \in 0..Dims.layers] ==
          IF l = 0 THEN [spent |-> 0, pinned |-> 0] ELSE PlanLayer(r, after[l - 1])
    IN  after[Dims.layers].pinned

\* pinned_offload_bytes: without the dimensions, the budget as it is.
PlannedBytes(r) == IF r.known THEN WalkedBytes(r) ELSE Selected(r)

\* Every array of a table is cut into one pinned shard per rank; without the
\* arrays' sizes, two shards per rank.
EngramPinned(r) ==
    IF Tensors(r, "engram") # {}
      THEN MapThenSumSet(LAMBDA i : RoundPinned(Tensor[i].bytes \div Ranks, r.exact) * Ranks,
                         Tensors(r, "engram"))
      ELSE IF HostEngram(r) = 0 THEN 0
      ELSE RoundPinned(HostEngram(r) \div (2 * Ranks), r.exact) * 2 * Ranks

\* Mutant: the experts' buffers of one rank only.
HostNeededOneRank(r) ==
    PlannedBytes(r) + IF r.engramOnGpu THEN 0 ELSE EngramPinned(r)

HostNeeded(r) ==
    Ranks * PlannedBytes(r) + IF r.engramOnGpu THEN 0 ELSE EngramPinned(r)

-----------------------------------------------------------------------------
\* The verdict.  Where nothing needs to be offloaded the host is not looked
\* at; an unknown host fits everything.
HostRefuses(r) ==
    /\ OffloadNeeded(r) > 0
    /\ r.host > 0
    /\ 100 * HostNeeded(r) > 95 * r.host

\* The tool's exit status is 0.
Fits(r) == ~HostRefuses(r) /\ r.missing = {}

=============================================================================
