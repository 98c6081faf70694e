----------------------------- MODULE Preflight -----------------------------
(***************************************************************************)
(* deploy/preflight.py: what it looks at before a launch, in which order   *)
(* and with which early returns, and its exit status; deploy/serve.sh goes *)
(* on unless that status is 1.                                             *)
(*                                                                         *)
(* A machine m is what is wrong with it, m.broken, and the host memory     *)
(* that is available, m.avail (GiB).  a holds preflight's arguments.  Each *)
(* check is the set of the levels it records, without "ok".                *)
(***************************************************************************)
EXTENDS Integers, FiniteSets

Fault ==
    { "noPython",           \* $PYTHON is no program
      "usageError",         \* argparse rejects an argument
      "noDriver", "fewGpus", "mixedGpus", "gpuBusy",
      "noUsedQuery",        \* the second nvidia-smi fails or times out
      "noNvcc", "noMeminfo", "swapOn",
      "noModelDir", "noConfig", "badConfig", "noIndex", "noShards",
      "shardMissing",
      "endShardCut",        \* among the first or last four shards
      "innerShardCut",      \* any other
      "noTorch", "noVllm", "noFlashinfer",
      "noPlugin", "noPinned", "noStaging",      \* vllm_dsv41_opt, its parts
      "vllmUnpatched",
      "vllmHalfPatched",    \* but for the files that get no marker
      "noDecodeSource", "decodeStock", "noGatherSource", "gatherStock",
      "prefillNarrow", "jitShadow" }

When(condition, level) == IF condition THEN {level} ELSE {}

-----------------------------------------------------------------------------
(***************************************************************************)
(* The host                                                                *)
(***************************************************************************)
\* Mutant: one chain of alternatives.
CheckGpusChained(b) ==
    When(b \intersect {"noDriver", "fewGpus"} # {}, "fail")
      \union When("mixedGpus" \in b /\ b \intersect {"noDriver", "fewGpus"} = {}, "warn")
      \union When("gpuBusy" \in b /\ b \intersect {"noUsedQuery", "mixedGpus"} = {}, "fail")

CheckGpus(b) ==
    IF "noDriver" \in b THEN {"fail"}
    ELSE When("fewGpus" \in b, "fail")
         \union When("mixedGpus" \in b /\ "fewGpus" \notin b, "warn")
         \union When("gpuBusy" \in b /\ "noUsedQuery" \notin b, "fail")

CheckNvcc(b) == When("noNvcc" \in b, "fail")

\* Mutant: the sum of the budgets, without the allocator's rounding.
BudgetTenths(exact) == 10

\* OFFLOAD_PIN_FACTOR, and 10 % for the final whole parameter.
PinTenths(exact) == IF exact THEN 11 ELSE 20

\* check_host_ram's need, in tenths.
HostNeedTenths(engram, offload, ranks, exact) ==
    10 * engram + offload * ranks * PinTenths(exact)

HostRamFails(engram, offload, ranks, exact, avail) ==
    HostNeedTenths(engram, offload, ranks, exact) > 10 * avail

CheckHostRam(m, a) ==
    IF "noMeminfo" \in m.broken THEN {"warn"}
    ELSE LET fails == HostRamFails(a.engram, a.offload, a.tp, a.exact, m.avail)
             tight == 100 * HostNeedTenths(a.engram, a.offload, a.tp, a.exact)
                        > 920 * m.avail
         IN When(fails, "fail") \union When(tight /\ ~fails, "warn")
              \union When("swapOn" \in m.broken, "warn")

-----------------------------------------------------------------------------
(***************************************************************************)
(* The model and the installed packages                                    *)
(***************************************************************************)
\* Mutant: a directory without config.json is only warned of.
CheckModelWarning(b) ==
    IF b \intersect {"noModelDir", "noConfig"} # {} THEN {"warn"}
    ELSE When(b \intersect {"noShards", "shardMissing", "endShardCut"} # {}, "fail")

CheckModel(b) ==
    IF b \intersect {"noModelDir", "noConfig"} # {} THEN {"fail"}
    ELSE When("noIndex" \notin b /\ b \intersect {"noShards", "shardMissing"} # {}, "fail")
         \union When("noIndex" \in b, IF "noShards" \in b THEN "fail" ELSE "warn")
         \union When("endShardCut" \in b /\ "noShards" \notin b, "fail")

LacksPlugin(b, a) ==
    \/ "noPlugin" \in b
    \/ a.exact /\ "noPinned" \in b
    \/ a.staging /\ "noStaging" \in b

CheckStack(b, a) ==
    IF "noTorch" \in b THEN {"fail"}
    ELSE When("noVllm" \in b, "fail")
         \union When("noFlashinfer" \in b, "warn")
         \union When(LacksPlugin(b, a), IF a.exact \/ a.staging THEN "fail" ELSE "warn")

-----------------------------------------------------------------------------
(***************************************************************************)
(* --v41: patches and flags                                                *)
(***************************************************************************)
\* _module_dir("vllm") is None; it and FlashInfer import torch.
NoStack(b) == b \intersect {"noTorch", "noVllm"} # {}

\* _DUAL_PREFILL_WIDE, False until the FlashInfer sources have been read.
DualPrefillWide(b) ==
    ~NoStack(b) /\ b \intersect {"noFlashinfer", "prefillNarrow"} = {}

CheckFlashinfer(b) ==
    IF "noFlashinfer" \in b THEN {"warn"}
    ELSE When("noDecodeSource" \in b, "warn")
         \union When("decodeStock" \in b /\ "noDecodeSource" \notin b, "fail")
         \union When("gatherStock" \in b /\ "noGatherSource" \notin b, "fail")
         \union When(~DualPrefillWide(b), "warn")

CheckV41Patches(b) ==
    IF NoStack(b) THEN {"fail"}
    ELSE When("vllmUnpatched" \in b, "fail")
         \union CheckFlashinfer(b)
         \union When("jitShadow" \in b, "fail")

LintV41Flags(b, a) ==
    When(a.blockSize # 64, "fail")
      \union When(~a.textOnly /\ ~DualPrefillWide(b), "fail")
      \union When(a.eager, "warn")
      \union When(a.engram = 0, "warn")

LintFlags(a) ==
    When(a.numaBind, IF a.offload > 0 /\ ~a.exact THEN "fail" ELSE "warn")
      \union When(~a.ep /\ a.tp > 1, "warn")
      \union When(a.autotune, "warn")
      \union When(a.blockSize > 0 /\ ~a.v41, "warn")
      \union When(a.offload > 0, "warn")

-----------------------------------------------------------------------------
(***************************************************************************)
(* main and the launcher's gate                                            *)
(***************************************************************************)
Findings(m, a) ==
    CheckGpus(m.broken) \union CheckNvcc(m.broken) \union CheckHostRam(m, a)
      \union CheckModel(m.broken) \union CheckStack(m.broken, a)
      \union LintFlags(a)
      \union (IF a.v41 THEN CheckV41Patches(m.broken) \union LintV41Flags(m.broken, a)
                       ELSE {})

\* A config.json that is no JSON ends preflight in a traceback.
Raises(b) == "badConfig" \in b /\ b \intersect {"noModelDir", "noConfig"} = {}

Status(m, a) ==
    IF "noPython" \in m.broken THEN 127
    ELSE IF "usageError" \in m.broken THEN 2
    ELSE IF Raises(m.broken) \/ "fail" \in Findings(m, a) THEN 1
    ELSE IF "warn" \in Findings(m, a) THEN 2 ELSE 0

\* What deploy/serve.sh passes on from its settings: never the arguments on
\* NUMA binding and autotuning, and an Engram size only with the offload.
LauncherArgs(s) ==
    [ tp |-> s.tp, ep |-> s.ep, offload |-> s.offload, exact |-> s.exact,
      staging |-> s.staging, blockSize |-> s.blockSize,
      engram |-> IF s.engramOffload THEN s.engram ELSE 0,
      textOnly |-> s.textOnly, eager |-> s.eager, v41 |-> s.v41,
      numaBind |-> FALSE, autotune |-> FALSE ]

StopsLaunch(status) == status = 1

=============================================================================
