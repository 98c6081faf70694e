------------------------------ MODULE Offload ------------------------------
(***************************************************************************)
(* The weight offloader of vllm_dsv41_opt: register() reads the            *)
(* environment and replaces UVAOffloader._maybe_offload_to_cpu, which vLLM *)
(* then calls once per module, in model order, while it builds the model.  *)
(* One host buffer is allocated per moved parameter, filled, and published *)
(* as the parameter's storage through a CUDA (UVA) view.                   *)
(*                                                                         *)
(* vLLM's stock method is external: it is modelled from what the plugin    *)
(* relies on (it visits the same parameters under the same budget and,     *)
(* when UVA is disabled, wraps the module's forward).                      *)
(***************************************************************************)
EXTENDS Integers, Sequences, FiniteSetsExt

CONSTANTS
    Param,          \* parameter objects; modules may share one
    Size,           \* bytes of each parameter
    NumModules,     \* modules vLLM wraps, in this order
    ModuleParams,   \* named_parameters() of each module, in order
    Layer,          \* decoder layer indices
    LayerOf,        \* layer_index_of(module), or NoLayer
    NoLayer,        \* the module is no decoder layer (tower, head)
    NoFilter,       \* DSV41_OFFLOAD_LAYERS unset
    Config          \* the settings a process may start with

Modules == 1..NumModules

ConfigType ==
    [ singleCopy : BOOLEAN,                     \* DSV41_SINGLE_COPY
      exactPinned : BOOLEAN,                    \* DSV41_EXACT_PINNED
      uva : BOOLEAN,                            \* self.uva_offloading
      allowed : (SUBSET Layer) \union {NoFilter},
      budget : Nat,                             \* cpu_offload_max_bytes
      selected : SUBSET Param,                  \* match cpu_offload_params
      onCpu : SUBSET Param ]                    \* built on the CPU

ASSUME SizeAssumption == Size \in [Param -> Nat \ {0}]
ASSUME ModuleAssumption ==
    /\ NumModules \in Nat
    /\ ModuleParams \in [Modules -> Seq(Param)]
    /\ NoLayer \notin Layer
    /\ LayerOf \in [Modules -> Layer \union {NoLayer}]
ASSUME ConfigAssumption == Config \subseteq ConfigType

VARIABLES
    conf,       \* this process's settings
    stage,      \* where the loader is
    hook,       \* who implements _maybe_offload_to_cpu
    mod,        \* the module being wrapped
    par,        \* position in its parameters
    dev,        \* where each parameter's data lives
    marked,     \* parameters with _vllm_is_uva_offloaded set
    filled,     \* parameters whose host buffer holds their bytes
    bytes,      \* self.cpu_offload_bytes
    offloaded,  \* parameters moved to host memory so far
    did,        \* this call moved a parameter
    wrapped     \* modules whose forward copies weights in (functional_call)

vars == <<conf, stage, hook, mod, par, dev, marked, filled, bytes,
          offloaded, did, wrapped>>

memory == <<dev, marked, filled, bytes, offloaded>>

Stage == {"register", "modules", "params", "copy", "publish",
          "done", "refused", "failed"}

\* "cuda": device memory.  "cpu": an ordinary CPU tensor.  "uva": a host
\* buffer seen through a CUDA view, so that p.device is the GPU.
Device == {"cuda", "cpu", "uva"}

TypeOK ==
    /\ conf \in Config
    /\ stage \in Stage
    /\ hook \in {"stock", "plugin"}
    /\ mod \in 1..(NumModules + 1)
    /\ par \in Nat \ {0}
    /\ dev \in [Param -> Device]
    /\ marked \subseteq Param
    /\ filled \subseteq Param
    /\ bytes \in Nat
    /\ offloaded \subseteq Param
    /\ did \in BOOLEAN
    /\ wrapped \subseteq Modules

-----------------------------------------------------------------------------
(***************************************************************************)
(* The guards of the code                                                  *)
(***************************************************************************)
BudgetSpent == bytes >= conf.budget

\* Mutant: a layer filter also shuts out modules that are no decoder layer.
FilteredTowersToo(m) ==
    /\ hook = "plugin"
    /\ conf.allowed # NoFilter
    /\ LayerOf[m] \notin conf.allowed

\* Modules with no layer index keep stock behaviour.
Filtered(m) ==
    /\ hook = "plugin"
    /\ conf.allowed # NoFilter
    /\ LayerOf[m] # NoLayer
    /\ LayerOf[m] \notin conf.allowed

\* Stock and plugin alike return early from these modules.
NothingToMove(m) ==
    ModuleParams[m] # <<>> =>
        dev[ModuleParams[m][1]] = "cpu" \/ BudgetSpent

\* Mutant: the single-copy path is taken with UVA disabled, too.
SingleCopyAlways == hook = "plugin" /\ conf.singleCopy

SingleCopyPath == hook = "plugin" /\ conf.singleCopy /\ conf.uva

Current == ModuleParams[mod][par]

InModule == mod \in Modules /\ par \in 1..Len(ModuleParams[mod])

\* Mutant: only the device tells that a parameter is placed.
AlreadyPlacedByDevice(p) == dev[p] = "cpu"

AlreadyPlaced(p) == dev[p] = "cpu" \/ p \in marked

-----------------------------------------------------------------------------
Init ==
    /\ conf \in Config
    /\ stage = "register"
    /\ hook = "stock"
    /\ mod = 1
    /\ par = 1
    /\ dev = [p \in Param |-> IF p \in conf.onCpu THEN "cpu" ELSE "cuda"]
    /\ marked = {}
    /\ filled = {}
    /\ bytes = 0
    /\ offloaded = {}
    /\ did = FALSE
    /\ wrapped = {}

\* Exact allocation without the single-copy path is a ValueError.
RefuseSettings ==
    /\ stage = "register"
    /\ conf.exactPinned /\ ~conf.singleCopy
    /\ stage' = "refused"
    /\ UNCHANGED <<conf, hook, mod, par, did, wrapped>>
    /\ UNCHANGED memory

Register ==
    /\ stage = "register"
    /\ conf.exactPinned => conf.singleCopy
    /\ hook' = IF conf.allowed = NoFilter /\ ~conf.singleCopy
               THEN "stock" ELSE "plugin"
    /\ stage' = "modules"
    /\ UNCHANGED <<conf, mod, par, did, wrapped>>
    /\ UNCHANGED memory

-----------------------------------------------------------------------------
(***************************************************************************)
(* One call of _maybe_offload_to_cpu per module                            *)
(***************************************************************************)
ReturnModule ==
    /\ stage' = "modules"
    /\ mod' = mod + 1
    /\ par' = 1

SkipModule ==
    /\ stage = "modules"
    /\ mod \in Modules
    /\ Filtered(mod) \/ NothingToMove(mod)
    /\ ReturnModule
    /\ UNCHANGED <<conf, hook, did, wrapped>>
    /\ UNCHANGED memory

EnterModule ==
    /\ stage = "modules"
    /\ mod \in Modules
    /\ ~Filtered(mod)
    /\ ~NothingToMove(mod)
    /\ stage' = "params"
    /\ par' = 1
    /\ did' = FALSE
    /\ UNCHANGED <<conf, hook, mod, wrapped>>
    /\ UNCHANGED memory

\* The loop over named_parameters ends, or the budget is spent.  Stock then
\* wraps the module if it moved anything without UVA.
LeaveModule ==
    /\ stage = "params"
    /\ BudgetSpent \/ ~InModule
    /\ ReturnModule
    /\ wrapped' = IF did /\ ~conf.uva THEN wrapped \union {mod} ELSE wrapped
    /\ UNCHANGED <<conf, hook, did>>
    /\ UNCHANGED memory

\* Mutant: a parameter that is not selected is looked at again.
SkipParamStuck ==
    /\ stage = "params"
    /\ ~BudgetSpent
    /\ InModule
    /\ AlreadyPlaced(Current) \/ Current \notin conf.selected
    /\ UNCHANGED vars

SkipParam ==
    /\ stage = "params"
    /\ ~BudgetSpent
    /\ InModule
    /\ AlreadyPlaced(Current) \/ Current \notin conf.selected
    /\ par' = par + 1
    /\ UNCHANGED <<conf, stage, hook, mod, did, wrapped>>
    /\ UNCHANGED memory

MayMove(p) ==
    /\ stage = "params"
    /\ ~BudgetSpent
    /\ InModule
    /\ p = Current
    /\ ~AlreadyPlaced(p)
    /\ p \in conf.selected

\* weight_torch.empty(..., pin_memory): exactly one host buffer.
AllocateHost(p) ==
    /\ SingleCopyPath
    /\ MayMove(p)
    /\ stage' = "copy"
    /\ UNCHANGED <<conf, hook, mod, par, did, wrapped>>
    /\ UNCHANGED memory

\* The pinned allocation fails: the exception ends the load.
AllocationFails(p) ==
    /\ MayMove(p)
    /\ stage' = "failed"
    /\ UNCHANGED <<conf, hook, mod, par, did, wrapped>>
    /\ UNCHANGED memory

\* cpu_data.copy_(p.data)
CopyToHost(p) ==
    /\ stage = "copy"
    /\ p = Current
    /\ filled' = filled \union {p}
    /\ stage' = "publish"
    /\ UNCHANGED <<conf, hook, mod, par, dev, marked, bytes, offloaded,
                   did, wrapped>>

\* Mutant: the view is published without _vllm_is_uva_offloaded.
PublishViewUnmarked(p) ==
    /\ stage = "publish"
    /\ p = Current
    /\ dev' = [dev EXCEPT ![p] = "uva"]
    /\ bytes' = bytes + Size[p]
    /\ offloaded' = offloaded \union {p}
    /\ stage' = "params"
    /\ par' = par + 1
    /\ did' = TRUE
    /\ UNCHANGED <<conf, hook, mod, marked, filled, wrapped>>

\* p.data becomes the view; the parameter is marked and charged.
PublishView(p) ==
    /\ stage = "publish"
    /\ p = Current
    /\ dev' = [dev EXCEPT ![p] = "uva"]
    /\ marked' = marked \union {p}
    /\ bytes' = bytes + Size[p]
    /\ offloaded' = offloaded \union {p}
    /\ stage' = "params"
    /\ par' = par + 1
    /\ did' = TRUE
    /\ UNCHANGED <<conf, hook, mod, filled, wrapped>>

\* vLLM's own offload of one parameter, UVA or plain CPU storage.
StockOffloadParam(p) ==
    /\ ~SingleCopyPath
    /\ MayMove(p)
    /\ dev' = [dev EXCEPT ![p] = IF conf.uva THEN "uva" ELSE "cpu"]
    /\ marked' = IF conf.uva THEN marked \union {p} ELSE marked
    /\ filled' = filled \union {p}
    /\ bytes' = bytes + Size[p]
    /\ offloaded' = offloaded \union {p}
    /\ par' = par + 1
    /\ did' = TRUE
    /\ UNCHANGED <<conf, stage, hook, mod, wrapped>>

FinishLoad ==
    /\ stage = "modules"
    /\ mod = NumModules + 1
    /\ stage' = "done"
    /\ UNCHANGED <<conf, hook, mod, par, did, wrapped>>
    /\ UNCHANGED memory

MoveParam(p) ==
    \/ AllocateHost(p)
    \/ AllocationFails(p)
    \/ CopyToHost(p)
    \/ PublishView(p)
    \/ StockOffloadParam(p)

Step ==
    \/ RefuseSettings
    \/ Register
    \/ SkipModule
    \/ EnterModule
    \/ LeaveModule
    \/ SkipParam
    \/ \E p \in Param : MoveParam(p)
    \/ FinishLoad

\* A load that has ended stays ended.
Ended == stage \in {"done", "refused", "failed"} /\ UNCHANGED vars

Next == Step \/ Ended

\* The loader is one thread of straight-line code: it keeps going.
Spec == Init /\ [][Next]_vars /\ WF_vars(Step)

-----------------------------------------------------------------------------
(***************************************************************************)
(* Properties                                                              *)
(***************************************************************************)

\* The abstract promise, read off this state.
Budget == INSTANCE OffloadBudget
             WITH limit <- conf.budget, placed <- offloaded, spent <- bytes

\* Every load is a run of the abstract budget: one parameter at a time, each
\* at most once (a tied parameter is met by several modules), and never after
\* cpu_offload_bytes has reached cpu_offload_max_bytes.
ImplementsBudget == Budget!PlacementSpec

\* cpu_offload_bytes overshoots the budget by less than one whole parameter,
\* namely one that was really moved.  preflight.check_host_ram's allowance
\* for "the final whole parameter" rests on this.
Overshoot ==
    bytes = 0 \/ \E p \in offloaded : bytes - Size[p] < conf.budget

\* Once the call for a module has returned, its forward can read its weights:
\* a CUDA view exists only where UVA is enabled and shows a filled buffer, and
\* weights left in plain CPU storage belong to a module whose forward copies
\* them in (the comment on moving weights before the wrapper is installed).
\* Modules that share parameters are left out: vLLM's own method, UVA
\* disabled, wraps only the first of them.
Holds(m) == { ModuleParams[m][i] : i \in 1..Len(ModuleParams[m]) }

Untied(m) == \A n \in Modules \ {m} : Holds(m) \cap Holds(n) = {}

Readable(m) ==
    \A i \in 1..Len(ModuleParams[m]) :
        LET p == ModuleParams[m][i] IN
        /\ dev[p] = "uva" => conf.uva /\ p \in filled
        /\ dev[p] = "cpu" /\ p \notin conf.onCpu => m \in wrapped

ReturnedModulesReadable == \A m \in 1..(mod - 1) : Untied(m) => Readable(m)

\* The placement a finished load must have, defined without the loop: the
\* modules that are not filtered and whose first parameter is on the GPU
\* offer their selected GPU parameters in model order, and a parameter moves
\* exactly when those offered before it do not yet use up the budget.  (UVA
\* disabled, a tied parameter that vLLM has moved shuts out what follows it.)
Position == UNION { {m} \X (1..Len(ModuleParams[m])) : m \in Modules }

At(x) == ModuleParams[x[1]][x[2]]

Before(x, y) == x[1] < y[1] \/ (x[1] = y[1] /\ x[2] < y[2])

Offered(x) ==
    /\ conf.allowed = NoFilter \/ LayerOf[x[1]] = NoLayer
         \/ LayerOf[x[1]] \in conf.allowed
    /\ ModuleParams[x[1]][1] \notin conf.onCpu
    /\ At(x) \notin conf.onCpu
    /\ At(x) \in conf.selected

OfferedBefore(y) == { At(x) : x \in { z \in Position : Offered(z) /\ Before(z, y) } }

ShouldMove(p) ==
    \E x \in Position :
        /\ At(x) = p
        /\ Offered(x)
        /\ MapThenSumSet(LAMBDA q : Size[q], OfferedBefore(x)) < conf.budget

PlacementIsGreedyPrefix ==
    stage = "done" /\ conf.uva => \A p \in Param : p \in offloaded <=> ShouldMove(p)

\* In every state, also in the middle of a module and after a failed
\* allocation: what is off the GPU and was not built on the CPU is what the
\* load has moved, each such parameter has a filled host copy and is charged
\* exactly once, however many modules hold it, and no other copy is left but
\* the one about to be published.
ChargedAsMoved ==
    /\ \A p \in Param : p \in offloaded <=> dev[p] # "cuda" /\ p \notin conf.onCpu
    /\ offloaded \subseteq filled
    /\ filled \subseteq offloaded \union (IF stage = "publish" THEN {Current} ELSE {})
    /\ bytes = MapThenSumSet(LAMBDA q : Size[q], offloaded)

\* Every load ends: in a placed model, a refusal or a failed allocation.
LoadEnds == <>(stage \in {"done", "refused", "failed"})

=============================================================================
