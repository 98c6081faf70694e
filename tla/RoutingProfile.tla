--------------------------- MODULE RoutingProfile ---------------------------
(***************************************************************************)
(* vllm_dsv41_opt/routing_profile.py: per-layer counters of the distinct   *)
(* experts a step selects on each GPU, counted by a kernel that runs       *)
(* eagerly or inside a CUDA graph, and the worker RPC that writes them to  *)
(* a file and resets them.  The worker's thread launches kernels and       *)
(* serves the RPC, so the two never overlap on the host; the GPU runs what *)
(* was launched later.                                                     *)
(*                                                                         *)
(* issued, frozen and profiled are history: what has been selected since   *)
(* the counters were last reset, in the generation being written, and in   *)
(* the one the file is of.                                                 *)
(***************************************************************************)
EXTENDS Integers, Sequences, FiniteSetsExt

CONSTANTS
    Layers,
    Ranks,          \* number of GPUs
    PerRank,        \* experts on each
    Pad,            \* lanes per GPU in the kernel
    Selections,     \* sets of experts a step may select
    MaxSteps,       \* counted steps in one generation
    MaxGeneration,
    MaxRuns

ASSUME LaneAssumption ==
    /\ Ranks \in Nat \ {0} /\ PerRank \in Nat \ {0} /\ Pad \in Nat
    /\ PerRank <= Pad
    /\ \A ids \in Selections : ids \subseteq 0..(Ranks * PerRank - 1)

ASSUME RunAssumption == MaxGeneration \in Nat /\ MaxRuns \in Nat \ {0}

VARIABLES
    run,            \* how often the server has been started
    generation,
    born,           \* where each layer's counters were created
    capturing,
    graph,          \* layers whose counting the captured graph contains
    launched,       \* selections of counting kernels the GPU has still to run
    counters,
    rpc,            \* position of the snapshot
    left,           \* layers it has still to read
    rows,           \* what it has read
    file,
    issued,
    frozen,
    profiled

server == <<run, generation, born, capturing, graph>>
snapshot == <<rpc, left, rows, file>>
history == <<issued, frozen, profiled>>
vars == <<server, snapshot, launched, counters, history>>

-----------------------------------------------------------------------------
(***************************************************************************)
(* _count_routes                                                           *)
(***************************************************************************)
Rank == 0..(Ranks - 1)

\* Lanes of one GPU are padded; the padding's lanes name experts of the next.
Expert(lane) == (lane \div Pad) * PerRank + (lane % Pad)

IsActive(ids, lane) == Expert(lane) \in ids /\ lane % Pad < PerRank

RankUnique(ids) ==
    [r \in Rank |->
        Cardinality({ lane \in (r * Pad)..(r * Pad + Pad - 1) : IsActive(ids, lane) })]

Worst(ids) == Max({ RankUnique(ids)[r] : r \in Rank })

Zeros == [steps |-> 0, sums |-> [r \in Rank |-> 0], worstSum |-> 0,
          histogram |-> [n \in 0..PerRank |-> 0]]

\* Every atomic_add of the kernel.
Counted(c, ids) ==
    [ steps |-> c.steps + 1,
      sums |-> [r \in Rank |-> c.sums[r] + RankUnique(ids)[r]],
      worstSum |-> c.worstSum + Worst(ids),
      histogram |-> [c.histogram EXCEPT ![Worst(ids)] = @ + 1] ]

-----------------------------------------------------------------------------
NoRows == [l \in {} |-> Zeros]

NoFile == [generation |-> 0, rows |-> NoRows]

Nothing == [l \in Layers |-> <<>>]

Init ==
    /\ run = 1
    /\ generation = 0
    /\ born = [l \in Layers |-> "none"]
    /\ capturing = FALSE
    /\ graph = {}
    /\ launched = Nothing
    /\ counters = [l \in Layers |-> Zeros]
    /\ rpc = "idle"
    /\ left = {}
    /\ rows = NoRows
    /\ file = NoFile
    /\ issued = Nothing
    /\ frozen = Nothing
    /\ profiled = Nothing

Launch(l, ids) ==
    /\ MapThenSumSet(LAMBDA k : Len(issued[k]), Layers) < MaxSteps
    /\ launched' = [launched EXCEPT ![l] = Append(@, ids)]
    /\ issued' = [issued EXCEPT ![l] = Append(@, ids)]
    /\ UNCHANGED <<frozen, profiled>>

(***************************************************************************)
(* apply()                                                                 *)
(***************************************************************************)
\* Batches of another shape create the counters and count nothing.
ApplyUncounted(l) ==
    /\ rpc = "idle" /\ ~capturing
    /\ born' = [born EXCEPT ![l] = IF @ = "none" THEN "eager" ELSE @]
    /\ UNCHANGED <<run, generation, capturing, graph, snapshot, launched, counters, history>>

ApplyCounted(l, ids) ==
    /\ rpc = "idle" /\ ~capturing
    /\ born' = [born EXCEPT ![l] = IF @ = "none" THEN "eager" ELSE @]
    /\ Launch(l, ids)
    /\ UNCHANGED <<run, generation, capturing, graph, snapshot, counters>>

BeginCapture ==
    /\ rpc = "idle" /\ ~capturing /\ graph = {}
    /\ capturing' = TRUE
    /\ UNCHANGED <<run, generation, born, graph, snapshot, launched, counters, history>>

\* Mutant: counters may be created in capture.
ApplyCapturedCreating(l) ==
    /\ capturing
    /\ born' = [born EXCEPT ![l] = IF @ = "none" THEN "captured" ELSE @]
    /\ graph' = graph \union {l}
    /\ UNCHANGED <<run, generation, capturing, snapshot, launched, counters, history>>

\* A layer without counters raises RuntimeError, which ends the server
\* (Restart).
ApplyCaptured(l) ==
    /\ capturing
    /\ born[l] # "none"
    /\ graph' = graph \union {l}
    /\ UNCHANGED <<run, generation, born, capturing, snapshot, launched, counters, history>>

EndCapture ==
    /\ capturing
    /\ capturing' = FALSE
    /\ UNCHANGED <<run, generation, born, graph, snapshot, launched, counters, history>>

Replay(l, ids) ==
    /\ rpc = "idle" /\ ~capturing
    /\ l \in graph
    /\ Launch(l, ids)
    /\ UNCHANGED <<server, snapshot, counters>>

\* Counters created in capture would be zeroed by every replay.
RunKernel(l) ==
    /\ launched[l] # <<>>
    /\ launched' = [launched EXCEPT ![l] = Tail(@)]
    /\ counters' = [counters EXCEPT ![l] =
                      Counted(IF born[l] = "captured" THEN Zeros ELSE @, Head(launched[l]))]
    /\ UNCHANGED <<server, snapshot, history>>

(***************************************************************************)
(* snapshot_and_reset()                                                    *)
(***************************************************************************)
\* Mutant: without the first synchronize.
SynchronizeNot ==
    /\ rpc = "idle" /\ ~capturing
    /\ generation < MaxGeneration
    /\ generation' = generation + 1
    /\ rpc' = "read"
    /\ left' = { l \in Layers : born[l] # "none" }
    /\ rows' = NoRows
    /\ frozen' = issued
    /\ issued' = Nothing
    /\ UNCHANGED <<run, born, capturing, graph, file, launched, counters, profiled>>

Synchronize ==
    /\ rpc = "idle" /\ ~capturing
    /\ launched = Nothing
    /\ generation < MaxGeneration
    /\ generation' = generation + 1
    /\ rpc' = "read"
    /\ left' = { l \in Layers : born[l] # "none" }
    /\ rows' = NoRows
    /\ frozen' = issued
    /\ issued' = Nothing
    /\ UNCHANGED <<run, born, capturing, graph, file, launched, counters, profiled>>

ReadLayer(l) ==
    /\ rpc = "read"
    /\ l \in left
    /\ left' = left \ {l}
    /\ rows' = [k \in (DOMAIN rows) \union {l} |-> IF k = l THEN counters[l] ELSE rows[k]]
    /\ counters' = [counters EXCEPT ![l] = Zeros]
    /\ UNCHANGED <<server, rpc, file, launched, history>>

\* The temporary file is nobody's input: only its replacing the old one shows.
WriteTemporary ==
    /\ rpc = "read"
    /\ left = {}
    /\ rpc' = "replace"
    /\ UNCHANGED <<server, left, rows, file, launched, counters, history>>

Replace ==
    /\ rpc = "replace"
    /\ rpc' = "idle"
    /\ file' = [generation |-> generation, rows |-> rows]
    /\ rows' = NoRows
    /\ profiled' = frozen
    /\ frozen' = Nothing
    /\ UNCHANGED <<server, left, launched, counters, issued>>

\* mkdir, write_text or replace raises: the RPC fails, its counts are gone.
SnapshotFails ==
    /\ rpc = "replace" \/ (rpc = "read" /\ left = {})
    /\ rpc' = "idle"
    /\ rows' = NoRows
    /\ frozen' = Nothing
    /\ UNCHANGED <<server, left, file, launched, counters, issued, profiled>>

\* The server dies and is started again.
Restart ==
    /\ run < MaxRuns
    /\ run' = run + 1
    /\ generation' = 0
    /\ born' = [l \in Layers |-> "none"]
    /\ capturing' = FALSE
    /\ graph' = {}
    /\ launched' = Nothing
    /\ counters' = [l \in Layers |-> Zeros]
    /\ rpc' = "idle"
    /\ left' = {}
    /\ rows' = NoRows
    /\ issued' = Nothing
    /\ frozen' = Nothing
    /\ UNCHANGED <<file, profiled>>

-----------------------------------------------------------------------------
Snapshot ==
    \/ Synchronize
    \/ \E l \in Layers : ReadLayer(l)
    \/ WriteTemporary
    \/ Replace
    \/ SnapshotFails

Next ==
    \/ \E l \in Layers : ApplyUncounted(l)
    \/ \E l \in Layers, ids \in Selections : ApplyCounted(l, ids)
    \/ BeginCapture
    \/ \E l \in Layers : ApplyCaptured(l)
    \/ EndCapture
    \/ \E l \in Layers, ids \in Selections : Replay(l, ids)
    \/ \E l \in Layers : RunKernel(l)
    \/ Snapshot
    \/ Restart

Spec == Init /\ [][Next]_vars

-----------------------------------------------------------------------------
(***************************************************************************)
(* Properties                                                              *)
(***************************************************************************)
\* The type invariant.  Counters are never created in capture: the graph would
\* zero them in every replay.
TypeOK ==
    /\ run \in 1..MaxRuns
    /\ generation \in 0..MaxGeneration
    /\ born \in [Layers -> {"none", "eager"}]
    /\ capturing \in BOOLEAN
    /\ graph \subseteq { l \in Layers : born[l] = "eager" }
    /\ launched \in [Layers -> Seq(Selections)]
    /\ DOMAIN counters = Layers
    /\ rpc \in {"idle", "read", "replace"}
    /\ left \subseteq Layers
    /\ DOMAIN rows \subseteq Layers
    /\ file.generation \in 0..MaxGeneration

\* What a profile of a list of selections says, by its definition.
RankShare(ids, r) == Cardinality({ e \in ids : e \div PerRank = r })

BusiestShare(ids) == Max({ RankShare(ids, r) : r \in Rank })

Total(f) == MapThenSumSet(LAMBDA i : f[i], DOMAIN f)

Summary(steps) ==
    [ steps |-> Len(steps),
      sums |-> [r \in Rank |->
          Total([i \in 1..Len(steps) |-> RankShare(steps[i], r)])],
      worstSum |-> Total([i \in 1..Len(steps) |-> BusiestShare(steps[i])]),
      histogram |-> [n \in 0..PerRank |->
          Cardinality({ i \in 1..Len(steps) : BusiestShare(steps[i]) = n })] ]

\* A snapshot file is the profile of exactly the steps of its generation:
\* nothing of the warm-up before it, nothing twice, nothing left out, also
\* after a snapshot that failed half way and for a server that died since.
FileIsItsGeneration ==
    file.generation > 0 =>
        \A l \in Layers :
            IF l \in DOMAIN file.rows
            THEN file.rows[l] = Summary(profiled[l])
            ELSE profiled[l] = <<>>

\* Between snapshots the counters hold this generation's steps and no other.
CountersAreThisGeneration ==
    rpc = "idle" =>
        \A l \in Layers :
            launched[l] = <<>> => counters[l] = Summary(issued[l])

=============================================================================
