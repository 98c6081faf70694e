--------------------------- MODULE MarlinStaging ---------------------------
(***************************************************************************)
(* Marlin weight staging (vllm_dsv41_opt/staging.py).                      *)
(*                                                                         *)
(* One host thread calls the wrapped moe_wna16_marlin_gemm on the current  *)
(* CUDA stream.  For a UVA-offloaded weight and a large eager batch the    *)
(* wrapper first clones the packed matrix into a temporary GPU tensor and  *)
(* calls the GEMM on the clone; the clone is dropped when the wrapper      *)
(* returns, long before the GPU has run anything.  Streams run their       *)
(* operations in order and concurrently with each other; CUDA graphs       *)
(* record operations and replay them with the same operands.  Streams,     *)
(* graphs and PyTorch's caching allocator are external: freed blocks are   *)
(* reused at once, by the stream that allocated them.                      *)
(***************************************************************************)
EXTENDS Integers, Sequences, FiniteSets

CONSTANTS
    Stream,         \* CUDA streams of one worker
    Weight,         \* packed expert matrices
    Size,           \* their sizes
    Offloaded,      \* those marked _vllm_is_uva_offloaded
    Tokens,         \* batch sizes the model is called with
    MinTokens,      \* DSV41_MARLIN_STAGE_MIN_TOKENS
    GpuMemory,      \* device memory left for temporaries
    MaxQueue,       \* bound: operations queued on a stream
    MaxGraph,       \* bound: operations of the captured graph
    MaxVersion      \* bound: how often weight storage is rewritten

ASSUME StagingAssumption ==
    /\ MinTokens \in Nat \ {0}      \* ValueError otherwise
    /\ Tokens \subseteq Nat
    /\ Offloaded \subseteq Weight
    /\ Size \in [Weight -> Nat \ {0}]
    /\ {GpuMemory, MaxQueue, MaxGraph, MaxVersion} \subseteq Nat

VARIABLES
    queue,          \* operations each stream still has to run
    capturing,      \* the stream in graph capture, or {}
    graph,          \* the operations of the captured graph
    blocks,         \* temporaries the allocator has carved: id -> record
    content,        \* what each temporary holds
    frame,          \* the wrapper's local `staged`, while a call is in it
    version,        \* which bytes the weights' own storage holds now
    reported,       \* first staged matrix logged
    fallbackReported    \* first failed allocation logged

stagingVars == <<queue, capturing, graph, blocks, content, frame, version, reported,
          fallbackReported>>

\* An operand is the weight's own (UVA or resident) storage, 0, or a block.
Own == 0

Op == [op : {"copy", "gemm"}, w : Weight, src : Nat]

Block == [stream : Stream, size : Nat, busy : BOOLEAN]

StagingTypeOK ==
    /\ queue \in [Stream -> Seq(Op)]
    /\ capturing \subseteq Stream /\ Cardinality(capturing) <= 1
    /\ graph \in Seq(Op)
    /\ blocks \in Seq(Block)
    /\ content \in [1..Len(blocks) -> (Weight \X Nat) \union {<<>>}]
    /\ frame \in [s : Stream, w : Weight, b : Nat \ {0}] \union {<<>>}
    /\ version \in 0..MaxVersion
    /\ reported \in BOOLEAN
    /\ fallbackReported \in BOOLEAN

StagingInit ==
    /\ queue = [s \in Stream |-> <<>>]
    /\ capturing = {}
    /\ graph = <<>>
    /\ blocks = <<>>
    /\ content = <<>>
    /\ frame = <<>>
    /\ version = 0
    /\ reported = FALSE
    /\ fallbackReported = FALSE

-----------------------------------------------------------------------------
(***************************************************************************)
(* The caching allocator                                                   *)
(***************************************************************************)
Used == LET size[i \in 0..Len(blocks)] ==
              IF i = 0 THEN 0 ELSE size[i - 1] + blocks[i].size
        IN  size[Len(blocks)]

\* Free blocks of this stream that are large enough.
Reusable(s, w) ==
    { b \in 1..Len(blocks) :
        /\ blocks[b].stream = s
        /\ ~blocks[b].busy
        /\ blocks[b].size >= Size[w] }

Fits(w) == Used + Size[w] <= GpuMemory

-----------------------------------------------------------------------------
(***************************************************************************)
(* The wrapped GEMM                                                        *)
(***************************************************************************)
\* Work goes to the stream's queue, or into the graph while it is captured.
Issue(s, ops) ==
    IF s \in capturing
    THEN /\ Len(graph) + Len(ops) <= MaxGraph
         /\ graph' = graph \o ops
         /\ UNCHANGED queue
    ELSE /\ Len(queue[s]) + Len(ops) <= MaxQueue
         /\ queue' = [queue EXCEPT ![s] = @ \o ops]
         /\ UNCHANGED graph

\* One host thread: it is in one call at a time, and while a stream is
\* captured it issues only to that stream.
HostFree == frame = <<>>

MayCall(s) == HostFree /\ capturing \subseteq {s}

\* Mutant: graph capture stages like eager execution.
StagesInCapture(s, w, tokens) ==
    /\ w \in Offloaded
    /\ tokens >= MinTokens

Stages(s, w, tokens) ==
    /\ w \in Offloaded
    /\ tokens >= MinTokens
    /\ s \notin capturing

Copy(w, b) == [op |-> "copy", w |-> w, src |-> b]

Gemm(w, src) == [op |-> "gemm", w |-> w, src |-> src]

\* Not eligible: the original arguments.
DirectCall(s, w, tokens) ==
    /\ MayCall(s)
    /\ ~Stages(s, w, tokens)
    /\ Issue(s, <<Gemm(w, Own)>>)
    /\ UNCHANGED <<capturing, blocks, content, frame, version, reported,
                   fallbackReported>>

\* Mutant: a temporary of the right size is taken for a copy already made.
CloneCached(s, w, tokens, b) ==
    /\ MayCall(s)
    /\ Stages(s, w, tokens)
    /\ b \in Reusable(s, w)
    /\ blocks' = [blocks EXCEPT ![b].busy = TRUE]
    /\ frame' = [s |-> s, w |-> w, b |-> b]
    /\ UNCHANGED <<queue, capturing, graph, content, version, reported,
                   fallbackReported>>

\* weight.clone(), in a block this stream let go of earlier.
CloneReusing(s, w, tokens, b) ==
    /\ MayCall(s)
    /\ Stages(s, w, tokens)
    /\ b \in Reusable(s, w)
    /\ Issue(s, <<Copy(w, b)>>)
    /\ blocks' = [blocks EXCEPT ![b].busy = TRUE]
    /\ frame' = [s |-> s, w |-> w, b |-> b]
    /\ UNCHANGED <<capturing, content, version, reported, fallbackReported>>

\* weight.clone(), in a block carved from free device memory.
CloneFresh(s, w, tokens) ==
    LET b == Len(blocks) + 1 IN
    /\ MayCall(s)
    /\ Stages(s, w, tokens)
    /\ Reusable(s, w) = {}
    /\ Fits(w)
    /\ blocks' = Append(blocks, [stream |-> s, size |-> Size[w], busy |-> TRUE])
    /\ content' = Append(content, <<>>)
    /\ Issue(s, <<Copy(w, b)>>)
    /\ frame' = [s |-> s, w |-> w, b |-> b]
    /\ UNCHANGED <<capturing, version, reported, fallbackReported>>

\* OutOfMemoryError, by size or by fragmentation: the original UVA GEMM.
CloneFails(s, w, tokens) ==
    /\ MayCall(s)
    /\ Stages(s, w, tokens)
    /\ Reusable(s, w) = {}
    /\ Issue(s, <<Gemm(w, Own)>>)
    /\ fallbackReported' = TRUE
    /\ UNCHANGED <<capturing, blocks, content, frame, version, reported>>

\* Mutant: the wrapper keeps a reference to the clone.
StagedGemmKeeping ==
    /\ ~HostFree
    /\ Issue(frame.s, <<Gemm(frame.w, frame.b)>>)
    /\ frame' = <<>>
    /\ reported' = TRUE
    /\ UNCHANGED <<capturing, blocks, content, version, fallbackReported>>

\* The GEMM on the clone; the clone is dropped as the wrapper returns, with
\* the GEMM still queued.
StagedGemm ==
    /\ ~HostFree
    /\ Issue(frame.s, <<Gemm(frame.w, frame.b)>>)
    /\ blocks' = [blocks EXCEPT ![frame.b].busy = FALSE]
    /\ frame' = <<>>
    /\ reported' = TRUE
    /\ UNCHANGED <<capturing, content, version, fallbackReported>>

Call(s, w, tokens) ==
    \/ DirectCall(s, w, tokens)
    \/ \E b \in 1..Len(blocks) : CloneReusing(s, w, tokens, b)
    \/ CloneFresh(s, w, tokens)
    \/ CloneFails(s, w, tokens)

-----------------------------------------------------------------------------
(***************************************************************************)
(* Graphs, weight storage and the GPU                                      *)
(***************************************************************************)
BeginCapture(s) ==
    /\ HostFree /\ capturing = {}
    /\ graph = <<>>
    /\ capturing' = {s}
    /\ UNCHANGED <<queue, graph, blocks, content, frame, version, reported,
                   fallbackReported>>

EndCapture ==
    /\ HostFree /\ capturing # {}
    /\ capturing' = {}
    /\ UNCHANGED <<queue, graph, blocks, content, frame, version, reported,
                   fallbackReported>>

Replay(s) ==
    /\ HostFree /\ capturing = {}
    /\ graph # <<>>
    /\ Issue(s, graph)
    /\ UNCHANGED <<capturing, blocks, content, frame, version, reported,
                   fallbackReported>>

\* Weight storage is rewritten only with the GPU idle (synchronize first).
RewriteWeights ==
    /\ HostFree
    /\ \A s \in Stream : queue[s] = <<>>
    /\ version < MaxVersion
    /\ version' = version + 1
    /\ UNCHANGED <<queue, capturing, graph, blocks, content, frame,
                   reported, fallbackReported>>

RunCopy(s) ==
    /\ queue[s] # <<>> /\ Head(queue[s]).op = "copy"
    /\ content' = [content EXCEPT ![Head(queue[s]).src] =
                     <<Head(queue[s]).w, version>>]
    /\ queue' = [queue EXCEPT ![s] = Tail(@)]
    /\ UNCHANGED <<capturing, graph, blocks, frame, version, reported,
                   fallbackReported>>

RunGemm(s) ==
    /\ queue[s] # <<>> /\ Head(queue[s]).op = "gemm"
    /\ queue' = [queue EXCEPT ![s] = Tail(@)]
    /\ UNCHANGED <<capturing, graph, blocks, content, frame, version, reported,
                   fallbackReported>>

StagingNext ==
    \/ \E s \in Stream, w \in Weight, tokens \in Tokens : Call(s, w, tokens)
    \/ StagedGemm
    \/ \E s \in Stream : BeginCapture(s)
    \/ EndCapture
    \/ \E s \in Stream : Replay(s)
    \/ RewriteWeights
    \/ \E s \in Stream : RunCopy(s)
    \/ \E s \in Stream : RunGemm(s)

StagingSpec == StagingInit /\ [][StagingNext]_stagingVars

-----------------------------------------------------------------------------
(***************************************************************************)
(* Properties                                                              *)
(***************************************************************************)

\* A staged GEMM about to run finds in its temporary the present bytes of its
\* own weight, although the temporary was handed back before it started and
\* other calls, on this stream and others, have been issued since.
StagedGemmReadsItsWeight ==
    \A s \in Stream :
        queue[s] # <<>> =>
            LET op == Head(queue[s]) IN
            op.op = "gemm" /\ op.src # Own =>
                content[op.src] = <<op.w, version>>

\* A captured graph works on the weights' own storage only: replay copies
\* nothing and pins no temporary, and it sees rewritten weights
\* (test_graph_capture_keeps_uva_weights_and_replay_reads_current_storage).
GraphKeepsOwnStorage ==
    \A i \in 1..Len(graph) : graph[i].op = "gemm" /\ graph[i].src = Own

\* Staging one matrix at a time: a stream's temporaries have distinct sizes,
\* so they never add up to more than one of each kind of matrix.
OneTemporaryPerSize ==
    \A b, c \in 1..Len(blocks) :
        b < c /\ blocks[b].stream = blocks[c].stream =>
            blocks[b].size < blocks[c].size
=============================================================================
