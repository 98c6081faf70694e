----------------------------- MODULE NullBlock -----------------------------
(***************************************************************************)
(* The null block of the KV cache, from the two sides that can put NaN in  *)
(* every answer: capture_model()'s dummy forwards write it and the runner  *)
(* scrubs it afterwards (VL-013, upstream/vllm/apply_patch.py), and the    *)
(* sparse-MLA kernels gather it for masked index entries unless they take  *)
(* the tile's first entry instead (FI-004,                                 *)
(* upstream/flashinfer/apply_patch.py).                                    *)
(*                                                                         *)
(* Hybrid cache groups overlay one buffer: a view's block 0 is a set of    *)
(* cells, and views share cells.  A cell is zero, holds finite bytes or    *)
(* holds bytes that are NaN to some reader.                                *)
(***************************************************************************)
EXTENDS Integers

CONSTANTS
    Cells,          \* of the null block, over all buffers
    Views,          \* tensors in self.kv_caches, nested ones included
    Block0,         \* cells of view[0]
    Row0,           \* cells of view[0]'s first row
    Writers,        \* views whose slots come from the block table
    Readers,        \* views the sparse-MLA kernels gather from
    Requests,
    Tile,           \* entries of an index row gathered together
    MaxValid,       \* valid entries of an index row
    MaxDummy        \* dummy forwards queued at a time

ASSUME ViewAssumption ==
    /\ Writers \subseteq Views /\ Readers \subseteq Views
    /\ Row0 \in [Views -> SUBSET Cells] /\ Block0 \in [Views -> SUBSET Cells]
    /\ \A v \in Views : Row0[v] \subseteq Block0[v]

ASSUME BoundAssumption ==
    Tile \in Nat \ {0} /\ MaxValid \in Nat /\ MaxDummy \in Nat

\* What one server runs with.  paddedWrites: replayed graphs let the rows that
\* pad a batch write through their all-zero block tables as well.
Conf == [graphs : BOOLEAN, scrub : BOOLEAN, fix : BOOLEAN, paddedWrites : BOOLEAN]

VARIABLES
    conf,
    stage,
    profileOnly,    \* argument of the capture_model() call
    dummies,        \* dummy forwards the GPU has still to run
    todo,           \* views the scrub has still to visit
    zeroing,        \* views whose zero_() the GPU has still to run
    null,           \* contents of the null block
    out             \* outputs of the request so far

vars == <<conf, stage, profileOnly, dummies, todo, zeroing, null, out>>

-----------------------------------------------------------------------------
(***************************************************************************)
(* The gathers                                                             *)
(***************************************************************************)
\* An index row with n valid entries: compacted, then padded with -1.
Entry(n, pos) == IF pos < n THEN pos ELSE -1

NullRow == -1

\* Mutant: the tile's last entry stands in for a masked one.
GatheredLast(n, tile, e) ==
    LET first == tile * Tile IN
    IF Entry(n, first + e) >= 0 THEN Entry(n, first + e)
    ELSE IF conf.fix THEN Entry(n, first + Tile - 1)
    ELSE NullRow

\* The row a kernel copies for entry e of a tile; a masked entry's score is
\* -1e30, but its row still enters the product.
Gathered(n, tile, e) ==
    LET first == tile * Tile IN
    IF Entry(n, first + e) >= 0 THEN Entry(n, first + e)
    ELSE IF conf.fix THEN Entry(n, first)
    ELSE NullRow

\* Tiles without a valid entry are not iterated.
IsIterated(n, tile) == tile * Tile < n

GathersNull(n) ==
    \E tile \in 0..MaxValid, e \in 0..(Tile - 1) :
        IsIterated(n, tile) /\ Gathered(n, tile, e) = NullRow

IsNaN(v) == \E c \in Row0[v] : null[c] = "nan"

-----------------------------------------------------------------------------
Init ==
    /\ conf \in Conf
    /\ stage = "loaded"
    /\ profileOnly = TRUE
    /\ dummies = 0
    /\ todo = {}
    /\ zeroing = {}
    /\ null = [c \in Cells |-> "zero"]
    /\ out = [r \in Requests |-> "idle"]

(***************************************************************************)
(* capture_model(), called once to profile memory and once for good        *)
(***************************************************************************)
BeginCapture ==
    /\ stage = "loaded"
    /\ conf.graphs
    /\ stage' = "forwards"
    /\ UNCHANGED <<conf, profileOnly, dummies, todo, zeroing, null, out>>

SkipCapture ==
    /\ stage = "loaded"
    /\ ~conf.graphs
    /\ stage' = "serving"
    /\ UNCHANGED <<conf, profileOnly, dummies, todo, zeroing, null, out>>

DummyForward ==
    /\ stage = "forwards"
    /\ dummies < MaxDummy
    /\ dummies' = dummies + 1
    /\ UNCHANGED <<conf, stage, profileOnly, todo, zeroing, null, out>>

\* PAD slots keep plain inserts away; the views in Writers are written at
\* block 0, anywhere in it and with any bytes.
RunDummy ==
    /\ dummies > 0
    /\ dummies' = dummies - 1
    /\ \E v \in Writers : \E c \in Block0[v], bytes \in {"finite", "nan"} :
         null' = [null EXCEPT ![c] = bytes]
    /\ UNCHANGED <<conf, stage, profileOnly, todo, zeroing, out>>

\* Mutant: the scrub is queued beside the forwards it follows.
SynchronizeNot ==
    /\ stage = "forwards"
    /\ conf.scrub
    /\ stage' = "scrub"
    /\ todo' = Views
    /\ UNCHANGED <<conf, profileOnly, dummies, zeroing, null, out>>

Synchronize ==
    /\ stage = "forwards"
    /\ conf.scrub
    /\ dummies = 0
    /\ stage' = "scrub"
    /\ todo' = Views
    /\ UNCHANGED <<conf, profileOnly, dummies, zeroing, null, out>>

ZeroBlock(v) ==
    /\ stage = "scrub"
    /\ v \in todo
    /\ todo' = todo \ {v}
    /\ zeroing' = zeroing \union {v}
    /\ UNCHANGED <<conf, stage, profileOnly, dummies, null, out>>

RunZero(v) ==
    /\ v \in zeroing
    /\ zeroing' = zeroing \ {v}
    /\ null' = [c \in Cells |-> IF c \in Block0[v] THEN "zero" ELSE null[c]]
    /\ UNCHANGED <<conf, stage, profileOnly, dummies, todo, out>>

CaptureReturns ==
    /\ \/ stage = "scrub" /\ todo = {}
       \/ stage = "forwards" /\ ~conf.scrub
    /\ stage' = IF profileOnly THEN "loaded" ELSE "serving"
    /\ profileOnly' = FALSE
    /\ UNCHANGED <<conf, dummies, todo, zeroing, null, out>>

(***************************************************************************)
(* Serving                                                                 *)
(***************************************************************************)
\* A forward runs behind everything queued before it.  Each reader's index
\* row has n[v] valid entries, all of them rows of the request itself.
Query(r, n) ==
    /\ stage = "serving"
    /\ dummies = 0 /\ zeroing = {}
    /\ out' = [out EXCEPT ![r] =
                 IF out[r] = "nan" \/ \E v \in Readers : GathersNull(n[v]) /\ IsNaN(v)
                 THEN "nan" ELSE "finite"]
    /\ UNCHANGED <<conf, stage, profileOnly, dummies, todo, zeroing, null>>

\* A replayed graph whose batch is padded.
PaddedReplay ==
    /\ stage = "serving"
    /\ dummies = 0 /\ zeroing = {}
    /\ conf.graphs /\ conf.paddedWrites
    /\ \E v \in Writers : \E c \in Block0[v], bytes \in {"finite", "nan"} :
         null' = [null EXCEPT ![c] = bytes]
    /\ UNCHANGED <<conf, stage, profileOnly, dummies, todo, zeroing, out>>

Complete(r) ==
    /\ out[r] # "idle"
    /\ out' = [out EXCEPT ![r] = "idle"]
    /\ UNCHANGED <<conf, stage, profileOnly, dummies, todo, zeroing, null>>

-----------------------------------------------------------------------------
Next ==
    \/ BeginCapture
    \/ SkipCapture
    \/ DummyForward
    \/ RunDummy
    \/ Synchronize
    \/ \E v \in Views : ZeroBlock(v)
    \/ \E v \in Views : RunZero(v)
    \/ CaptureReturns
    \/ \E r \in Requests, n \in [Readers -> 0..MaxValid] : Query(r, n)
    \/ PaddedReplay
    \/ \E r \in Requests : Complete(r)

Spec == Init /\ [][Next]_vars

-----------------------------------------------------------------------------
(***************************************************************************)
(* Properties                                                              *)
(***************************************************************************)
TypeOK ==
    /\ conf \in Conf
    /\ stage \in {"loaded", "forwards", "scrub", "serving"}
    /\ profileOnly \in BOOLEAN
    /\ dummies \in 0..MaxDummy
    /\ todo \subseteq Views /\ zeroing \subseteq Views
    /\ stage # "scrub" => todo = {}
    /\ null \in [Cells -> {"zero", "finite", "nan"}]
    /\ out \in [Requests -> {"idle", "finite", "nan"}]

\* Either side is enough: with the scrub every request's output is finite if
\* replays leave the null block alone, with the gather fix it is finite
\* whatever is written there, and without graphs it needs neither.
EitherIsEnough ==
    conf.fix \/ (conf.scrub /\ ~conf.paddedWrites) \/ ~conf.graphs =>
        \A r \in Requests : out[r] # "nan"

\* The runner keeps its contract: once a scrubbed server is up and the GPU
\* has caught up, the null block is zero in every view of the cache.
NullBlockIsScrubbed ==
    stage = "serving" /\ conf.scrub /\ ~conf.paddedWrites /\ zeroing = {} =>
        \A v \in Views : \A c \in Block0[v] : null[c] = "zero"

=============================================================================
