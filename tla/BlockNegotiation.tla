-------------------------- MODULE BlockNegotiation --------------------------
(***************************************************************************)
(* Kernel block sizes of the KV cache groups (upstream/vllm/apply_patch.py,*)
(* edits of v1/worker/utils.py).  prepare_kernel_block_sizes() asks        *)
(* select_common_block_size() for every group: the manager's own block     *)
(* size if all of the group's attention backends take it, else the largest *)
(* size some backend lists that all take and that divides it.  The edits   *)
(* add a filter: a group with a DSA indexer also needs a number of states  *)
(* per block that DeepGEMM's paged MQA logits accept.                      *)
(*                                                                         *)
(* A backend lists sizes and MultipleOf(base) entries.  The parts of these *)
(* two functions that are vLLM's own are modelled as the edits quote them. *)
(***************************************************************************)
EXTENDS Integers, Sequences

CONSTANT Engine     \* engines: compute capability family and cache groups

Backend == [indexer : BOOLEAN, ints : SUBSET (Nat \ {0}), bases : SUBSET (Nat \ {0})]

Group == [manager : Nat \ {0}, tokensPerState : Nat, fp4 : BOOLEAN,
          backends : SUBSET Backend]

ASSUME EngineAssumption ==
    \A e \in Engine : e.family \in Nat /\ e.groups \in Seq(Group)

\* The indexer backends list their sizes one by one (edit of indexer.py).
ASSUME IndexerAssumption ==
    \A e \in Engine : \A i \in 1..Len(e.groups) :
        \A b \in e.groups[i].backends : b.indexer => b.bases = {}

VARIABLES
    engine,
    gid,        \* the group being negotiated
    left,       \* listed sizes not yet looked at
    sizes,      \* kernel_block_sizes so far
    stage

vars == <<engine, gid, left, sizes, stage>>

-----------------------------------------------------------------------------
(***************************************************************************)
(* The conditions of the code                                              *)
(***************************************************************************)
Divides(a, n) == n % a = 0

Supports(b, size) == size \in b.ints \/ \E base \in b.bases : Divides(base, size)

\* block_size_is_supported
Supported(g, size) == \A b \in g.backends : Supports(b, size)

\* Mutant: DeepGEMM's two predicates are taken for one.
AnyIndexerStates(family, fp4) == {64, 32}

\* deepgemm_indexer_states
IndexerStates(family, fp4) == IF family = 120 /\ ~fp4 THEN {64} ELSE {64, 32}

\* dsa_indexer_state_filter is not None
IsFiltered(g) == g.tokensPerState > 0 /\ \E b \in g.backends : b.indexer

\* get_num_kernel_states(size) in legal
Accepts(g, size) ==
    IsFiltered(g) =>
        (size \div g.tokensPerState) \in IndexerStates(engine.family, g.fp4)

\* all_int_supported_sizes
Listed(g) == UNION { b.ints : b \in g.backends }

CurrentGroup == engine.groups[gid]

KeepsManagerSize(g) == Supported(g, g.manager) /\ Accepts(g, g.manager)

IsCommon(g, size) ==
    /\ Divides(size, g.manager)
    /\ Supported(g, size)
    /\ Accepts(g, size)

\* Mutant: sorted() without reverse=True.
IsSmallest(size) == size \in left /\ \A other \in left : size <= other

\* The loop goes through the listed sizes from the largest down.
IsNext(size) == size \in left /\ \A other \in left : other <= size

-----------------------------------------------------------------------------
Init ==
    /\ engine \in Engine
    /\ gid = 1
    /\ left = {}
    /\ sizes = <<>>
    /\ stage = "group"

InGroup == stage = "group" /\ gid <= Len(engine.groups)

Choose(size) ==
    /\ sizes' = Append(sizes, size)
    /\ gid' = gid + 1
    /\ left' = {}
    /\ stage' = "group"
    /\ UNCHANGED engine

\* Case 1: the manager's block size as it is.
KeepManagerSize ==
    /\ InGroup
    /\ KeepsManagerSize(CurrentGroup)
    /\ Choose(CurrentGroup.manager)

TryListedSizes ==
    /\ InGroup
    /\ ~KeepsManagerSize(CurrentGroup)
    /\ left' = Listed(CurrentGroup)
    /\ stage' = "listed"
    /\ UNCHANGED <<engine, gid, sizes>>

\* Mutant: the first size that does not fit ends the search.
SkipSizeRaising(size) ==
    /\ stage = "listed"
    /\ IsNext(size)
    /\ ~IsCommon(CurrentGroup, size)
    /\ stage' = "error"
    /\ UNCHANGED <<engine, gid, left, sizes>>

SkipSize(size) ==
    /\ stage = "listed"
    /\ IsNext(size)
    /\ ~IsCommon(CurrentGroup, size)
    /\ left' = left \ {size}
    /\ UNCHANGED <<engine, gid, sizes, stage>>

TakeSize(size) ==
    /\ stage = "listed"
    /\ IsNext(size)
    /\ IsCommon(CurrentGroup, size)
    /\ Choose(size)

\* ValueError: no common block size.
NoCommonSize ==
    /\ stage = "listed"
    /\ left = {}
    /\ stage' = "error"
    /\ UNCHANGED <<engine, gid, left, sizes>>

Finish ==
    /\ stage = "group"
    /\ gid > Len(engine.groups)
    /\ stage' = "ready"
    /\ UNCHANGED <<engine, gid, left, sizes>>

Negotiate ==
    \/ KeepManagerSize
    \/ TryListedSizes
    \/ \E size \in left : SkipSize(size)
    \/ \E size \in left : TakeSize(size)
    \/ NoCommonSize
    \/ Finish

Ended == stage \in {"ready", "error"} /\ UNCHANGED vars

Next == Negotiate \/ Ended

Spec == Init /\ [][Next]_vars

-----------------------------------------------------------------------------
(***************************************************************************)
(* Properties                                                              *)
(***************************************************************************)
TypeOK ==
    /\ engine \in Engine
    /\ gid \in 1..(Len(engine.groups) + 1)
    /\ left \subseteq Nat \ {0}
    /\ sizes \in Seq(Nat \ {0})
    /\ Len(sizes) = gid - 1
    /\ stage \in {"group", "listed", "ready", "error"}

\* A size a group may run at, by what its kernels need and nothing else.
Admissible(g, size) ==
    /\ Divides(size, g.manager)
    /\ Supported(g, size)
    /\ Accepts(g, size)

Offered(g) == Listed(g) \union {g.manager}

\* Every group gets the largest admissible size that its manager or one of
\* its backends names.
LargestAdmissible ==
    \A i \in 1..Len(sizes) :
        LET g == engine.groups[i] IN
        /\ sizes[i] \in Offered(g)
        /\ Admissible(g, sizes[i])
        /\ \A s \in Offered(g) : Admissible(g, s) => s <= sizes[i]

\* The ValueError is true: no divisor of the manager's block size, listed or
\* only implied by a MultipleOf, would have done.
FailsOnlyWhenNone ==
    stage = "error" =>
        \A s \in 1..CurrentGroup.manager : ~Admissible(CurrentGroup, s)

\* What the edits are for: no indexer group runs at a number of states that
\* DeepGEMM asserts against (the two predicates quoted in
\* deepgemm_indexer_states).
DeepGemmAsserts(family, fp4, states) ==
    states \in {32, 64} /\ (family = 120 => states = 64 \/ (fp4 /\ states = 32))

NeverAsserts ==
    \A i \in 1..Len(sizes) :
        LET g == engine.groups[i] IN
        (\E b \in g.backends : b.indexer) /\ g.tokensPerState > 0 =>
            DeepGemmAsserts(engine.family, g.fp4, sizes[i] \div g.tokensPerState)

=============================================================================
