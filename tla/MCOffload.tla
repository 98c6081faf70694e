----------------------------- MODULE MCOffload -----------------------------
(***************************************************************************)
(* A small model for TLC: a tower outside the decoder, two decoder layers  *)
(* and a head that is tied to the tower.                                   *)
(***************************************************************************)
EXTENDS HostMemory

CONSTANTS
    embed, w13, w2, w13b, w2b, norm, none, unset

MCParam == {embed, w13, w2, w13b, w2b, norm}

\* Two layers of four experts on two ranks: w13 has 96 bytes, w2 48.  With 50
\* the least exact allocation, w2 takes 64 whether or not w13's 96 take 100
\* instead of 128.
MCDims == [layers |-> 2, experts |-> 4, hidden |-> 6, inter |-> 8]

MCSize == [p \in MCParam |->
    CASE p = embed -> 56 [] p \in {w13, w13b} -> 96 [] p \in {w2, w2b} -> 48
      [] p = norm -> 8]

\* Around the sums a walk goes through.
MCBudgets == {0, 1, 48, 49, 96, 97, 144, 145, 192, 193, 240, 241, 288, 289}

MCShard == {"a", "b"}

T(kind, size, shard) == [kind |-> kind, bytes |-> size, shard |-> shard]

MCTensor ==
    << T("engram", 160, "a"), T("engram", 20, "a"), T("proj", 10, "a"),
       T("expert", 612, "b"), T("vision", 30, "b"), T("dense", 200, "a") >>

MCAvailable == {100, 200, 300, 400, 500, 600, 800}

\* Expert parallelism and tensor parallelism that fills its tile (w2 has 48
\* bytes); tensor parallelism that fills half of it (24 bytes, padded to 48);
\* a config.json without the dimensions.
Sharding ==
    { <<TRUE, 8, 17, TRUE>>, <<FALSE, 4, 17, TRUE>>, <<FALSE, 8, 8, TRUE>>,
      <<FALSE, 4, 17, FALSE>> }

\* Plans that need nothing offloaded, one matrix, several, and more than
\* there are; hosts that are unknown, too small, and large enough for some.
MCPlans ==
    { [ ep |-> s[1], tile |-> s[2], quarterBits |-> s[3], known |-> s[4],
        usable |-> u, host |-> h, engramOnGpu |-> g, exact |-> x, vision |-> v,
        margin |-> TRUE, offload |-> o, missing |-> m ] :
      s \in Sharding, u \in {450, 330, 233, 100}, h \in {0, 300, 600, 1200},
      g \in BOOLEAN, x \in BOOLEAN, v \in BOOLEAN, o \in {-1} \union MCBudgets,
      m \in {{}, {"a"}} }

MCModules == << <<embed>>, <<w13, w2>>, <<>>, <<w13b, norm, w2b>>, <<embed>> >>

MCExperts ==
    << [module |-> 2, w13 |-> 1, w2 |-> 2], [module |-> 4, w13 |-> 1, w2 |-> 3] >>

MCLayer == {0, 1}

MCLayerOf == <<none, 0, none, 1, none>>

Filters == (SUBSET MCLayer) \union {unset}

Selections == {MCParam, {w13, w2, w13b, w2b}, {w2, w2b}, {}}

OnCpu == {{}, {embed}, {w13b}, {w2, norm}}

\* Every combination of the environment flags.
MCConfig ==
    [ singleCopy : BOOLEAN, exactPinned : BOOLEAN, uva : BOOLEAN,
      allowed : Filters, budget : MCBudgets, selected : Selections,
      onCpu : OnCpu ]

=============================================================================
