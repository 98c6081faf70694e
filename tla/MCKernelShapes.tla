--------------------------- MODULE MCKernelShapes ---------------------------
(***************************************************************************)
(* Every launch option of the V4.1 presets and their neighbours: block     *)
(* sizes around the one preflight asks for, towers whose rows end on,      *)
(* below and above an instantiated width.  Beside them engines of other    *)
(* models: every group of one or two of six backends, at every manager     *)
(* size and number of tokens per state of V4 and V4.1.                     *)
(***************************************************************************)
EXTENDS KernelShapes

\* Every flag, on a machine where nothing else is wrong.
Flags ==
    [ family : {90, 120}, fp4 : BOOLEAN, blockSize : {32, 64, 128},
      ratios : {{0, 1, 2}, {0, 2}, {1, 2}},
      imageTokens : {0, 64, 1024, 1920, 1921}, textOnly : BOOLEAN,
      imageLimit : {"zero", "some", "unknown"},
      runtimeDecode : BOOLEAN, wideDual : BOOLEAN, broken : {{}}, avail : {512},
      tp : {8}, ep : {TRUE}, offload : {0}, exact : {FALSE}, staging : {FALSE},
      engramOffload : {TRUE}, engram : {264}, eager : {FALSE}, v41 : BOOLEAN ]

\* The presets' flags, on a machine with up to two things wrong.
Faulty ==
    [ family : {120}, fp4 : {FALSE}, blockSize : {64}, ratios : {{0, 1, 2}},
      imageTokens : {1024}, textOnly : BOOLEAN, imageLimit : {"some"},
      runtimeDecode : BOOLEAN, wideDual : {TRUE},
      broken : {{}} \union { {f, g} : f, g \in Fault }, avail : {100, 480, 512},
      tp : {8}, ep : {TRUE}, offload : {0, 12}, exact : BOOLEAN, staging : {FALSE},
      engramOffload : BOOLEAN, engram : {264}, eager : {FALSE}, v41 : {TRUE} ]

B(indexer, ints, bases) == [indexer |-> indexer, ints |-> ints, bases |-> bases]

Backends ==
    { B(TRUE, {64, 128}, {}), B(TRUE, {128}, {}), B(FALSE, {64, 128}, {}),
      B(FALSE, {16, 256}, {32}), B(FALSE, {}, {32}), B(FALSE, {32}, {48}) }

Groups ==
    { [manager |-> m, tokensPerState |-> t, fp4 |-> f, backends |-> b] :
        m \in {32, 64, 96, 128, 256}, t \in {0, 1, 2, 4}, f \in BOOLEAN,
        b \in { s \in SUBSET Backends : Cardinality(s) \in 1..2 } }

MCEngine ==
    { V41Engine(o) : o \in Flags \union Faulty }
      \union { [family |-> f, groups |-> <<SwaGroup, g>>] : f \in {90, 120}, g \in Groups }

=============================================================================
