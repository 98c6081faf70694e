--------------------------- MODULE OffloadBudget ---------------------------
(***************************************************************************)
(* What weight offloading promises, whatever order the loader walks the    *)
(* model in: parameters move to host memory one at a time, each at most    *)
(* once, only while the budget given by --cpu-offload-gb is not spent, and *)
(* the spent counter is the size of what was moved.  Module Offload        *)
(* implements it.                                                          *)
(***************************************************************************)
EXTENDS Naturals

CONSTANTS
    Param,      \* the model's parameters
    Size        \* Size[p]: the bytes of parameter p

VARIABLES
    limit,      \* the budget in bytes
    placed,     \* the parameters in host memory because of the budget
    spent       \* bytes charged to the budget

abstractVars == <<limit, placed, spent>>

InitPlacement ==
    /\ limit \in Nat
    /\ placed = {}
    /\ spent = 0

Place(p) ==
    /\ spent < limit
    /\ p \notin placed
    /\ placed' = placed \union {p}
    /\ spent' = spent + Size[p]
    /\ UNCHANGED limit

NextPlacement == \E p \in Param : Place(p)

PlacementSpec == InitPlacement /\ [][NextPlacement]_abstractVars

=============================================================================
