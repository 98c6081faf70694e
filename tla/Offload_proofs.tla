--------------------------- MODULE Offload_proofs ---------------------------
(***************************************************************************)
(* Theorems about module Offload, for every model, every parameter size    *)
(* and every setting.                                                      *)
(***************************************************************************)
EXTENDS HostMemory, SumTheorems

USE SizeAssumption, ModuleAssumption, ConfigAssumption

\* While one parameter's buffer is being filled and published, that parameter
\* has not been moved yet and the budget is still open; and everything moved
\* so far is recognised by the loop's own check.  The two together are what
\* makes "at most once" and the overshoot bound inductive.
MoveInProgress ==
    stage \in {"copy", "publish"} =>
        /\ InModule
        /\ Current \notin offloaded
        /\ ~BudgetSpent

ModuleOpen == stage = "params" => mod \in Modules

MovedIsRecognised == \A p \in offloaded : AlreadyPlaced(p)

IInv ==
    /\ TypeOK
    /\ ModuleOpen
    /\ MoveInProgress
    /\ MovedIsRecognised
    /\ Overshoot

\* The current parameter of a module is a parameter, of positive size.
LEMMA CurrentParam ==
    ASSUME InModule, par \in Nat \ {0}
    PROVE  Current \in Param /\ Size[Current] \in Nat \ {0}
BY DEF InModule, Current, Modules

\* Settings are what register() reads: a budget is a natural number.
LEMMA ConfTyped ==
    ASSUME conf \in Config
    PROVE  conf \in ConfigType /\ conf.budget \in Nat
BY DEF ConfigType

\* Charging one more parameter while the budget is open keeps the overshoot
\* below that parameter's size.
LEMMA ChargeOne ==
    ASSUME bytes \in Nat, conf.budget \in Nat, ~BudgetSpent,
           NEW p \in Param, bytes' = bytes + Size[p], conf' = conf,
           offloaded' = offloaded \union {p}
    PROVE  Overshoot' /\ bytes' \in Nat
<1>1. Size[p] \in Nat OBVIOUS
<1>2. bytes' - Size[p] < conf'.budget
  BY <1>1 DEF BudgetSpent
<1>3. QED BY <1>1, <1>2 DEF Overshoot

\* A process that has not registered its hook keeps the invariant.
LEMMA InitEstablishes == Init => IInv
<1> SUFFICES ASSUME Init PROVE IInv
  OBVIOUS
<1>1. TypeOK
  <2>1. did \in BOOLEAN BY Zenon DEF Init
  <2>2. dev \in [Param -> Device] BY DEF Init, Device
  <2>3. mod \in 1..(NumModules + 1) BY DEF Init
  <2>4. QED BY <2>1, <2>2, <2>3 DEF Init, TypeOK, Stage
<1>2. QED
  BY <1>1 DEF Init, IInv, MoveInProgress, ModuleOpen, MovedIsRecognised, Overshoot

\* So does every step: one part of the proof per action.
LEMMA StepPreserves == IInv /\ [Next]_vars => IInv'
<1> SUFFICES ASSUME IInv, [Next]_vars PROVE IInv'
  OBVIOUS
<1> USE DEF IInv
<1>0. conf.budget \in Nat
  BY ConfTyped DEF TypeOK
<1>1. CASE RefuseSettings
  BY <1>1 DEF RefuseSettings, memory, TypeOK, Stage, MoveInProgress,
     MovedIsRecognised, ModuleOpen, AlreadyPlaced, Overshoot
<1>2. CASE Register
  BY <1>2 DEF Register, memory, TypeOK, Stage, MoveInProgress,
     MovedIsRecognised, ModuleOpen, AlreadyPlaced, Overshoot
<1>3. CASE SkipModule
  BY <1>3 DEF SkipModule, ReturnModule, memory, TypeOK, Stage, Modules,
     MoveInProgress, MovedIsRecognised, ModuleOpen, AlreadyPlaced, Overshoot
<1>4. CASE EnterModule
  <2>1. did' \in BOOLEAN
    BY <1>4, Zenon DEF EnterModule
  <2>2. TypeOK'
    BY <1>4, <2>1 DEF EnterModule, memory, TypeOK, Stage
  <2>3. QED
    BY <1>4, <2>2 DEF EnterModule, memory, TypeOK, MoveInProgress,
       MovedIsRecognised, ModuleOpen, AlreadyPlaced, Overshoot
<1>5. CASE LeaveModule
  BY <1>5 DEF LeaveModule, ReturnModule, memory, TypeOK, Stage, Modules,
     MoveInProgress, MovedIsRecognised, ModuleOpen, AlreadyPlaced, Overshoot
<1>6. CASE SkipParam
  BY <1>6 DEF SkipParam, memory, TypeOK, Stage, MoveInProgress,
     MovedIsRecognised, ModuleOpen, AlreadyPlaced, Overshoot
<1>7. ASSUME NEW p \in Param, AllocateHost(p) PROVE IInv'
  BY <1>7 DEF AllocateHost, MayMove, memory, TypeOK, Stage, MoveInProgress,
     MovedIsRecognised, ModuleOpen, AlreadyPlaced, Overshoot, InModule, Current,
     BudgetSpent
<1>8. ASSUME NEW p \in Param, AllocationFails(p) PROVE IInv'
  BY <1>8 DEF AllocationFails, MayMove, memory, TypeOK, Stage,
     MoveInProgress, MovedIsRecognised, ModuleOpen, AlreadyPlaced, Overshoot
<1>9. ASSUME NEW p \in Param, CopyToHost(p) PROVE IInv'
  BY <1>9 DEF CopyToHost, TypeOK, Stage, MoveInProgress, MovedIsRecognised, ModuleOpen,
     AlreadyPlaced, Overshoot, InModule, Current, BudgetSpent
<1>10. ASSUME NEW p \in Param, PublishView(p) PROVE IInv'
  <2>1. Overshoot' /\ bytes' \in Nat
    BY <1>10, <1>0, ChargeOne DEF PublishView, MoveInProgress, TypeOK
  <2>2. TypeOK'
    BY <1>10, <2>1 DEF PublishView, TypeOK, Stage, Device
  <2>3. MovedIsRecognised'
    BY <1>10 DEF PublishView, MovedIsRecognised, ModuleOpen, AlreadyPlaced, TypeOK
  <2>4. MoveInProgress' /\ ModuleOpen'
    BY <1>10 DEF PublishView, MoveInProgress, ModuleOpen, InModule
  <2>5. QED BY <2>1, <2>2, <2>3, <2>4
<1>11. ASSUME NEW p \in Param, StockOffloadParam(p) PROVE IInv'
  <2>1. Overshoot' /\ bytes' \in Nat
    BY <1>11, <1>0, ChargeOne DEF StockOffloadParam, MayMove, TypeOK
  <2>2. TypeOK'
    BY <1>11, <2>1 DEF StockOffloadParam, TypeOK, Stage, Device
  <2>3. MovedIsRecognised'
    BY <1>11 DEF StockOffloadParam, MovedIsRecognised, ModuleOpen, AlreadyPlaced, TypeOK
  <2>4. MoveInProgress' /\ ModuleOpen'
    BY <1>11 DEF StockOffloadParam, MayMove, MoveInProgress, ModuleOpen,
       InModule
  <2>5. QED BY <2>1, <2>2, <2>3, <2>4
<1>12. CASE FinishLoad
  BY <1>12 DEF FinishLoad, memory, TypeOK, Stage, MoveInProgress,
     MovedIsRecognised, ModuleOpen, AlreadyPlaced, Overshoot
<1>13. CASE UNCHANGED vars
  BY <1>13 DEF vars, TypeOK, MoveInProgress, MovedIsRecognised, ModuleOpen,
     AlreadyPlaced, Overshoot, InModule, Current, BudgetSpent
<1>14. QED
  BY <1>1, <1>2, <1>3, <1>4, <1>5, <1>6, <1>7, <1>8, <1>9, <1>10, <1>11,
     <1>12, <1>13 DEF Next, Step, MoveParam, Ended

\* IInv holds in every state of every load.
LEMMA Invariance == Spec => []IInv
BY InitEstablishes, StepPreserves, PTL DEF Spec

\* Every variable keeps its type in every load.
THEOREM TypeCorrect == Spec => []TypeOK
<1>1. IInv => TypeOK BY DEF IInv
<1>2. QED BY <1>1, Invariance, PTL

\* For every model and budget, what is charged exceeds the budget by less
\* than one parameter that was really moved.
THEOREM BudgetOvershoot == Spec => []Overshoot
<1>1. IInv => Overshoot BY DEF IInv
<1>2. QED BY <1>1, Invariance, PTL

\* What is known of the parameters wherever the load stands: those built on the
\* CPU stay there, the others are on the GPU until they are moved, and a copy
\* that is not published is the current parameter's.
Placed ==
    /\ \A p \in conf.onCpu : dev[p] = "cpu" /\ p \notin offloaded
    /\ \A p \in Param \ conf.onCpu : p \in offloaded <=> dev[p] # "cuda"
    /\ offloaded \subseteq filled
    /\ filled \subseteq offloaded \union (IF stage = "publish" THEN {Current} ELSE {})
    /\ stage \in {"copy", "publish"} => dev[Current] = "cuda"
    /\ stage = "publish" => Current \in filled

Charged == IsFiniteSet(offloaded) /\ bytes = SumOver(Size, offloaded)

\* Moving a parameter that was not moved charges it once.
LEMMA ChargedOnce ==
    ASSUME TypeOK, Charged, NEW p \in Param \ offloaded,
           bytes' = bytes + Size[p], offloaded' = offloaded \union {p}
    PROVE  Charged'
<1>1. \A q \in offloaded \union {p} : Size[q] \in Int BY DEF TypeOK
<1>2. SumOver(Size, offloaded \union {p}) = SumOver(Size, offloaded) + Size[p]
  BY <1>1, SumAdd DEF Charged
<1>3. IsFiniteSet(offloaded \union {p}) BY FS_AddElement DEF Charged
<1>4. QED BY <1>2, <1>3 DEF Charged

\* For every model, every sharing of parameters and every place an allocation
\* may fail at, what is charged is what was moved.
THEOREM MovedIsCharged == Spec => []ChargedAsMoved
<1>1. Init => Placed /\ Charged
  <2> SUFFICES ASSUME Init PROVE Placed /\ Charged OBVIOUS
  <2>1. conf.onCpu \subseteq Param BY ConfTyped DEF Init, ConfigType
  <2>2. Placed BY <2>1 DEF Init, Placed
  <2>3. Charged BY FS_EmptySet, SumEmpty DEF Init, Charged
  <2>4. QED BY <2>2, <2>3
<1>2. IInv /\ Placed /\ Charged /\ [Next]_vars => Placed' /\ Charged'
  <2> SUFFICES ASSUME IInv, Placed, Charged, [Next]_vars
               PROVE  Placed' /\ Charged'
    OBVIOUS
  <2> USE DEF IInv
  <2>0. conf.onCpu \subseteq Param BY ConfTyped DEF TypeOK, ConfigType
  <2>1. CASE /\ stage' \notin {"copy", "publish"} /\ stage \notin {"copy", "publish"}
             /\ UNCHANGED <<conf, dev, filled, bytes, offloaded>>
    BY <2>1 DEF Placed, Charged
  <2>2. ASSUME NEW p \in Param, AllocateHost(p) PROVE Placed' /\ Charged'
    <3>1. /\ stage = "params" /\ stage' = "copy" /\ p = Current /\ dev[p] # "cpu"
          /\ p \notin marked /\ Current' = Current
          /\ UNCHANGED <<conf, dev, filled, bytes, offloaded>>
      BY <2>2 DEF AllocateHost, MayMove, AlreadyPlaced, Current, memory
    <3>2. p \notin offloaded BY <3>1 DEF MovedIsRecognised, AlreadyPlaced
    <3>3. dev[p] = "cuda" BY <3>1, <3>2 DEF Placed
    <3>4. QED BY <3>1, <3>3 DEF Placed, Charged
  <2>3. ASSUME NEW p \in Param, CopyToHost(p) PROVE Placed' /\ Charged'
    <3>1. /\ stage = "copy" /\ stage' = "publish" /\ p = Current /\ Current' = Current
          /\ filled' = filled \union {p}
          /\ UNCHANGED <<conf, dev, bytes, offloaded>>
      BY <2>3 DEF CopyToHost, Current
    <3>2. QED BY <3>1 DEF Placed, Charged
  <2>4. ASSUME NEW p \in Param, PublishView(p) PROVE Placed' /\ Charged'
    <3>1. /\ stage = "publish" /\ stage' = "params" /\ p = Current
          /\ dev' = [dev EXCEPT ![p] = "uva"] /\ bytes' = bytes + Size[p]
          /\ offloaded' = offloaded \union {p}
          /\ UNCHANGED <<conf, filled>>
      BY <2>4 DEF PublishView
    <3>2. p \notin offloaded /\ p \in filled /\ p \notin conf.onCpu
      BY <3>1 DEF MoveInProgress, Placed
    <3>3. \A q \in Param : dev'[q] = IF q = p THEN "uva" ELSE dev[q]
      BY <3>1 DEF TypeOK
    <3>4. Placed' BY <2>0, <3>1, <3>2, <3>3 DEF Placed
    <3>5. QED BY <3>1, <3>2, <3>4, ChargedOnce
  <2>5. ASSUME NEW p \in Param, StockOffloadParam(p) PROVE Placed' /\ Charged'
    <3>1. /\ stage = "params" /\ stage' = stage /\ dev[p] # "cpu" /\ p \notin marked
          /\ dev' = [dev EXCEPT ![p] = IF conf.uva THEN "uva" ELSE "cpu"]
          /\ filled' = filled \union {p} /\ bytes' = bytes + Size[p]
          /\ offloaded' = offloaded \union {p} /\ conf' = conf
      BY <2>5 DEF StockOffloadParam, MayMove, AlreadyPlaced
    <3>2. p \notin offloaded /\ p \notin conf.onCpu
      BY <3>1 DEF MovedIsRecognised, AlreadyPlaced, Placed
    <3>3. \A q \in Param :
            dev'[q] = IF q = p THEN (IF conf.uva THEN "uva" ELSE "cpu") ELSE dev[q]
      BY <3>1 DEF TypeOK
    <3>4. Placed' BY <2>0, <3>1, <3>2, <3>3 DEF Placed
    <3>5. QED BY <3>1, <3>2, <3>4, ChargedOnce
  <2>6. CASE UNCHANGED vars
    BY <2>6 DEF vars, Placed, Charged, Current
  <2>7. QED
    BY <2>1, <2>2, <2>3, <2>4, <2>5, <2>6
       DEF Next, Step, MoveParam, Ended, RefuseSettings, Register, SkipModule,
       EnterModule, LeaveModule, ReturnModule, SkipParam, AllocationFails, MayMove,
       FinishLoad, memory
<1>3. IInv /\ Placed /\ Charged => ChargedAsMoved
  <2> SUFFICES ASSUME IInv, Placed, Charged PROVE ChargedAsMoved OBVIOUS
  <2>1. bytes = MapThenSumSet(LAMBDA q : Size[q], offloaded)
    BY SumIsFold DEF Charged
  <2>2. QED BY <2>1 DEF Placed, ChargedAsMoved
<1>4. QED BY <1>1, <1>2, <1>3, Invariance, PTL DEF Spec

\* The loader implements the abstract budget: every step of every load is a
\* placement the abstract specification allows, or changes nothing it sees.
THEOREM Implementation == Spec => ImplementsBudget
<1>1. Init => Budget!InitPlacement
  BY ConfTyped DEF Init, Budget!InitPlacement
<1>2. IInv /\ [Next]_vars => [Budget!NextPlacement]_(Budget!abstractVars)
  <2> SUFFICES ASSUME IInv, Next
               PROVE  [Budget!NextPlacement]_(Budget!abstractVars)
    BY DEF vars, Budget!abstractVars
  <2> USE DEF IInv
  <2>0. conf.budget \in Nat
    BY ConfTyped DEF TypeOK
  <2>1. ASSUME NEW p \in Param, PublishView(p)
        PROVE  Budget!Place(p)
    BY <2>1, <2>0 DEF PublishView, MoveInProgress, BudgetSpent, TypeOK,
       Budget!Place
  <2>2. ASSUME NEW p \in Param, StockOffloadParam(p)
        PROVE  Budget!Place(p)
    BY <2>2, <2>0 DEF StockOffloadParam, MayMove, MovedIsRecognised,
       BudgetSpent, TypeOK, Budget!Place
  <2>3. CASE UNCHANGED <<conf, offloaded, bytes>>
    BY <2>3 DEF Budget!abstractVars
  <2>4. QED
    BY <2>1, <2>2, <2>3 DEF Next, Step, MoveParam, Ended, RefuseSettings,
       Register, SkipModule, EnterModule, LeaveModule, SkipParam,
       AllocateHost, AllocationFails, CopyToHost, FinishLoad, memory, vars,
       Budget!NextPlacement
<1>3. QED
  BY <1>1, <1>2, Invariance, PTL
  DEF Spec, ImplementsBudget, Budget!PlacementSpec

-----------------------------------------------------------------------------
(***************************************************************************)
(* Readability.  Moved weights are where the settings say (R1, R2), the    *)
(* plugin's own path runs only with UVA (R3), and without UVA a module     *)
(* whose weights moved is either still open, with did recording it, or     *)
(* wrapped (R4).  R4 is about modules that share no parameter: vLLM wraps  *)
(* the module that moved a parameter, not another one tied to it.          *)
(***************************************************************************)
R1 == \A p \in Param \ offloaded :
        dev[p] = IF p \in conf.onCpu THEN "cpu" ELSE "cuda"

R2 == \A p \in offloaded :
        p \in filled /\ dev[p] = IF conf.uva THEN "uva" ELSE "cpu"

R3 == /\ stage \in {"copy", "publish"} => conf.uva
      /\ stage = "publish" => Current \in filled

R4 == ~conf.uva =>
        \A m \in Modules : Untied(m) /\ Holds(m) \cap offloaded # {} =>
            \/ m < mod /\ m \in wrapped
            \/ m = mod /\ did /\ stage \in {"params", "failed"}

RInv == R1 /\ R2 /\ R3 /\ R4

\* Every step keeps moved weights where the settings say.
LEMMA ReadableStep ==
    ASSUME IInv, RInv, [Next]_vars
    PROVE  RInv'
<1> USE DEF IInv, RInv
<1>1. ASSUME UNCHANGED memory, UNCHANGED conf,
             stage' \notin {"copy", "publish"}
      PROVE  R1' /\ R2' /\ R3'
  BY <1>1 DEF memory, R1, R2, R3
<1>2. CASE RefuseSettings
  BY <1>1, <1>2 DEF RefuseSettings, memory, R4
<1>3. CASE Register
  BY <1>1, <1>3 DEF Register, memory, R4
<1>4. CASE SkipModule
  BY <1>1, <1>4 DEF SkipModule, ReturnModule, memory, R4, Modules
<1>5. CASE EnterModule
  BY <1>1, <1>5 DEF EnterModule, memory, R4
<1>6. CASE LeaveModule
  BY <1>1, <1>6 DEF LeaveModule, ReturnModule, memory, R4, TypeOK, Modules
<1>7. CASE SkipParam
  BY <1>1, <1>7 DEF SkipParam, memory, R4
<1>8. ASSUME NEW p \in Param, AllocateHost(p) PROVE RInv'
  BY <1>8 DEF AllocateHost, SingleCopyPath, memory, R1, R2, R3, R4
<1>9. ASSUME NEW p \in Param, AllocationFails(p) PROVE RInv'
  BY <1>1, <1>9 DEF AllocationFails, MayMove, memory, R4
<1>10. ASSUME NEW p \in Param, CopyToHost(p) PROVE RInv'
  BY <1>10 DEF CopyToHost, Current, R1, R2, R3, R4
<1>11. ASSUME NEW p \in Param, PublishView(p) PROVE RInv'
  BY <1>11 DEF PublishView, TypeOK, R1, R2, R3, R4
<1>12. ASSUME NEW p \in Param, StockOffloadParam(p) PROVE RInv'
  <2>1. R1' /\ R2' /\ R3'
    BY <1>12 DEF StockOffloadParam, MayMove, TypeOK, R1, R2, R3
  <2>2. ASSUME NEW m \in Modules, Untied(m), p \in Holds(m) PROVE m = mod
    <3>1. mod \in Modules /\ p \in Holds(mod)
      BY <1>12 DEF StockOffloadParam, MayMove, InModule, Current, Holds
    <3>2. m # mod => Holds(m) \cap Holds(mod) = {}
      BY <2>2, <3>1 DEF Untied
    <3>3. QED
      BY <2>2, <3>1, <3>2
  <2>3. R4'
    BY <1>12, <2>2 DEF StockOffloadParam, MayMove, R4, Holds
  <2>4. QED BY <2>1, <2>3
<1>13. CASE FinishLoad
  BY <1>1, <1>13 DEF FinishLoad, memory, R4
<1>14. CASE UNCHANGED vars
  BY <1>14 DEF vars, R1, R2, R3, R4, Current
<1>15. QED
  BY <1>2, <1>3, <1>4, <1>5, <1>6, <1>7, <1>8, <1>9, <1>10, <1>11, <1>12,
     <1>13, <1>14 DEF Next, Step, MoveParam, Ended

\* Every module that shares no parameter can read its weights once its call
\* has returned: through a CUDA view where UVA is on, and through a
\* wrapped forward where it is off, for every budget, filter and flag.
THEOREM ForwardReadsWeights ==
    Spec => []ReturnedModulesReadable
<1>1. Init => RInv
  BY DEF Init, RInv, R1, R2, R3, R4
<1>2. IInv /\ RInv /\ [Next]_vars => RInv'
  BY ReadableStep
<1>3. IInv /\ RInv => ReturnedModulesReadable
  <2> SUFFICES ASSUME IInv, RInv, NEW m \in 1..(mod - 1), Untied(m),
                      NEW i \in 1..Len(ModuleParams[m]),
                      NEW p, p = ModuleParams[m][i]
               PROVE  /\ dev[p] = "uva" => conf.uva /\ p \in filled
                      /\ dev[p] = "cpu" /\ p \notin conf.onCpu => m \in wrapped
    BY DEF ReturnedModulesReadable, Readable
  <2>1. m \in Modules /\ m < mod /\ p \in Param /\ p \in Holds(m)
    BY DEF IInv, TypeOK, Modules, Holds
  <2>2. CASE p \in offloaded
    <3>1. Holds(m) \cap offloaded # {} /\ m # mod
      BY <2>1, <2>2 DEF IInv, TypeOK, Modules
    <3>2. ~conf.uva => m \in wrapped
      BY <2>1, <3>1 DEF RInv, R4
    <3>3. QED
      BY <2>2, <3>2 DEF RInv, R2
  <2>3. CASE p \notin offloaded
    BY <2>1, <2>3 DEF RInv, R1
  <2>4. QED
    BY <2>2, <2>3
<1>4. QED
  BY <1>1, <1>2, <1>3, Invariance, PTL DEF Spec

-----------------------------------------------------------------------------
(***************************************************************************)
(* The placement.                                                          *)
(***************************************************************************)
\* Offered and OfferedBefore, of the settings c.
Unfiltered(c, m) ==
    c.allowed = NoFilter \/ LayerOf[m] = NoLayer \/ LayerOf[m] \in c.allowed

Offers(c, m, i) ==
    /\ Unfiltered(c, m)
    /\ ModuleParams[m][1] \notin c.onCpu
    /\ ModuleParams[m][i] \notin c.onCpu
    /\ ModuleParams[m][i] \in c.selected

Places(m) == 1..Len(ModuleParams[m])

OffersBefore(c, m, i) ==
    { q \in Param :
        \E n \in Modules : \E j \in Places(n) :
            /\ q = ModuleParams[n][j]
            /\ Offers(c, n, j)
            /\ n < m \/ (n = m /\ j < i) }

\* A position is a module and a place in its parameters.
LEMMA PositionIs ==
    \A x : x \in Position <=> \E n \in Modules : \E j \in Places(n) : x = <<n, j>>
BY DEF Position, Places

\* At every place of a module there is a parameter.
LEMMA PlacesAre ==
    ASSUME NEW m \in Modules, NEW i \in Places(m)
    PROVE  ModuleParams[m][i] \in Param /\ m \in Nat /\ i \in Nat
BY DEF Places, Modules

\* Offers is Offered, of the settings of this load.
LEMMA OfferedIs ==
    ASSUME NEW m, NEW i
    PROVE  Offered(<<m, i>>) <=> Offers(conf, m, i)
BY DEF Offered, Offers, Unfiltered, At

\* OffersBefore is OfferedBefore, of the settings of this load.
LEMMA OfferedBeforeIs ==
    ASSUME NEW m, NEW i
    PROVE  OfferedBefore(<<m, i>>) = OffersBefore(conf, m, i)
<1>1. ASSUME NEW q, q \in OfferedBefore(<<m, i>>)
      PROVE  q \in OffersBefore(conf, m, i)
  <2>1. PICK x \in Position : q = At(x) /\ Offered(x) /\ Before(x, <<m, i>>)
    BY <1>1 DEF OfferedBefore
  <2>2. PICK n \in Modules : \E j \in Places(n) : x = <<n, j>>
    BY PositionIs
  <2>3. PICK j \in Places(n) : x = <<n, j>>
    BY <2>2
  <2>4. /\ q = ModuleParams[n][j] /\ Offers(conf, n, j)
        /\ n < m \/ (n = m /\ j < i)
    BY <2>1, <2>3, OfferedIs DEF At, Before
  <2> QED BY <2>4, PlacesAre DEF OffersBefore
<1>2. ASSUME NEW q, q \in OffersBefore(conf, m, i)
      PROVE  q \in OfferedBefore(<<m, i>>)
  <2>1. PICK n \in Modules : \E j \in Places(n) :
            /\ q = ModuleParams[n][j]
            /\ Offers(conf, n, j)
            /\ n < m \/ (n = m /\ j < i)
    BY <1>2 DEF OffersBefore
  <2>2. PICK j \in Places(n) :
            /\ q = ModuleParams[n][j]
            /\ Offers(conf, n, j)
            /\ n < m \/ (n = m /\ j < i)
    BY <2>1
  <2>3. <<n, j>> \in Position /\ Offered(<<n, j>>)
    BY <2>2, PositionIs, OfferedIs
  <2>4. At(<<n, j>>) = q /\ Before(<<n, j>>, <<m, i>>)
    BY <2>2 DEF At, Before
  <2> QED BY <2>3, <2>4 DEF OfferedBefore
<1> QED BY <1>1, <1>2

\* What is offered before a position is a finite set, of positive size.
LEMMA OffersFinite ==
    ASSUME NEW c, NEW m, NEW i
    PROVE  IsFiniteSet(OffersBefore(c, m, i))
<1> DEFINE F == [n \in Modules |-> {n} \X Places(n)]
           P == UNION {F[n] : n \in Modules}
           v == [x \in P |-> ModuleParams[x[1]][x[2]]]
           A == {v[x] : x \in P}
<1>1. IsFiniteSet(Modules)
  BY FS_Interval DEF Modules
<1>2. \A n \in Modules : IsFiniteSet(F[n])
  <2> SUFFICES ASSUME NEW n \in Modules PROVE IsFiniteSet({n} \X Places(n))
    OBVIOUS
  <2>1. Len(ModuleParams[n]) \in Nat
    OBVIOUS
  <2>2. IsFiniteSet(Places(n))
    BY <2>1, FS_Interval DEF Places
  <2>3. IsFiniteSet({n})
    BY FS_Singleton
  <2> QED BY <2>2, <2>3, FS_Product
<1>3. IsFiniteSet({F[n] : n \in Modules})
  <2> DEFINE S == Modules
  <2> HIDE DEF F, P, v, A, S
  <2>1. IsFiniteSet(S)
    BY <1>1 DEF S
  <2>2. IsFiniteSet({F[n] : n \in S})
    BY <2>1, ImageFinite
  <2> QED BY <2>2 DEF S
<1>4. IsFiniteSet(P)
  <2>1. \A T \in {F[n] : n \in Modules} : IsFiniteSet(T)
    BY <1>2
  <2> HIDE DEF F
  <2> QED BY <1>3, <2>1, FS_UNION
<1>5. IsFiniteSet(A)
  <2> HIDE DEF P, v
  <2> QED BY <1>4, ImageFinite
<1>6. OffersBefore(c, m, i) \in SUBSET A
  <2> SUFFICES ASSUME NEW q \in OffersBefore(c, m, i) PROVE q \in A
    OBVIOUS
  <2>1. PICK n \in Modules : \E j \in Places(n) : q = ModuleParams[n][j]
    BY DEF OffersBefore
  <2>2. PICK j \in Places(n) : q = ModuleParams[n][j]
    BY <2>1
  <2>3. <<n, j>> \in P
    OBVIOUS
  <2>4. v[<<n, j>>] = q
    BY <2>2, <2>3
  <2> QED BY <2>3, <2>4
<1> HIDE DEF A
<1> QED BY <1>5, <1>6, FS_Subset

\* One position further.
LEMMA OffersNext ==
    ASSUME NEW c, NEW m \in Modules, NEW i \in Places(m)
    PROVE  /\ Offers(c, m, i) =>
                OffersBefore(c, m, i + 1) =
                  OffersBefore(c, m, i) \union {ModuleParams[m][i]}
           /\ ~Offers(c, m, i) =>
                OffersBefore(c, m, i + 1) = OffersBefore(c, m, i)
<1>1. \A n \in Modules : \A j \in Places(n) :
         (n < m \/ (n = m /\ j < i + 1))
           <=> ((n < m \/ (n = m /\ j < i)) \/ (n = m /\ j = i))
  BY PlacesAre
<1>2. ModuleParams[m][i] \in Param
  BY PlacesAre
<1> QED BY <1>1, <1>2 DEF OffersBefore

\* From a position to the next module, where nothing on the way is offered.
LEMMA OffersSkip ==
    ASSUME NEW c, NEW m \in Modules, NEW i \in Nat,
           \A j \in Places(m) : Offers(c, m, j) => j < i
    PROVE  OffersBefore(c, m + 1, 1) = OffersBefore(c, m, i)
<1>1. \A n \in Modules : \A j \in Places(n) :
         /\ n \in Nat /\ j \in Nat /\ j >= 1
         /\ (n < m + 1 \/ (n = m + 1 /\ j < 1)) <=> (n < m \/ n = m)
  BY DEF Places, Modules
<1> QED BY <1>1 DEF OffersBefore

\* What is offered before a position is offered before a later one.
LEMMA OffersGrow ==
    ASSUME NEW c, NEW m \in Nat, NEW i \in Nat, NEW n \in Nat, NEW j \in Nat,
           m < n \/ (m = n /\ i <= j)
    PROVE  OffersBefore(c, m, i) \subseteq OffersBefore(c, n, j)
<1>1. \A k \in Modules : \A l \in Places(k) :
         (k < m \/ (k = m /\ l < i)) => (k < n \/ (k = n /\ l < j))
  BY PlacesAre
<1> QED BY <1>1 DEF OffersBefore
OffersSize(c, m, i) == SumOver(Size, OffersBefore(c, m, i))

\* ShouldMove, of the settings c.
Wanted(c, p) ==
    \E n \in Modules : \E j \in Places(n) :
        /\ ModuleParams[n][j] = p
        /\ Offers(c, n, j)
        /\ OffersSize(c, n, j) < c.budget

\* Wanted is ShouldMove, of the settings of this load.
LEMMA WantedIs ==
    ASSUME NEW p
    PROVE  ShouldMove(p) <=> Wanted(conf, p)
<1>1. ASSUME NEW n, NEW j
      PROVE  MapThenSumSet(LAMBDA q : Size[q], OfferedBefore(<<n, j>>))
               = OffersSize(conf, n, j)
  BY SumIsFold, OfferedBeforeIs DEF OffersSize
<1>2. ASSUME ShouldMove(p) PROVE Wanted(conf, p)
  <2>1. PICK x \in Position :
            /\ At(x) = p
            /\ Offered(x)
            /\ MapThenSumSet(LAMBDA q : Size[q], OfferedBefore(x)) < conf.budget
    BY <1>2 DEF ShouldMove
  <2>2. PICK n \in Modules : \E j \in Places(n) : x = <<n, j>>
    BY PositionIs
  <2>3. PICK j \in Places(n) : x = <<n, j>>
    BY <2>2
  <2>4. OffersSize(conf, n, j) < conf.budget
    BY <1>1, <2>1, <2>3
  <2>5. ModuleParams[n][j] = p /\ Offers(conf, n, j)
    BY <2>1, <2>3, OfferedIs DEF At
  <2> QED BY <2>4, <2>5 DEF Wanted
<1>3. ASSUME Wanted(conf, p) PROVE ShouldMove(p)
  <2>1. PICK n \in Modules : \E j \in Places(n) :
            /\ ModuleParams[n][j] = p
            /\ Offers(conf, n, j)
            /\ OffersSize(conf, n, j) < conf.budget
    BY <1>3 DEF Wanted
  <2>2. PICK j \in Places(n) :
            /\ ModuleParams[n][j] = p
            /\ Offers(conf, n, j)
            /\ OffersSize(conf, n, j) < conf.budget
    BY <2>1
  <2>3. /\ <<n, j>> \in Position /\ At(<<n, j>>) = p
        /\ Offered(<<n, j>>)
    BY <2>2, PositionIs, OfferedIs DEF At
  <2>4. MapThenSumSet(LAMBDA q : Size[q], OfferedBefore(<<n, j>>)) < conf.budget
    BY <1>1, <2>2
  <2> QED BY <2>3, <2>4 DEF ShouldMove
<1> QED BY <1>2, <1>3

\* The walk of a load stands before position i of module m, has moved o and
\* charged b: o is what the budget allows of what was offered so far.
Greedy(c, m, i, b, o) ==
    /\ b = SumOver(Size, o)
    /\ o \subseteq OffersBefore(c, m, i)
    /\ b < c.budget => o = OffersBefore(c, m, i)
    /\ \A p \in o : Wanted(c, p)
    /\ \A n \in Modules : \A j \in Places(n) :
         /\ n < m \/ (n = m /\ j < i)
         /\ Offers(c, n, j)
         /\ OffersSize(c, n, j) < c.budget
         => ModuleParams[n][j] \in o

\* Sizes of what is offered, before a position and before a later one.
LEMMA OffersSizeGrows ==
    ASSUME NEW c, NEW m \in Nat, NEW i \in Nat, NEW n \in Nat, NEW j \in Nat,
           m < n \/ (m = n /\ i <= j),
           NEW o, o \subseteq OffersBefore(c, m, i)
    PROVE  /\ SumOver(Size, o) <= OffersSize(c, n, j)
           /\ SumOver(Size, o) \in Int /\ OffersSize(c, n, j) \in Int
<1> DEFINE T == OffersBefore(c, n, j)
<1>1. o \in SUBSET T /\ T \subseteq Param
  <2>1. OffersBefore(c, m, i) \subseteq T
    BY OffersGrow
  <2>2. T \subseteq Param
    BY DEF OffersBefore
  <2> HIDE DEF T
  <2> QED BY <2>1, <2>2
<1>2. IsFiniteSet(T)
  BY OffersFinite
<1> HIDE DEF T
<1>3. IsFiniteSet(o)
  BY <1>1, <1>2, FS_Subset
<1>4. /\ \A x \in T : Size[x] \in Nat /\ Size[x] \in Int
      /\ \A x \in o : Size[x] \in Int
  BY <1>1
<1>5. SumOver(Size, o) <= SumOver(Size, T)
  BY <1>1, <1>2, <1>4, SumSubset
<1>6. SumOver(Size, o) \in Int /\ SumOver(Size, T) \in Int
  BY <1>2, <1>3, <1>4, SumInt
<1> QED BY <1>5, <1>6 DEF T, OffersSize

\* Passing a parameter that is not offered, or has been moved.
LEMMA GreedyPasses ==
    ASSUME NEW c, NEW m \in Modules, NEW i \in Places(m), NEW b, NEW o,
           Greedy(c, m, i, b, o), b < c.budget,
           Offers(c, m, i) => ModuleParams[m][i] \in o
    PROVE  Greedy(c, m, i + 1, b, o)
<1>1. OffersBefore(c, m, i + 1) = OffersBefore(c, m, i)
  <2>1. o = OffersBefore(c, m, i)
    BY DEF Greedy
  <2>2. CASE Offers(c, m, i)
    <3>1. OffersBefore(c, m, i + 1) = o \union {ModuleParams[m][i]}
      BY <2>1, <2>2, OffersNext
    <3>2. ModuleParams[m][i] \in o
      BY <2>2
    <3> QED BY <2>1, <3>1, <3>2
  <2>3. CASE ~Offers(c, m, i)
    BY <2>3, OffersNext
  <2> QED BY <2>2, <2>3
<1>2. ASSUME NEW n \in Modules, NEW j \in Places(n),
             n < m \/ (n = m /\ j < i + 1),
             Offers(c, n, j), OffersSize(c, n, j) < c.budget
      PROVE  ModuleParams[n][j] \in o
  <2>1. n < m \/ (n = m /\ j < i) \/ (n = m /\ j = i)
    BY <1>2, PlacesAre
  <2> QED BY <1>2, <2>1 DEF Greedy
<1> QED BY <1>1, <1>2 DEF Greedy

\* Moving the parameter that is offered, while the budget is open.
LEMMA GreedyMoves ==
    ASSUME NEW c, NEW m \in Modules, NEW i \in Places(m), NEW b, NEW o,
           Greedy(c, m, i, b, o), b < c.budget,
           NEW p, p = ModuleParams[m][i], p \notin o, Offers(c, m, i)
    PROVE  Greedy(c, m, i + 1, b + Size[p], o \union {p})
<1>1. o = OffersBefore(c, m, i) /\ b = SumOver(Size, o)
  BY DEF Greedy
<1>2. OffersBefore(c, m, i + 1) = o \union {p}
  BY <1>1, OffersNext
<1>3. SumOver(Size, o \union {p}) = b + Size[p]
  <2>1. IsFiniteSet(o)
    BY <1>1, OffersFinite
  <2>2. o \subseteq Param /\ p \in Param
    BY <1>1, PlacesAre DEF OffersBefore
  <2>3. \A y \in o \union {p} : Size[y] \in Int
    BY <2>2
  <2> QED BY <1>1, <2>1, <2>3, SumAdd
<1>4. Wanted(c, p)
  BY <1>1 DEF Wanted, OffersSize
<1>5. ASSUME NEW n \in Modules, NEW j \in Places(n),
             n < m \/ (n = m /\ j < i + 1),
             Offers(c, n, j), OffersSize(c, n, j) < c.budget
      PROVE  ModuleParams[n][j] \in o \union {p}
  <2>1. n < m \/ (n = m /\ j < i) \/ (n = m /\ j = i)
    BY <1>5, PlacesAre
  <2> QED BY <1>5, <2>1 DEF Greedy
<1>6. \A q \in o \union {p} : Wanted(c, q)
  BY <1>4 DEF Greedy
<1> QED BY <1>2, <1>3, <1>5, <1>6 DEF Greedy

\* Going on to the next module: nothing of this one is offered any more, or
\* the budget is spent, as it is then for all that follows.
LEMMA GreedyLeaves ==
    ASSUME NEW c, c.budget \in Int, NEW m \in Modules, NEW i \in Nat \ {0},
           NEW b, NEW o, Greedy(c, m, i, b, o),
           ~(b < c.budget) \/ \A j \in Places(m) : Offers(c, m, j) => j < i
    PROVE  Greedy(c, m + 1, 1, b, o)
<1>0. m \in Nat /\ m + 1 \in Nat
  BY DEF Modules
<1>1. OffersBefore(c, m, i) \subseteq OffersBefore(c, m + 1, 1)
  BY <1>0, OffersGrow
<1>2. b < c.budget => o = OffersBefore(c, m + 1, 1)
  BY OffersSkip DEF Greedy
<1>3. ASSUME NEW n \in Modules, NEW j \in Places(n),
             n < m + 1 \/ (n = m + 1 /\ j < 1),
             Offers(c, n, j), OffersSize(c, n, j) < c.budget
      PROVE  ModuleParams[n][j] \in o
  <2>1. n < m \/ n = m
    BY <1>3, <1>0, PlacesAre DEF Places
  <2>2. CASE n < m \/ (n = m /\ j < i)
    BY <1>3, <2>2 DEF Greedy
  <2>3. CASE n = m /\ ~(j < i)
    <3>1. ~(b < c.budget)
      BY <1>3, <2>3
    <3>2. o \subseteq OffersBefore(c, m, i) /\ b = SumOver(Size, o)
      BY DEF Greedy
    <3>3. b <= OffersSize(c, n, j) /\ b \in Int /\ OffersSize(c, n, j) \in Int
      <4>1. n \in Nat /\ j \in Nat /\ m = n /\ i <= j
        BY <2>3, PlacesAre
      <4> QED BY <1>0, <3>2, <4>1, OffersSizeGrows
    <3> QED BY <1>3, <3>1, <3>3
  <2> QED BY <2>1, <2>2, <2>3
<1> QED BY <1>1, <1>2, <1>3 DEF Greedy

-----------------------------------------------------------------------------
\* Where the walk stands, and what is known of a module and a parameter it is
\* at work on.
Standing ==
    /\ stage \in {"register", "modules"} => par = 1
    /\ stage = "done" => mod = NumModules + 1 /\ par = 1
    /\ stage \notin {"register", "refused"} =>
         (conf.allowed # NoFilter => hook = "plugin")

AtWork ==
    stage \in {"params", "copy", "publish"} =>
        /\ Unfiltered(conf, mod)
        /\ ModuleParams[mod][1] \notin conf.onCpu
        /\ stage # "params" =>
             Current \in conf.selected /\ Current \notin conf.onCpu

Placing == Greedy(conf, mod, par, bytes, offloaded)

PlacementInv ==
    Standing /\ (conf.uva => AtWork /\ marked \subseteq offloaded /\ Placing)

\* Before the first module nothing is offered and nothing moved.
LEMMA PlacementInit ==
    ASSUME Init
    PROVE  PlacementInv
<1>1. Standing
  BY DEF Init, Standing
<1>2. AtWork /\ marked \subseteq offloaded
  BY DEF Init, AtWork
<1>3. OffersBefore(conf, 1, 1) = {}
  <2>1. \A n \in Modules : \A j \in Places(n) : ~(n < 1 \/ (n = 1 /\ j < 1))
    BY DEF Modules, Places
  <2> QED BY <2>1 DEF OffersBefore
<1>4. Greedy(conf, 1, 1, 0, {})
  <2>1. \A n \in Modules : \A j \in Places(n) : ~(n < 1 \/ (n = 1 /\ j < 1))
    BY DEF Modules, Places
  <2> QED BY <1>3, <2>1, SumEmpty DEF Greedy
<1>5. Placing
  BY <1>4 DEF Init, Placing
<1> QED BY <1>1, <1>2, <1>5 DEF PlacementInv

\* A load that is done has moved exactly what it should.
LEMMA PlacedIsWanted ==
    ASSUME IInv, Standing, Placing, stage = "done"
    PROVE  \A p \in Param : p \in offloaded <=> ShouldMove(p)
<1>1. mod = NumModules + 1 /\ par = 1
  BY DEF Standing
<1>2. \A n \in Modules : n < mod
  BY <1>1 DEF Modules
<1>3. ASSUME NEW p, Wanted(conf, p) PROVE p \in offloaded
  <2>1. PICK n \in Modules : \E j \in Places(n) :
            /\ ModuleParams[n][j] = p
            /\ Offers(conf, n, j)
            /\ OffersSize(conf, n, j) < conf.budget
    BY <1>3 DEF Wanted
  <2> QED BY <1>2, <2>1 DEF Placing, Greedy
<1>4. \A p \in offloaded : Wanted(conf, p)
  BY DEF Placing, Greedy
<1> QED BY <1>3, <1>4, WantedIs
\* Steps that move nothing and stay where they are.
LEMMA PlacingStays ==
    ASSUME Placing, UNCHANGED <<conf, mod, par, bytes, offloaded>>
    PROVE  Placing'
BY DEF Placing

\* A parameter that is on the CPU, UVA enabled, was built there.
LEMMA OnCpuIsBuiltThere ==
    ASSUME R1, R2, conf.uva, NEW p \in Param, offloaded \subseteq Param
    PROVE  dev[p] = "cpu" <=> p \in conf.onCpu /\ p \notin offloaded
BY DEF R1, R2

\* Skipping a module: it is filtered, offers nothing, or the budget is spent.
LEMMA PlacingSkips ==
    ASSUME IInv, R1, R2, Standing, conf.uva, Placing, SkipModule
    PROVE  Placing'
<1>1. /\ stage = "modules" /\ mod \in Modules /\ par = 1
      /\ mod' = mod + 1 /\ par' = 1
      /\ UNCHANGED <<conf, bytes, offloaded>>
  BY DEF SkipModule, ReturnModule, memory, Standing
<1>2. conf.budget \in Int /\ bytes \in Int
  BY ConfTyped DEF IInv, TypeOK
<1>3. ~(bytes < conf.budget) \/ \A j \in Places(mod) : Offers(conf, mod, j) => j < 1
  <2>1. CASE Filtered(mod)
    <3>1. ~Unfiltered(conf, mod)
      BY <2>1 DEF Filtered, Unfiltered
    <3> QED BY <3>1 DEF Offers
  <2>2. CASE NothingToMove(mod) /\ ~BudgetSpent
    <3>1. CASE ModuleParams[mod] = <<>>
      BY <3>1, <1>1 DEF Places
    <3>2. CASE ModuleParams[mod] # <<>>
      <4>1. dev[ModuleParams[mod][1]] = "cpu"
        BY <2>2, <3>2 DEF NothingToMove
      <4>2. ModuleParams[mod][1] \in Param /\ offloaded \subseteq Param
        BY <1>1, <3>2 DEF IInv, TypeOK
      <4>3. ModuleParams[mod][1] \in conf.onCpu
        BY <4>1, <4>2, OnCpuIsBuiltThere
      <4> QED BY <4>3 DEF Offers
    <3> QED BY <3>1, <3>2
  <2>3. CASE BudgetSpent
    BY <1>2, <2>3 DEF BudgetSpent
  <2> QED BY <2>1, <2>2, <2>3 DEF SkipModule
<1>4. Greedy(conf, mod + 1, 1, bytes, offloaded)
  <2>1. Greedy(conf, mod, 1, bytes, offloaded)
    BY <1>1 DEF Placing
  <2>2. 1 \in Nat \ {0}
    OBVIOUS
  <2> QED BY <1>1, <1>2, <1>3, <2>1, <2>2, GreedyLeaves
<1> QED BY <1>1, <1>4 DEF Placing

\* Leaving a module: its end is reached or the budget is spent.
LEMMA PlacingLeaves ==
    ASSUME IInv, Placing, LeaveModule
    PROVE  Placing'
<1>1. /\ mod \in Modules /\ par \in Nat \ {0}
      /\ mod' = mod + 1 /\ par' = 1
      /\ UNCHANGED <<conf, bytes, offloaded>>
  BY DEF LeaveModule, ReturnModule, memory, IInv, ModuleOpen, TypeOK
<1>2. conf.budget \in Int /\ bytes \in Int
  BY ConfTyped DEF IInv, TypeOK
<1>3. ~(bytes < conf.budget) \/ \A j \in Places(mod) : Offers(conf, mod, j) => j < par
  <2>1. CASE BudgetSpent
    BY <1>2, <2>1 DEF BudgetSpent
  <2>2. CASE ~InModule
    BY <1>1, <2>2 DEF InModule, Places
  <2> QED BY <2>1, <2>2 DEF LeaveModule
<1>4. Greedy(conf, mod + 1, 1, bytes, offloaded)
  BY <1>1, <1>2, <1>3, GreedyLeaves DEF Placing
<1> QED BY <1>1, <1>4 DEF Placing

\* Passing a parameter: it is not selected, or it has been placed.
LEMMA PlacingPasses ==
    ASSUME IInv, R1, R2, conf.uva, marked \subseteq offloaded, Placing, SkipParam
    PROVE  Placing'
<1>1. /\ mod \in Modules /\ par \in Places(mod) /\ par' = par + 1
      /\ UNCHANGED <<conf, mod, bytes, offloaded>>
  BY DEF SkipParam, InModule, memory, Places
<1>2. bytes < conf.budget
  BY ConfTyped DEF SkipParam, BudgetSpent, IInv, TypeOK
<1>3. Offers(conf, mod, par) => Current \in offloaded
  <2>1. Current \in Param /\ offloaded \subseteq Param
    BY <1>1, PlacesAre DEF Current, IInv, TypeOK
  <2>2. dev[Current] = "cpu" => Current \in conf.onCpu
    BY <2>1, OnCpuIsBuiltThere
  <2> QED BY <2>2 DEF SkipParam, AlreadyPlaced, Offers, Current
<1>4. Greedy(conf, mod, par + 1, bytes, offloaded)
  BY <1>1, <1>2, <1>3, GreedyPasses DEF Placing, Current
<1> QED BY <1>1, <1>4 DEF Placing

\* Moving a parameter, by either path.
LEMMA PlacingMoves ==
    ASSUME IInv, Placing, AtWork, InModule, ~BudgetSpent,
           Current \notin offloaded, Current \in conf.selected,
           Current \notin conf.onCpu, stage \in {"params", "copy", "publish"},
           NEW p, p = Current, UNCHANGED <<conf, mod>>, par' = par + 1,
           bytes' = bytes + Size[p], offloaded' = offloaded \union {p}
    PROVE  Placing'
<1>1. mod \in Modules /\ par \in Places(mod)
  BY DEF InModule, Places
<1>2. bytes < conf.budget
  BY ConfTyped DEF BudgetSpent, IInv, TypeOK
<1>3. Offers(conf, mod, par)
  BY DEF AtWork, Offers, Current
<1>4. Greedy(conf, mod, par + 1, bytes + Size[p], offloaded \union {p})
  BY <1>1, <1>2, <1>3, GreedyMoves DEF Placing, Current
<1> QED BY <1>4 DEF Placing

\* Every step leaves the walk at a position it may stand at.
LEMMA StandingKept ==
    ASSUME IInv, Standing, [Next]_vars
    PROVE  Standing'
<1>1. CASE RefuseSettings
  BY <1>1 DEF RefuseSettings, Standing
<1>2. CASE Register
  BY <1>2 DEF Register, Standing
<1>3. CASE SkipModule
  BY <1>3 DEF SkipModule, ReturnModule, Standing
<1>4. CASE EnterModule
  BY <1>4 DEF EnterModule, Standing
<1>5. CASE LeaveModule
  BY <1>5 DEF LeaveModule, ReturnModule, Standing
<1>6. CASE SkipParam
  BY <1>6 DEF SkipParam, Standing
<1>7. ASSUME NEW p \in Param, MoveParam(p) PROVE Standing'
  BY <1>7 DEF MoveParam, AllocateHost, AllocationFails, CopyToHost,
     PublishView, StockOffloadParam, MayMove, Standing
<1>8. CASE FinishLoad
  BY <1>8 DEF FinishLoad, Standing
<1>9. CASE UNCHANGED vars
  BY <1>9 DEF vars, Standing
<1> QED
  BY <1>1, <1>2, <1>3, <1>4, <1>5, <1>6, <1>7, <1>8, <1>9
     DEF Next, Step, Ended

\* Every step keeps the placement.
LEMMA PlacementKept ==
    ASSUME IInv, RInv, PlacementInv, [Next]_vars
    PROVE  PlacementInv'
<1>0. Standing' /\ Standing /\ R1 /\ R2 /\ conf' = conf
  <2>1. conf' = conf
    BY DEF Next, Step, MoveParam, Ended, RefuseSettings, Register, SkipModule,
       EnterModule, LeaveModule, SkipParam, AllocateHost, AllocationFails,
       CopyToHost, PublishView, StockOffloadParam, FinishLoad, vars
  <2> QED BY <2>1, StandingKept DEF PlacementInv, RInv
<1> SUFFICES ASSUME conf.uva, AtWork, marked \subseteq offloaded, Placing
             PROVE  AtWork' /\ (marked \subseteq offloaded)' /\ Placing'
  BY <1>0 DEF PlacementInv
<1>1. CASE RefuseSettings \/ Register \/ FinishLoad
  <2>1. /\ stage' \notin {"params", "copy", "publish"}
        /\ UNCHANGED <<conf, mod, par, bytes, offloaded, marked>>
    BY <1>1 DEF RefuseSettings, Register, FinishLoad, memory
  <2> QED BY <2>1, PlacingStays DEF AtWork
<1>2. CASE SkipModule
  <2>1. stage' = "modules" /\ UNCHANGED <<offloaded, marked>>
    BY <1>2 DEF SkipModule, ReturnModule, memory
  <2> QED BY <1>0, <1>2, <2>1, PlacingSkips DEF AtWork
<1>3. CASE EnterModule
  <2>1. /\ stage = "modules" /\ par = 1 /\ stage' = "params" /\ mod \in Modules
        /\ UNCHANGED <<conf, mod, par, bytes, offloaded, marked>>
    BY <1>0, <1>3 DEF EnterModule, Standing, memory
  <2>2. Unfiltered(conf, mod)
    BY <1>0, <1>3, <2>1 DEF EnterModule, Filtered, Unfiltered, Standing
  <2>3. ModuleParams[mod][1] \notin conf.onCpu
    <3>1. ModuleParams[mod] # <<>> /\ dev[ModuleParams[mod][1]] # "cpu"
      BY <1>3 DEF EnterModule, NothingToMove
    <3>2. ModuleParams[mod][1] \in Param /\ offloaded \subseteq Param
      BY <2>1, <3>1 DEF IInv, TypeOK
    <3>3. offloaded \cap conf.onCpu = {}
      BY DEF Placing, Greedy, OffersBefore, Offers
    <3> QED BY <1>0, <3>1, <3>2, <3>3 DEF R1
  <2> QED BY <2>1, <2>2, <2>3, PlacingStays DEF AtWork
<1>4. CASE LeaveModule
  <2>1. stage' = "modules" /\ UNCHANGED <<offloaded, marked>>
    BY <1>4 DEF LeaveModule, ReturnModule, memory
  <2> QED BY <1>4, <2>1, PlacingLeaves DEF AtWork
<1>5. CASE SkipParam
  <2>1. /\ stage = "params" /\ stage' = "params"
        /\ UNCHANGED <<conf, mod, offloaded, marked>>
    BY <1>5 DEF SkipParam, memory
  <2> QED BY <1>0, <1>5, <2>1, PlacingPasses DEF AtWork
<1>6. ASSUME NEW p \in Param, AllocateHost(p)
      PROVE  AtWork' /\ (marked \subseteq offloaded)' /\ Placing'
  <2>1. /\ stage = "params" /\ stage' = "copy" /\ p = Current
        /\ p \in conf.selected /\ dev[p] # "cpu" /\ p \notin marked
        /\ UNCHANGED <<conf, mod, par, bytes, offloaded, marked>>
    BY <1>6 DEF AllocateHost, MayMove, AlreadyPlaced, memory
  <2>2. Current' = Current
    BY <2>1 DEF Current
  <2>3. p \notin conf.onCpu
    BY <1>0, <1>6, <2>1 DEF R1, AllocateHost, MayMove, IInv, MovedIsRecognised
  <2> QED BY <2>1, <2>2, <2>3, PlacingStays DEF AtWork
<1>7. ASSUME NEW p \in Param, AllocationFails(p)
      PROVE  AtWork' /\ (marked \subseteq offloaded)' /\ Placing'
  <2>1. /\ stage' = "failed"
        /\ UNCHANGED <<conf, mod, par, bytes, offloaded, marked>>
    BY <1>7 DEF AllocationFails, memory
  <2> QED BY <2>1, PlacingStays DEF AtWork
<1>8. ASSUME NEW p \in Param, CopyToHost(p)
      PROVE  AtWork' /\ (marked \subseteq offloaded)' /\ Placing'
  <2>1. /\ stage = "copy" /\ stage' = "publish"
        /\ UNCHANGED <<conf, mod, par, bytes, offloaded, marked>>
    BY <1>8 DEF CopyToHost
  <2>2. Current' = Current
    BY <2>1 DEF Current
  <2> QED BY <2>1, <2>2, PlacingStays DEF AtWork
<1>9. ASSUME NEW p \in Param, PublishView(p)
      PROVE  AtWork' /\ (marked \subseteq offloaded)' /\ Placing'
  <2>1. /\ stage = "publish" /\ stage' = "params" /\ p = Current
        /\ UNCHANGED <<conf, mod>> /\ par' = par + 1
        /\ bytes' = bytes + Size[p] /\ offloaded' = offloaded \union {p}
        /\ marked' = marked \union {p}
    BY <1>9 DEF PublishView
  <2>2. InModule /\ ~BudgetSpent /\ Current \notin offloaded
    BY <2>1 DEF IInv, MoveInProgress
  <2>3. Current \in conf.selected /\ Current \notin conf.onCpu
    BY <2>1 DEF AtWork
  <2>4. Placing'
    BY <2>1, <2>2, <2>3, PlacingMoves
  <2> QED BY <2>1, <2>4 DEF AtWork
<1>10. ASSUME NEW p \in Param, StockOffloadParam(p)
       PROVE  AtWork' /\ (marked \subseteq offloaded)' /\ Placing'
  <2>1. /\ stage = "params" /\ stage' = "params" /\ p = Current
        /\ InModule /\ ~BudgetSpent /\ p \in conf.selected
        /\ dev[p] # "cpu" /\ p \notin marked
        /\ UNCHANGED <<conf, mod>> /\ par' = par + 1
        /\ bytes' = bytes + Size[p] /\ offloaded' = offloaded \union {p}
        /\ marked' \subseteq marked \union {p}
    BY <1>10 DEF StockOffloadParam, MayMove, AlreadyPlaced
  <2>2. p \notin offloaded
    BY <2>1 DEF IInv, MovedIsRecognised, AlreadyPlaced
  <2>3. p \notin conf.onCpu
    BY <1>0, <2>1, <2>2 DEF R1
  <2>4. Placing'
    BY <2>1, <2>2, <2>3, PlacingMoves
  <2> QED BY <2>1, <2>4 DEF AtWork
<1>11. CASE UNCHANGED vars
  <2>1. UNCHANGED <<stage, conf, mod, par, bytes, offloaded, marked>>
    BY <1>11 DEF vars
  <2>2. Current' = Current
    BY <2>1 DEF Current
  <2> QED BY <2>1, <2>2, PlacingStays DEF AtWork
<1> QED
  BY <1>1, <1>2, <1>3, <1>4, <1>5, <1>6, <1>7, <1>8, <1>9, <1>10, <1>11
     DEF Next, Step, MoveParam, Ended

\* The placement is right in every state of every load.
LEMMA PlacementInvariance == Spec => [](IInv /\ RInv /\ PlacementInv)
<1>1. Init => RInv /\ PlacementInv
  BY PlacementInit DEF Init, RInv, R1, R2, R3, R4
<1>2. IInv /\ RInv /\ PlacementInv /\ [Next]_vars => RInv' /\ PlacementInv'
  BY ReadableStep, PlacementKept
<1> QED
  BY <1>1, <1>2, Invariance, PTL DEF Spec

\* A load that has finished moved exactly the parameters that the budget, the
\* filter and the order of the modules call for: PlacementIsGreedyPrefix.
THEOREM GreedyPlacement == Spec => []PlacementIsGreedyPrefix
<1>1. IInv /\ PlacementInv => PlacementIsGreedyPrefix
  BY PlacedIsWanted DEF PlacementInv, PlacementIsGreedyPrefix
<1> QED
  BY <1>1, PlacementInvariance, PTL

-----------------------------------------------------------------------------
(***************************************************************************)
(* Numbers.                                                                *)
(***************************************************************************)
\* Power[k] is 2^k, as its recursion says, and positive.
LEMMA PowerIs ==
  ASSUME MaxPower \in Nat
  PROVE  /\ Power[0] = 1
         /\ \A k \in 1..MaxPower : Power[k] = 2 * Power[k - 1]
         /\ \A k \in 0..MaxPower : Power[k] \in Nat \ {0}
<1>1. IsPower(Power, MaxPower)
  <2>1. Power = CHOOSE f : IsPower(f, MaxPower)
    BY Zenon DEF Power, IsPower
  <2> QED BY <2>1, PowersExist
<1>2. \A k \in 0..MaxPower : Power[k] = IF k = 0 THEN 1 ELSE 2 * Power[k - 1]
  BY <1>1 DEF IsPower
<1>3. Power[0] = 1 /\ \A k \in 1..MaxPower : Power[k] = 2 * Power[k - 1]
  BY <1>2
<1> DEFINE B == {k \in 0..MaxPower : Power[k] \notin Nat \ {0}}
<1>4. ASSUME B # {} PROVE FALSE
  <2>0. B \subseteq Nat
    OBVIOUS
  <2> HIDE DEF B
  <2>1. PICK m \in B : \A k \in B : m <= k
    BY <1>4, <2>0, Least
  <2> USE DEF B
  <2>2. m \in 0..MaxPower /\ m # 0 /\ Power[m] \notin Nat \ {0}
    BY <1>3
  <2>3. m - 1 \in 0..MaxPower /\ m - 1 \notin B
    BY <2>1, <2>2
  <2>4. Power[m - 1] \in Nat \ {0} /\ Power[m] = 2 * Power[m - 1]
    BY <1>3, <2>2, <2>3
  <2> HIDE DEF B
  <2> QED BY <2>2, <2>4
<1> QED BY <1>3, <1>4

\* A set of naturals has a least element.
LEMMA MinIs ==
  ASSUME NEW S, S \subseteq Nat, S # {}
  PROVE  Min(S) \in S /\ \A y \in S : Min(S) <= y
BY Least DEF Min

\* Rounding to a power of two less than doubles a buffer.
LEMMA Pow2Is ==
  ASSUME MaxPower \in Nat, NEW size \in Nat, size <= Power[MaxPower]
  PROVE  /\ Pow2(size) \in Nat
         /\ size <= Pow2(size)
         /\ size # 0 => Pow2(size) < 2 * size
<1> DEFINE T == { n \in { Power[k] : k \in 0..MaxPower } : n >= size }
<1>0. CASE size = 0
  BY <1>0 DEF Pow2
<1>1. CASE size # 0
  <2>1. T \subseteq Nat /\ T # {}
    <3>1. Power[MaxPower] \in T
      BY PowerIs
    <3>2. T \subseteq Nat
      BY PowerIs
    <3> HIDE DEF T
    <3> QED BY <3>1, <3>2
  <2>2. Pow2(size) = Min(T)
    BY <1>1 DEF Pow2
  <2> HIDE DEF T
  <2>3. Min(T) \in T /\ \A y \in T : Min(T) <= y
    BY <2>1, MinIs
  <2> USE DEF T
  <2>4. PICK k \in 0..MaxPower : Min(T) = Power[k]
    BY <2>3
  <2>5. Min(T) >= size /\ Min(T) \in Nat
    BY <2>1, <2>3
  <2>6. Min(T) < 2 * size
    <3>1. CASE k = 0
      BY <1>1, <2>4, <3>1, PowerIs
    <3>2. CASE k # 0
      <4>1. k - 1 \in 0..MaxPower /\ Power[k] = 2 * Power[k - 1]
            /\ Power[k - 1] \in Nat \ {0}
        BY <3>2, PowerIs
      <4> DEFINE q == Power[k - 1]
      <4>2. ~(q >= size)
        <5>1. q >= size => q \in T
          BY <4>1
        <5>2. Min(T) = 2 * q /\ q \in Nat \ {0}
          BY <2>4, <4>1
        <5>3. q \in T => 2 * q <= q
          BY <2>3, <5>2
        <5> HIDE DEF q, T
        <5> QED BY <5>1, <5>2, <5>3
      <4>3. Min(T) = 2 * q /\ q \in Nat
        BY <2>4, <4>1
      <4> HIDE DEF q, T
      <4> QED BY <4>2, <4>3
    <3> QED BY <3>1, <3>2
  <2> HIDE DEF T
  <2> QED BY <2>2, <2>5, <2>6
<1> QED BY <1>0, <1>1

\* Rounding up to a multiple gives at least the size.
LEMMA CeilIs ==
    ASSUME NEW unit \in Nat \ {0}, NEW size \in Nat
    PROVE  CeilTo(unit, size) \in Nat /\ size <= CeilTo(unit, size)
<1> DEFINE s == size + unit - 1
           d == s \div unit
<1>1. s \in Nat
  OBVIOUS
<1> HIDE DEF s
<1>2. d \in Nat /\ s = unit * d + (s % unit) /\ s % unit \in 0..(unit - 1)
  BY <1>1, Division
<1>3. CeilTo(unit, size) = d * unit
  BY DEF CeilTo, s
<1> HIDE DEF d
<1> DEFINE e == d * unit
<1>4. e \in Nat /\ e = unit * d
  BY <1>2
<1> HIDE DEF e
<1>5. size <= e
  BY <1>2, <1>4 DEF s
<1> QED BY <1>3, <1>4, <1>5 DEF e

\* Rounding to pages gives at least the size.
LEMMA PagedIs ==
  ASSUME PageBytes \in Nat \ {0}, NEW size \in Nat
  PROVE  Paged(size) \in Nat /\ size <= Paged(size)
BY CeilIs DEF Paged

-----------------------------------------------------------------------------
(***************************************************************************)
(* Host buffers.                                                           *)
(***************************************************************************)
\* A buffer holds its parameter, and without exact pinning is less than twice it.
LEMMA HostBytesIs ==
  ASSUME PlannerAssumption, HostAssumption, SizeAssumption, NEW p \in Param
  PROVE  /\ HostBytes(p) \in Nat /\ Size[p] <= HostBytes(p)
         /\ ~conf.exactPinned => HostBytes(p) < 2 * Size[p]
<1>1. /\ Size[p] \in Nat \ {0} /\ Size[p] <= Power[MaxPower]
      /\ MaxPower \in Nat /\ PageBytes \in Nat \ {0}
  BY DEF PlannerAssumption, HostAssumption, SizeAssumption
<1>2. CASE IsEligible(p)
  <2>1. HostBytes(p) = Paged(Size[p]) /\ conf.exactPinned
    BY <1>2 DEF HostBytes, IsEligible
  <2> QED BY <1>1, <2>1, PagedIs
<1>3. CASE ~IsEligible(p)
  <2>1. HostBytes(p) = Pow2(Size[p])
    BY <1>3 DEF HostBytes
  <2> QED BY <1>1, <2>1, Pow2Is
<1> QED BY <1>2, <1>3

\* The bytes of each buffer, as a function.
Buffer == [p \in Param |-> HostBytes(p)]

\* Pinned is the sum of the buffers of the moved parameters.
LEMMA PinnedIs ==
  ASSUME offloaded \subseteq Param
  PROVE  Pinned = SumOver(Buffer, offloaded)
<1> DEFINE S == offloaded
           f == Buffer
           Op(h) == h = [s \in SUBSET S |->
                           IF s = {} THEN 0
                           ELSE HostBytes(Chosen(s)) + h[s \ {Chosen(s)}]]
<1>1. Pinned = (CHOOSE h : Op(h))[S]
  BY DEF Pinned, MapThenSumSet, MapThenFoldSet, Chosen
<1>2. \A s \in SUBSET S : s # {} => f[Chosen(s)] = HostBytes(Chosen(s))
  BY ChosenIn DEF Buffer
<1>3. ASSUME NEW h PROVE Op(h) <=> Sums(h, f, S)
  <2> HIDE DEF f
  <2> QED BY <1>2 DEF Sums
<1>4. (CHOOSE h : Op(h)) = (CHOOSE h : Sums(h, f, S))
  <2> HIDE DEF Op, f
  <2> QED BY <1>3
<1> HIDE DEF Op
<1> QED BY <1>1, <1>4 DEF SumOver

\* Of n ranks' buffers all but one are covered by f tenths of the budget.
LEMMA AllowanceCovers ==
  ASSUME IInv, PlannerAssumption, HostAssumption, SizeAssumption,
         offloaded # {}, IsFiniteSet(offloaded), bytes = SumOver(Size, offloaded),
         NEW f \in Nat \ {0}, conf.budget \in Nat,
         \A p \in offloaded : 10 * HostBytes(p) <= f * Size[p]
  PROVE  /\ Pinned \in Int /\ Max({ HostBytes(p) : p \in offloaded }) \in Int
         /\ 10 * Pinned < 10 * Max({ HostBytes(p) : p \in offloaded })
                            + f * conf.budget
<1>1. offloaded \subseteq Param /\ bytes \in Nat
  BY DEF IInv, TypeOK
<1>2. /\ \A q \in offloaded :
            Buffer[q] \in Int /\ Size[q] \in Nat \ {0} /\ Size[q] \in Int
      /\ \A q \in offloaded : Buffer[q] = HostBytes(q)
      /\ \A q \in offloaded : 10 * Buffer[q] <= f * Size[q]
  BY <1>1, HostBytesIs DEF Buffer, SizeAssumption
<1>3. Pinned = SumOver(Buffer, offloaded)
  BY <1>1, PinnedIs
<1>4. Pinned \in Int
  BY <1>2, <1>3, SumInt
<1>5. bytes # 0
  <2>1. PICK q \in offloaded : TRUE
    OBVIOUS
  <2>2. bytes = Size[q] + SumOver(Size, offloaded \ {q})
    BY <1>2, SumRemove
  <2>3. SumOver(Size, {}) <= SumOver(Size, offloaded \ {q})
    <3>1. IsFiniteSet(offloaded \ {q})
      BY FS_RemoveElement
    <3> QED BY <1>2, <3>1, SumSubset
  <2>4. SumOver(Size, offloaded \ {q}) \in Int
    <3>1. IsFiniteSet(offloaded \ {q})
      BY FS_RemoveElement
    <3> QED BY <1>2, <3>1, SumInt
  <2>5. Size[q] \in Nat \ {0}
    BY <1>2
  <2> QED BY <2>2, <2>3, <2>4, <2>5, SumEmpty
<1>6. PICK p \in offloaded : bytes - Size[p] < conf.budget
  BY <1>5 DEF IInv, Overshoot
<1> DEFINE R == offloaded \ {p}
           M == Max({ HostBytes(q) : q \in offloaded })
<1>7. IsFiniteSet(R) /\ R \subseteq offloaded
  BY FS_RemoveElement
<1> HIDE DEF R
<1>8. /\ Pinned = Buffer[p] + SumOver(Buffer, R)
      /\ bytes = Size[p] + SumOver(Size, R)
  BY <1>2, <1>3, SumRemove DEF R
<1>9. 10 * SumOver(Buffer, R) <= f * SumOver(Size, R)
  <2>1. \A q \in R : Buffer[q] \in Int /\ Size[q] \in Int
                     /\ 10 * Buffer[q] <= f * Size[q]
    BY <1>2, <1>7
  <2> QED BY <1>7, <2>1, SumBelow
<1>10. SumOver(Buffer, R) \in Int /\ SumOver(Size, R) \in Int
  BY <1>2, <1>7, SumInt
<1>11. M \in Int /\ Buffer[p] <= M
  <2> DEFINE H == { Buffer[q] : q \in offloaded }
  <2>1. { HostBytes(q) : q \in offloaded } = H
    BY <1>2
  <2>2. H \in SUBSET Int /\ Buffer[p] \in H
    BY <1>2
  <2>3. IsFiniteSet(H)
    <3>1. H = Image(Buffer, offloaded)
      BY DEF Image
    <3> HIDE DEF H
    <3> QED BY <3>1, BuffersFinite
  <2> HIDE DEF H
  <2>4. Max(H) \in H /\ \A y \in H : Max(H) >= y
    BY <2>2, <2>3, MaxIs
  <2>5. Max(H) \in Int /\ Buffer[p] \in Int /\ Max(H) >= Buffer[p]
    BY <2>2, <2>4
  <2>6. M = Max(H)
    BY <2>1
  <2> HIDE DEF M
  <2> QED BY <2>5, <2>6
<1>a. Size[p] \in Nat \ {0} /\ Buffer[p] \in Int
  BY <1>2
<1>12. SumOver(Size, R) < conf.budget
  <2> DEFINE sr == SumOver(Size, R)
             z == Size[p]
             b == conf.budget
  <2>1. /\ sr \in Int /\ z \in Nat /\ b \in Nat /\ bytes \in Nat
        /\ bytes - z < b /\ bytes = z + sr
    BY <1>1, <1>6, <1>8, <1>10, <1>a
  <2> HIDE DEF sr, z, b
  <2>2. sr < b
    BY <2>1
  <2> QED BY <2>2 DEF sr, b
<1>13. f * SumOver(Size, R) < f * conf.budget
  BY <1>10, <1>12, Scaled
<1> DEFINE x == f * SumOver(Size, R)
           y == f * conf.budget
<1>14. x \in Int /\ y \in Int /\ Buffer[p] \in Int
  BY <1>2, <1>10
<1>15. 10 * Pinned < 10 * M + y
  <2> DEFINE u == Buffer[p]
             w == SumOver(Buffer, R)
             t == Pinned
  <2>1. /\ t = u + w /\ 10 * w <= x /\ x < y /\ u <= M
        /\ t \in Int /\ u \in Int /\ w \in Int /\ M \in Int
        /\ x \in Int /\ y \in Int
    BY <1>4, <1>8, <1>9, <1>10, <1>11, <1>13, <1>14
  <2> HIDE DEF u, w, t, M, x, y
  <2>2. 10 * t < 10 * M + y
    BY <2>1, TenTimes, Zenon
  <2> QED BY <2>2 DEF t
<1> HIDE DEF M, x, y
<1> QED BY <1>4, <1>11, <1>15 DEF M, y

\* What AllowanceMissesOneBuffer says of a finished load.
LEMMA AllowanceHolds ==
  ASSUME IInv, PlacementInv, PlannerAssumption, HostAssumption, SizeAssumption,
         ModuleAssumption, ConfigAssumption
  PROVE  AllowanceMissesOneBuffer
<1> SUFFICES ASSUME conf.uva, offloaded # {},
                    conf.exactPinned =>
                      \A p \in offloaded : 10 * HostBytes(p) <= 11 * Size[p],
                    NEW engram \in {0, 200}, NEW avail \in Available,
                    ~HostRamFails(engram, conf.budget, Ranks, conf.exactPinned,
                                  avail)
             PROVE  engram + Ranks * Pinned
                      < avail + Ranks * Max({ HostBytes(p) : p \in offloaded })
  BY DEF AllowanceMissesOneBuffer
<1> DEFINE M == Max({ HostBytes(p) : p \in offloaded })
           f == PinTenths(conf.exactPinned)
<1>1. /\ Greedy(conf, mod, par, bytes, offloaded)
      /\ conf.budget \in Nat /\ offloaded \subseteq Param
      /\ Ranks \in Nat \ {0} /\ avail \in Nat /\ engram \in Nat
  <2>1. Greedy(conf, mod, par, bytes, offloaded)
    BY DEF PlacementInv, Placing
  <2>2. conf.budget \in Nat /\ offloaded \subseteq Param
    BY ConfTyped DEF IInv, TypeOK
  <2>3. Ranks \in Nat \ {0} /\ avail \in Nat /\ engram \in Nat
    BY DEF PlannerAssumption, HostAssumption
  <2> QED BY <2>1, <2>2, <2>3
<1>2. IsFiniteSet(offloaded) /\ bytes = SumOver(Size, offloaded)
  <2>1. offloaded \subseteq OffersBefore(conf, mod, par)
    BY <1>1 DEF Greedy
  <2>2. IsFiniteSet(offloaded)
    BY <2>1, OffersFinite, FS_Subset
  <2> QED BY <1>1, <2>2 DEF Greedy
<1>3. f \in Nat \ {0} /\ \A p \in offloaded : 10 * HostBytes(p) <= f * Size[p]
  <2>1. CASE conf.exactPinned
    BY <2>1 DEF PinTenths
  <2>2. CASE ~conf.exactPinned
    <3>1. ASSUME NEW p \in offloaded
          PROVE  10 * HostBytes(p) <= 20 * Size[p]
      <4>1. p \in Param /\ Size[p] \in Nat
        BY <1>1 DEF SizeAssumption
      <4>2. HostBytes(p) \in Nat /\ HostBytes(p) < 2 * Size[p]
        BY <2>2, <4>1, HostBytesIs
      <4> QED BY <4>1, <4>2
    <3>2. f = 20
      BY <2>2 DEF PinTenths
    <3> QED BY <3>1, <3>2
  <2> QED BY <2>1, <2>2
<1>4. 10 * engram + conf.budget * Ranks * f <= 10 * avail
  <2>1. ~(10 * engram + conf.budget * Ranks * f > 10 * avail)
    BY DEF HostRamFails, HostNeedTenths
  <2>2. conf.budget * Ranks * f \in Nat
    BY <1>1, <1>3
  <2> DEFINE z == conf.budget * Ranks * f
  <2> HIDE DEF z
  <2>3. ~(10 * engram + z > 10 * avail) /\ z \in Nat
    BY <2>1, <2>2 DEF z
  <2>4. 10 * engram + z <= 10 * avail
    BY <1>1, <2>3
  <2> QED BY <2>4 DEF z
<1> HIDE DEF f
<1>5. Pinned \in Int /\ M \in Int /\ 10 * Pinned < 10 * M + f * conf.budget
  BY <1>1, <1>2, <1>3, AllowanceCovers
<1> DEFINE B == conf.budget
           P == Pinned
<1>6. Allowed(Ranks, P, M, B, f, engram, avail)
  BY <1>1, <1>3, <1>4, <1>5 DEF Allowed
<1> HIDE DEF M, B, P
<1>7. Missed(Ranks, P, M, engram, avail)
  BY <1>6, AllowanceSum
<1> QED BY <1>7 DEF Missed, P, M

\* A load that check_host_ram let start pins more than it was told is available
\* by less than the largest buffer of each rank, whatever the parameters.
THEOREM Allowance == Spec => []AllowanceMissesOneBuffer
<1>1. IInv /\ PlacementInv => AllowanceMissesOneBuffer
  BY AllowanceHolds, PlannerAssumption, HostAssumption
<1> QED
  BY <1>1, PlacementInvariance, PTL

-----------------------------------------------------------------------------
(***************************************************************************)
(* The planner's loop.                                                     *)
(***************************************************************************)
\* The loop's variables after each of the first n layers.
IsPlanning(h, r, n) ==
    h = [l \in 0..n |->
           IF l = 0 THEN [spent |-> 0, pinned |-> 0] ELSE PlanLayer(r, h[l - 1])]

\* The loop's recursion has a solution, for any number of layers.
LEMMA PlanningsExist ==
    ASSUME NEW r, NEW n \in Nat
    PROVE  \E h : IsPlanning(h, r, n)
<1> DEFINE B == {k \in Nat : ~\E h : IsPlanning(h, r, k)}
           zero == [spent |-> 0, pinned |-> 0]
<1> SUFFICES ASSUME B # {} PROVE FALSE
  OBVIOUS
<1>0. B \subseteq Nat
  OBVIOUS
<1> HIDE DEF B, zero
<1>1. PICK m \in B : \A k \in B : m <= k
  BY <1>0, Least
<1> USE DEF B
<1>2. m \in Nat /\ ~\E h : IsPlanning(h, r, m)
  OBVIOUS
<1>3. CASE m = 0
  <2>1. IsPlanning([k \in 0..m |-> zero], r, m)
    BY <1>3 DEF IsPlanning, zero
  <2> QED BY <1>2, <2>1
<1>4. CASE m # 0
  <2>1. m - 1 \in Nat /\ m - 1 \notin B
    BY <1>1, <1>2, <1>4
  <2>2. PICK g : IsPlanning(g, r, m - 1)
    BY <2>1
  <2> DEFINE h == [k \in 0..m |-> IF k = 0 THEN zero ELSE PlanLayer(r, g[k - 1])]
  <2>3. \A k \in 0..(m - 1) : g[k] = IF k = 0 THEN zero ELSE PlanLayer(r, g[k - 1])
    BY <2>2 DEF IsPlanning, zero
  <2>4. \A k \in 0..(m - 1) : h[k] = g[k]
    BY <1>2, <2>3
  <2>5. \A k \in 1..m : h[k - 1] = g[k - 1]
    <3> HIDE DEF h
    <3>1. \A k \in 1..m : k - 1 \in 0..(m - 1)
      BY <1>2
    <3> QED BY <2>4, <3>1
  <2>6. h = [k \in 0..m |-> IF k = 0 THEN zero ELSE PlanLayer(r, h[k - 1])]
    <3>1. \A k \in 0..m : (IF k = 0 THEN zero ELSE PlanLayer(r, g[k - 1]))
                           = (IF k = 0 THEN zero ELSE PlanLayer(r, h[k - 1]))
      <4> HIDE DEF h
      <4>1. \A k \in 0..m : k # 0 => k \in 1..m
        BY <1>2
      <4> QED BY <2>5, <4>1
    <3>2. h = [k \in 0..m |-> IF k = 0 THEN zero ELSE PlanLayer(r, g[k - 1])]
      OBVIOUS
    <3> HIDE DEF h
    <3> QED BY <3>1, <3>2
  <2>7. IsPlanning(h, r, m)
    <3> HIDE DEF h
    <3> QED BY <2>6, Zenon DEF IsPlanning, zero
  <2> QED BY <1>2, <2>7
<1> QED BY <1>3, <1>4

\* WalkedBytes is what the loop has pinned after the last layer.
LEMMA PlanningIs ==
    ASSUME NEW r, Dims.layers \in Nat
    PROVE  \E h : /\ h[0] = [spent |-> 0, pinned |-> 0]
                  /\ \A l \in 1..Dims.layers : h[l] = PlanLayer(r, h[l - 1])
                  /\ WalkedBytes(r) = h[Dims.layers].pinned
<1> DEFINE n == Dims.layers
           h == CHOOSE g : IsPlanning(g, r, n)
<1>1. WalkedBytes(r) = h[n].pinned
  BY Zenon DEF WalkedBytes, IsPlanning
<1>2. IsPlanning(h, r, n)
  BY PlanningsExist
<1> HIDE DEF h
<1>3. \A l \in 0..n :
        h[l] = IF l = 0 THEN [spent |-> 0, pinned |-> 0] ELSE PlanLayer(r, h[l - 1])
  BY <1>2 DEF IsPlanning
<1>4. 0 \in 0..n /\ \A l \in 1..n : l \in 0..n /\ l # 0
  OBVIOUS
<1>5. h[0] = [spent |-> 0, pinned |-> 0] /\ \A l \in 1..n : h[l] = PlanLayer(r, h[l - 1])
  <2> HIDE DEF n
  <2> QED BY <1>3, <1>4
<1> QED BY <1>1, <1>5

\* A plan in step with a placement of matrices that may be padded.  As long as
\* the placement is below the budget b, the plan has spent no more; and it has
\* pinned at least as much.  Without padding (e) both are below the budget, and
\* equal, or neither is; and they have pinned the same.
InStep(e, b, x, size, pinned) ==
    /\ size < b => x.spent <= size
    /\ pinned <= x.pinned
    /\ e => /\ \/ x.spent < b /\ size = x.spent
               \/ ~(x.spent < b) /\ ~(size < b)
            /\ pinned = x.pinned

Account == [spent : Int, pinned : Int]

\* One turn of the inner loop against one matrix of m bytes, n unpadded.
LEMMA PlanInStep ==
    ASSUME NEW r, NEW x \in Account, NEW n \in Nat, NEW m \in Nat, n <= m,
           RoundPinned(n, r.exact) \in Nat, Selected(r) \in Int, NEW e, e => m = n
    PROVE  /\ Plan(r, x, n) \in Account
           /\ Plan(r, x, n).pinned >= x.pinned
           /\ \A size, pinned \in Int :
                InStep(e, Selected(r), x, size, pinned) =>
                  InStep(e, Selected(r), Plan(r, x, n), size + m,
                    pinned + IF size < Selected(r) THEN RoundPinned(n, r.exact) ELSE 0)
<1> DEFINE b == Selected(r)
           k == RoundPinned(n, r.exact)
<1>1. k \in Nat /\ b \in Int /\ x.spent \in Int /\ x.pinned \in Int
  BY DEF Account
<1>2. Plan(r, x, n) = IF x.spent >= b THEN x
                      ELSE [spent |-> x.spent + n, pinned |-> x.pinned + k]
  BY DEF Plan
<1> HIDE DEF b, k
<1>3. CASE x.spent >= b
  <2>1. Plan(r, x, n) = x
    BY <1>2, <1>3
  <2>2. ASSUME NEW size \in Int, NEW pinned \in Int, InStep(e, b, x, size, pinned)
        PROVE  InStep(e, b, x, size + m, pinned + IF size < b THEN k ELSE 0)
    <3>1. ~(size < b) /\ ~(size + m < b)
      BY <1>1, <1>3, <2>2 DEF InStep
    <3>2. (pinned + IF size < b THEN k ELSE 0) = pinned
      BY <3>1
    <3>3. InStep(e, b, x, size + m, pinned)
      BY <1>1, <1>3, <2>2, <3>1 DEF InStep
    <3> QED BY <3>2, <3>3
  <2> QED BY <1>1, <2>1, <2>2 DEF b, k
<1>4. CASE ~(x.spent >= b)
  <2> DEFINE y == [spent |-> x.spent + n, pinned |-> x.pinned + k]
  <2>1. Plan(r, x, n) = y
    BY <1>2, <1>4
  <2>2. y \in Account /\ y.spent = x.spent + n /\ y.pinned = x.pinned + k
    BY <1>1 DEF Account
  <2> HIDE DEF y
  <2>3. ASSUME NEW size \in Int, NEW pinned \in Int, InStep(e, b, x, size, pinned)
        PROVE  InStep(e, b, y, size + m, pinned + IF size < b THEN k ELSE 0)
    <3>1. size + m < b => y.spent <= size + m
      BY <1>1, <2>2, <2>3 DEF InStep
    <3>2. (pinned + IF size < b THEN k ELSE 0) <= y.pinned
      BY <1>1, <2>2, <2>3 DEF InStep
    <3>3. ASSUME e
          PROVE  /\ \/ y.spent < b /\ size + m = y.spent
                    \/ ~(y.spent < b) /\ ~(size + m < b)
                 /\ (pinned + IF size < b THEN k ELSE 0) = y.pinned
      <4>1. size = x.spent /\ size < b /\ pinned = x.pinned /\ m = n
        BY <1>1, <1>4, <2>3, <3>3 DEF InStep
      <4> QED BY <1>1, <2>2, <4>1
    <3> QED BY <3>1, <3>2, <3>3 DEF InStep
  <2>4. y.pinned >= x.pinned
    BY <1>1, <2>2
  <2> QED BY <2>1, <2>2, <2>3, <2>4 DEF b, k
<1> QED BY <1>3, <1>4

\* What the two matrices of a layer pin without their padding, if the layers
\* before have w bytes.
LayerPins(r, w) ==
    (IF w < Selected(r) THEN RoundPinned(2 * W2Bytes(r), r.exact) ELSE 0)
    + (IF w + 2 * LoadedW2Bytes(r) < Selected(r) THEN RoundPinned(W2Bytes(r), r.exact) ELSE 0)

\* One turn of the outer loop.
LEMMA PlanLayerInStep ==
    ASSUME NEW r, NEW x \in Account, Selected(r) \in Int, W2Bytes(r) \in Nat,
           LoadedW2Bytes(r) \in Nat, W2Bytes(r) <= LoadedW2Bytes(r),
           RoundPinned(2 * W2Bytes(r), r.exact) \in Nat,
           RoundPinned(W2Bytes(r), r.exact) \in Nat
    PROVE  /\ PlanLayer(r, x) \in Account
           /\ PlanLayer(r, x).pinned >= x.pinned
           /\ \A size, pinned \in Int :
                InStep(~IsPadded(r), Selected(r), x, size, pinned) =>
                  InStep(~IsPadded(r), Selected(r), PlanLayer(r, x),
                         size + 3 * LoadedW2Bytes(r), pinned + LayerPins(r, size))
<1> DEFINE e == ~IsPadded(r)
           b == Selected(r)
           w == W2Bytes(r)
           v == LoadedW2Bytes(r)
           k2 == RoundPinned(2 * w, r.exact)
           k1 == RoundPinned(w, r.exact)
           y == Plan(r, x, 2 * w)
           z == Plan(r, y, w)
<1>1. /\ b \in Int /\ w \in Nat /\ 2 * w \in Nat /\ k2 \in Nat /\ k1 \in Nat
      /\ v \in Nat /\ 2 * v \in Nat /\ w <= v /\ 2 * w <= 2 * v
  OBVIOUS
<1>a. (e => v = w) /\ (e => 2 * v = 2 * w)
  BY DEF IsPadded
<1>2. /\ y \in Account /\ y.pinned >= x.pinned
      /\ \A size, pinned \in Int : InStep(e, b, x, size, pinned) =>
           InStep(e, b, y, size + 2 * v, pinned + IF size < b THEN k2 ELSE 0)
  <2> HIDE DEF e, v
  <2> QED BY <1>1, <1>a, PlanInStep
<1>3. /\ z \in Account /\ z.pinned >= y.pinned
      /\ \A size, pinned \in Int : InStep(e, b, y, size, pinned) =>
           InStep(e, b, z, size + v, pinned + IF size < b THEN k1 ELSE 0)
  <2> HIDE DEF y, e, v
  <2> QED BY <1>1, <1>a, <1>2, PlanInStep
<1>4. PlanLayer(r, x) = z
  BY DEF PlanLayer
<1>5. \A size : LayerPins(r, size) = (IF size < b THEN k2 ELSE 0)
                                     + (IF size + 2 * v < b THEN k1 ELSE 0)
  BY DEF LayerPins
<1> HIDE DEF e, b, w, v, k2, k1, y, z
<1>6. z.pinned >= x.pinned
  <2>1. x.pinned \in Int /\ y.pinned \in Int /\ z.pinned \in Int
    BY <1>2, <1>3 DEF Account
  <2> QED BY <1>2, <1>3, <2>1
<1>7. ASSUME NEW size \in Int, NEW pinned \in Int, InStep(e, b, x, size, pinned)
      PROVE  InStep(e, b, z, size + 3 * v, pinned + LayerPins(r, size))
  <2> DEFINE p2 == IF size < b THEN k2 ELSE 0
             p1 == IF size + 2 * v < b THEN k1 ELSE 0
  <2>1. p2 \in Int /\ p1 \in Int /\ size + 2 * v \in Int
    BY <1>1
  <2>2. InStep(e, b, y, size + 2 * v, pinned + p2)
    BY <1>2, <1>7
  <2>3. InStep(e, b, z, (size + 2 * v) + v, (pinned + p2) + p1)
    <3> HIDE DEF p2
    <3>1. pinned + p2 \in Int
      BY <2>1
    <3> QED BY <1>3, <2>1, <2>2, <3>1
  <2>4. LayerPins(r, size) = p2 + p1
    BY <1>5
  <2> HIDE DEF p2, p1
  <2>5. (size + 2 * v) + v = size + 3 * v
        /\ (pinned + p2) + p1 = pinned + LayerPins(r, size)
    BY <1>1, <2>1, <2>4
  <2> QED BY <2>3, <2>5
<1> QED BY <1>3, <1>4, <1>6, <1>7 DEF e, b, v

-----------------------------------------------------------------------------
(***************************************************************************)
(* The expert matrices.                                                    *)
(***************************************************************************)
\* The places of a layer's matrices are places, in the order of the layers.
LEMMA ExpertIs ==
    ASSUME ExpertsAssumption, NEW k \in DOMAIN Experts
    PROVE  /\ k \in Nat /\ Experts[k].module \in Modules /\ Experts[k].module \in Nat
           /\ Experts[k].w13 \in Places(Experts[k].module)
           /\ Experts[k].w2 \in Places(Experts[k].module)
           /\ Experts[k].w13 \in Nat /\ Experts[k].w2 \in Nat
           /\ Experts[k].w13 < Experts[k].w2
           /\ W13(k) \in Param /\ W2(k) \in Param
           /\ \A l \in DOMAIN Experts : l < k => Experts[l].module < Experts[k].module
<1>1. /\ Experts[k] \in [module : Modules, w13 : Nat \ {0}, w2 : Nat \ {0}]
      /\ k \in Nat
  <2> DEFINE S == [module : Modules, w13 : Nat \ {0}, w2 : Nat \ {0}]
  <2>1. Experts \in Seq(S)
    BY DEF ExpertsAssumption
  <2> HIDE DEF S
  <2>2. Experts[k] \in S /\ k \in Nat
    BY <2>1
  <2> QED BY <2>2 DEF S
<1>2. /\ Experts[k].module \in Modules /\ Experts[k].w13 \in Nat \ {0}
      /\ Experts[k].w2 \in Nat \ {0}
  BY <1>1
<1>3. /\ Experts[k].w13 < Experts[k].w2
      /\ Experts[k].w2 <= Len(ModuleParams[Experts[k].module])
      /\ \A l \in DOMAIN Experts : l < k => Experts[l].module < Experts[k].module
  BY DEF ExpertsAssumption
<1>4. Len(ModuleParams[Experts[k].module]) \in Nat
  BY <1>2
<1>5. /\ Experts[k].w13 \in Places(Experts[k].module)
      /\ Experts[k].w2 \in Places(Experts[k].module)
  BY <1>2, <1>3, <1>4 DEF Places
<1>6. W13(k) \in Param /\ W2(k) \in Param /\ Experts[k].module \in Nat
  BY <1>2, <1>5, PlacesAre DEF W13, W2
<1> QED BY <1>1, <1>2, <1>3, <1>5, <1>6

\* A matrix has one place.
LEMMA ExpertPlace ==
    ASSUME ExpertsAssumption, NEW k \in DOMAIN Experts,
           NEW n \in Modules, NEW j \in Places(n)
    PROVE  /\ ModuleParams[n][j] = W13(k) <=> n = Experts[k].module /\ j = Experts[k].w13
           /\ ModuleParams[n][j] = W2(k) <=> n = Experts[k].module /\ j = Experts[k].w2
<1>1. <<n, j>> \in Position /\ At(<<n, j>>) = ModuleParams[n][j]
  BY PositionIs DEF At
<1>2. /\ At(<<n, j>>) = W13(k) => <<n, j>> = <<Experts[k].module, Experts[k].w13>>
      /\ At(<<n, j>>) = W2(k) => <<n, j>> = <<Experts[k].module, Experts[k].w2>>
  BY <1>1 DEF ExpertsAssumption
<1> QED BY <1>1, <1>2 DEF W13, W2

\* The matrices of the layers are distinct parameters.
LEMMA ExpertsDiffer ==
    ASSUME ExpertsAssumption, NEW k \in DOMAIN Experts, NEW l \in DOMAIN Experts
    PROVE  /\ W13(k) = W13(l) => k = l
           /\ W2(k) = W2(l) => k = l
           /\ W13(k) # W2(l)
<1>1. Experts[k].module = Experts[l].module => k = l
  <2>1. /\ k \in Nat /\ l \in Nat
        /\ Experts[k].module \in Nat /\ Experts[l].module \in Nat
        /\ k < l => Experts[k].module < Experts[l].module
        /\ l < k => Experts[l].module < Experts[k].module
    BY ExpertIs
  <2> QED BY <2>1
<1>2. /\ Experts[k].module \in Modules
      /\ Experts[k].w13 \in Places(Experts[k].module)
      /\ Experts[k].w2 \in Places(Experts[k].module)
      /\ Experts[k].w13 \in Nat /\ Experts[k].w2 \in Nat
      /\ Experts[k].w13 < Experts[k].w2
  BY ExpertIs
<1> DEFINE m == Experts[k].module
<1>a. /\ \A j \in Places(m) : ModuleParams[m][j] = W13(l) => m = Experts[l].module
      /\ \A j \in Places(m) : ModuleParams[m][j] = W2(l) =>
                              m = Experts[l].module /\ j = Experts[l].w2
  BY <1>2, ExpertPlace
<1>b. W13(k) = ModuleParams[m][Experts[k].w13] /\ W2(k) = ModuleParams[m][Experts[k].w2]
  BY DEF W13, W2
<1> HIDE DEF m
<1>3. W13(k) = W13(l) => m = Experts[l].module
  BY <1>2, <1>a, <1>b, Zenon DEF m
<1>4. W2(k) = W2(l) => m = Experts[l].module
  BY <1>2, <1>a, <1>b, Zenon DEF m
<1>5. W13(k) = W2(l) => m = Experts[l].module /\ Experts[k].w13 = Experts[l].w2
  BY <1>2, <1>a, <1>b, Zenon DEF m
<1>6. k = l => Experts[k].w13 # Experts[l].w2
  BY <1>2
<1> QED BY <1>1, <1>3, <1>4, <1>5, <1>6 DEF m

\* The settings of a plan, as far as the placement depends on them.
ExpertsOnly(c) ==
    /\ c.onCpu = {}
    /\ c.selected = UNION { {W13(l), W2(l)} : l \in DOMAIN Experts }

\* The matrices of the first l layers that the filter leaves in.
Matrices(c, l) ==
    { q \in Param :
        \E k \in DOMAIN Experts :
            /\ k <= l
            /\ Unfiltered(c, Experts[k].module)
            /\ q \in {W13(k), W2(k)} }

\* Under such settings a place is offered if it holds a matrix.
LEMMA OffersAre ==
    ASSUME ExpertsAssumption, NEW c, ExpertsOnly(c), NEW n, NEW j
    PROVE  Offers(c, n, j) <=>
             /\ Unfiltered(c, n)
             /\ \E k \in DOMAIN Experts : ModuleParams[n][j] \in {W13(k), W2(k)}
BY DEF Offers, ExpertsOnly

\* Before a layer's w13 the layers before it are offered, before its w2 also w13.
LEMMA OffersBeforeExpert ==
    ASSUME ExpertsAssumption, NEW c, ExpertsOnly(c), NEW k \in DOMAIN Experts,
           Unfiltered(c, Experts[k].module)
    PROVE  /\ OffersBefore(c, Experts[k].module, Experts[k].w13) = Matrices(c, k - 1)
           /\ OffersBefore(c, Experts[k].module, Experts[k].w2)
                = Matrices(c, k - 1) \union {W13(k)}
<1> DEFINE m == Experts[k].module
           a == Experts[k].w13
           b == Experts[k].w2
<1>1. m \in Nat /\ a \in Nat /\ b \in Nat /\ a < b /\ k \in Nat
  BY ExpertIs
<1>2. ASSUME NEW q, NEW i, q \in OffersBefore(c, m, i), i \in {a, b}
      PROVE  \E l \in DOMAIN Experts :
               /\ Unfiltered(c, Experts[l].module) /\ q \in Param
               /\ \/ q = W13(l) /\ (l <= k - 1 \/ (l = k /\ i = b))
                  \/ q = W2(l) /\ l <= k - 1
  <2>1. PICK n \in Modules : \E j \in Places(n) :
            q = ModuleParams[n][j] /\ Offers(c, n, j) /\ (n < m \/ (n = m /\ j < i))
    BY <1>2 DEF OffersBefore
  <2>2. PICK j \in Places(n) :
            q = ModuleParams[n][j] /\ Offers(c, n, j) /\ (n < m \/ (n = m /\ j < i))
    BY <2>1
  <2>3. PICK l \in DOMAIN Experts : q \in {W13(l), W2(l)}
    BY <2>2, OffersAre
  <2>4. Unfiltered(c, n) /\ q \in Param
    BY <2>2, OffersAre, PlacesAre
  <2>5. /\ n = Experts[l].module
        /\ q = W13(l) => j = Experts[l].w13
        /\ q = W2(l) => j = Experts[l].w2
    BY <2>2, <2>3, ExpertPlace
  <2>6. /\ l \in Nat /\ n \in Nat /\ j \in Nat
        /\ l < k => n < m
        /\ k < l => m < n
    BY <2>2, <2>5, ExpertIs, PlacesAre
  <2>7. l <= k - 1 \/ l = k
    BY <1>1, <2>2, <2>6
  <2>8. CASE l = k
    <3>1. j < i
      BY <1>1, <2>2, <2>5, <2>8
    <3>2. q = W13(l) /\ i = b
      BY <1>1, <1>2, <2>3, <2>5, <2>8, <3>1
    <3> QED BY <2>4, <2>5, <2>8, <3>2
  <2> QED BY <2>3, <2>4, <2>5, <2>7, <2>8
<1>3. ASSUME NEW q, NEW i \in {a, b}, NEW l \in DOMAIN Experts, l <= k - 1,
             Unfiltered(c, Experts[l].module), q \in {W13(l), W2(l)}
      PROVE  q \in OffersBefore(c, m, i)
  <2>1. /\ l \in Nat /\ Experts[l].module \in Modules /\ Experts[l].module < m
        /\ Experts[l].w13 \in Places(Experts[l].module)
        /\ Experts[l].w2 \in Places(Experts[l].module)
        /\ W13(l) \in Param /\ W2(l) \in Param
    <3>1. l \in Nat /\ l < k
      BY <1>1, <1>3, ExpertIs
    <3> QED BY <3>1, ExpertIs
  <2>2. PICK j \in Places(Experts[l].module) : q = ModuleParams[Experts[l].module][j]
    BY <1>3, <2>1 DEF W13, W2
  <2>3. Offers(c, Experts[l].module, j)
    BY <1>3, <2>2, OffersAre
  <2> QED BY <1>3, <2>1, <2>2, <2>3 DEF OffersBefore
<1>4. W13(k) \in OffersBefore(c, m, b)
  <2>1. a \in Places(m) /\ m \in Modules /\ W13(k) = ModuleParams[m][a]
        /\ W13(k) \in Param
    BY ExpertIs DEF W13
  <2>2. Offers(c, m, a)
    BY <2>1, OffersAre
  <2> QED BY <1>1, <2>1, <2>2 DEF OffersBefore
<1>5. OffersBefore(c, m, a) \subseteq Matrices(c, k - 1)
  <2> SUFFICES ASSUME NEW q, q \in OffersBefore(c, m, a) PROVE q \in Matrices(c, k - 1)
    OBVIOUS
  <2>1. PICK l \in DOMAIN Experts :
           /\ Unfiltered(c, Experts[l].module) /\ q \in Param
           /\ \/ q = W13(l) /\ (l <= k - 1 \/ (l = k /\ a = b))
              \/ q = W2(l) /\ l <= k - 1
    BY <1>2
  <2>2. l <= k - 1 /\ q \in {W13(l), W2(l)}
    <3> HIDE DEF a, b
    <3>1. a # b
      BY <1>1
    <3> QED BY <2>1, <3>1
  <2> QED BY <2>1, <2>2 DEF Matrices
<1>6. OffersBefore(c, m, b) \subseteq Matrices(c, k - 1) \union {W13(k)}
  BY <1>2 DEF Matrices
<1>7. /\ Matrices(c, k - 1) \subseteq OffersBefore(c, m, a)
      /\ Matrices(c, k - 1) \subseteq OffersBefore(c, m, b)
  BY <1>3 DEF Matrices
<1> QED BY <1>4, <1>5, <1>6, <1>7

\* Which matrices a placement wants.
LEMMA ExpertWanted ==
    ASSUME ExpertsAssumption, NEW c, ExpertsOnly(c), NEW k \in DOMAIN Experts
    PROVE  /\ Wanted(c, W13(k)) <=>
                /\ Unfiltered(c, Experts[k].module)
                /\ SumOver(Size, Matrices(c, k - 1)) < c.budget
           /\ Wanted(c, W2(k)) <=>
                /\ Unfiltered(c, Experts[k].module)
                /\ SumOver(Size, Matrices(c, k - 1) \union {W13(k)}) < c.budget
<1> DEFINE m == Experts[k].module
<1>1. /\ m \in Modules /\ Experts[k].w13 \in Places(m) /\ Experts[k].w2 \in Places(m)
  BY ExpertIs
<1>2. /\ \A n \in Modules : \A j \in Places(n) :
            ModuleParams[n][j] = W13(k) => n = m /\ j = Experts[k].w13
      /\ \A n \in Modules : \A j \in Places(n) :
            ModuleParams[n][j] = W2(k) => n = m /\ j = Experts[k].w2
  BY ExpertPlace
<1>3. /\ W13(k) = ModuleParams[m][Experts[k].w13]
      /\ W2(k) = ModuleParams[m][Experts[k].w2]
  BY DEF W13, W2
<1>4. /\ Wanted(c, W13(k)) <=> Offers(c, m, Experts[k].w13)
                               /\ OffersSize(c, m, Experts[k].w13) < c.budget
      /\ Wanted(c, W2(k)) <=> Offers(c, m, Experts[k].w2)
                              /\ OffersSize(c, m, Experts[k].w2) < c.budget
  <2> HIDE DEF m
  <2> QED BY <1>1, <1>2, <1>3 DEF Wanted
<1>5. /\ Offers(c, m, Experts[k].w13) <=> Unfiltered(c, m)
      /\ Offers(c, m, Experts[k].w2) <=> Unfiltered(c, m)
  BY <1>3, OffersAre
<1> QED BY <1>4, <1>5, OffersBeforeExpert DEF OffersSize

\* The matrices of one layer more.
LEMMA MatricesGrow ==
    ASSUME ExpertsAssumption, NEW c, NEW k \in DOMAIN Experts
    PROVE  /\ ~Unfiltered(c, Experts[k].module) => Matrices(c, k) = Matrices(c, k - 1)
           /\ Unfiltered(c, Experts[k].module) =>
                Matrices(c, k) = (Matrices(c, k - 1) \union {W13(k)}) \union {W2(k)}
           /\ W13(k) \notin Matrices(c, k - 1)
           /\ W2(k) \notin Matrices(c, k - 1) \union {W13(k)}
<1>1. /\ k \in Nat /\ W13(k) \in Param /\ W2(k) \in Param
      /\ \A l \in DOMAIN Experts : l \in Nat
  BY ExpertIs
<1>2. \A l \in DOMAIN Experts : /\ l <= k <=> l <= k - 1 \/ l = k
                                /\ l <= k - 1 => l # k
  BY <1>1
<1>3. \A l \in DOMAIN Experts :
         l # k => {W13(k), W2(k)} \cap {W13(l), W2(l)} = {} 
  BY ExpertsDiffer
<1>4. W13(k) # W2(k)
  BY ExpertsDiffer
<1> QED BY <1>1, <1>2, <1>3, <1>4 DEF Matrices

\* They are finitely many parameters.
LEMMA MatricesFinite ==
    ASSUME ExpertsAssumption, NEW c, NEW l
    PROVE  IsFiniteSet(Matrices(c, l)) /\ Matrices(c, l) \subseteq Param
<1> DEFINE D == DOMAIN Experts
           first == [k \in D |-> W13(k)]
           second == [k \in D |-> W2(k)]
<1>1. IsFiniteSet(D)
  <2> DEFINE S == [module : Modules, w13 : Nat \ {0}, w2 : Nat \ {0}]
  <2>1. Experts \in Seq(S)
    BY DEF ExpertsAssumption
  <2> HIDE DEF S
  <2>2. D = 1..Len(Experts) /\ Len(Experts) \in Nat
    BY <2>1
  <2>3. IsFiniteSet(1..Len(Experts))
    BY <2>2, FS_Interval
  <2> QED BY <2>2, <2>3
<1>2. Matrices(c, l) \subseteq Image(first, D) \union Image(second, D)
  BY DEF Matrices, Image
<1> HIDE DEF D, first, second
<1>3. IsFiniteSet(Image(first, D)) /\ IsFiniteSet(Image(second, D))
  BY <1>1, BuffersFinite
<1>4. IsFiniteSet(Image(first, D) \union Image(second, D))
  BY <1>3, FS_Union
<1>5. IsFiniteSet(Matrices(c, l))
  BY <1>2, <1>4, FS_Subset
<1> QED BY <1>5 DEF Matrices

\* The settings c are those of the plan r, o is what they move, and f gives
\* the bytes that a parameter would pin without its padding.
Priced(c, r, o, f) ==
    /\ ExpertsOnly(c)
    /\ Selected(r) \in Nat /\ c.budget = Selected(r)
    /\ W2Bytes(r) \in Nat /\ W2Bytes(r) <= LoadedW2Bytes(r)
    /\ \A p \in Param : (p \in o <=> Wanted(c, p)) /\ f[p] \in Nat
    /\ \A k \in DOMAIN Experts :
          /\ Size[W13(k)] = 2 * LoadedW2Bytes(r) /\ Size[W2(k)] = LoadedW2Bytes(r)
          /\ f[W13(k)] = RoundPinned(2 * W2Bytes(r), r.exact)
          /\ f[W2(k)] = RoundPinned(W2Bytes(r), r.exact)

\* A layer that the filter leaves in: its bytes, and what the matrices that
\* were moved pin.
Adds(c, r, o, f, k) ==
    /\ SumOver(Size, Matrices(c, k)) = SumOver(Size, Matrices(c, k - 1)) + 3 * LoadedW2Bytes(r)
    /\ SumOver(f, Matrices(c, k) \cap o)
         = SumOver(f, Matrices(c, k - 1) \cap o)
           + LayerPins(r, SumOver(Size, Matrices(c, k - 1)))

\* Every layer that the filter leaves in adds that.
LEMMA LayerAdds ==
    ASSUME ExpertsAssumption, SizeAssumption, NEW c, NEW r, NEW o, NEW f,
           Priced(c, r, o, f),
           NEW k \in DOMAIN Experts, Unfiltered(c, Experts[k].module)
    PROVE  Adds(c, r, o, f, k)
<1> DEFINE A == Matrices(c, k - 1)
           a == W13(k)
           z == W2(k)
           u == W2Bytes(r)
           w == LoadedW2Bytes(r)
           b == Selected(r)
           X == A \union {a}
           Z == X \union {z}
<1>0. /\ ExpertsOnly(c) /\ c.budget = b
      /\ \A p \in Param : p \in o <=> Wanted(c, p)
      /\ \A p \in Param : f[p] \in Int
      /\ Size[a] = 2 * w /\ Size[z] = w
      /\ f[a] = RoundPinned(2 * u, r.exact) /\ f[z] = RoundPinned(u, r.exact)
  BY DEF Priced
<1>1. IsFiniteSet(A) /\ A \subseteq Param
  BY MatricesFinite
<1>2. Matrices(c, k) = Z /\ a \notin A /\ z \notin X
  BY MatricesGrow
<1>3. a \in Param /\ z \in Param
  BY ExpertIs
<1>4. /\ a \in o <=> SumOver(Size, A) < b
      /\ z \in o <=> SumOver(Size, X) < b
  BY <1>0, <1>3, ExpertWanted
<1>5. Size[a] = 2 * w /\ Size[z] = w /\ w \in Nat
  BY <1>0, <1>3 DEF SizeAssumption
<1>6. \A p \in Param : Size[p] \in Int
  BY DEF SizeAssumption
<1>7. /\ f[a] = RoundPinned(2 * u, r.exact) /\ f[z] = RoundPinned(u, r.exact)
      /\ f[a] \in Int /\ f[z] \in Int
  BY <1>0, <1>3
<1>8. LayerPins(r, SumOver(Size, A)) =
        (IF SumOver(Size, A) < b THEN f[a] ELSE 0)
        + (IF SumOver(Size, A) + 2 * w < b THEN f[z] ELSE 0)
  BY <1>7 DEF LayerPins
<1>9. Matrices(c, k - 1) = A /\ LoadedW2Bytes(r) = w
  OBVIOUS
<1> HIDE DEF A, a, z, u, w, b
<1>10. IsFiniteSet(X) /\ X \subseteq Param /\ Z \subseteq Param
  BY <1>1, <1>3, FS_AddElement
<1>11. SumOver(Size, X) = SumOver(Size, A) + Size[a] /\ SumOver(Size, A) \in Int
  <2> HIDE DEF X
  <2>1. \A y \in A \union {a} : Size[y] \in Int
    BY <1>1, <1>3, <1>6
  <2>2. SumOver(Size, A \union {a}) = SumOver(Size, A) + Size[a]
    BY <1>1, <1>2, <2>1, SumAdd
  <2>3. SumOver(Size, A) \in Int
    BY <1>1, <2>1, SumInt
  <2> QED BY <2>2, <2>3 DEF X
<1>12. SumOver(Size, Z) = SumOver(Size, X) + Size[z]
  <2> HIDE DEF X
  <2>1. \A y \in X \union {z} : Size[y] \in Int
    BY <1>10, <1>3, <1>6
  <2> QED BY <1>2, <1>10, <2>1, SumAdd
<1>13. SumOver(Size, Z) = SumOver(Size, A) + 3 * w
       /\ SumOver(Size, X) = SumOver(Size, A) + 2 * w
  <2> HIDE DEF X, Z
  <2> QED BY <1>5, <1>11, <1>12
<1> DEFINE P(S) == SumOver(f, S \cap o)
<1>14. ASSUME NEW S, IsFiniteSet(S), S \subseteq Param, NEW p \in Param, p \notin S
       PROVE  /\ P(S) \in Int
              /\ P(S \union {p}) = P(S) + IF p \in o THEN f[p] ELSE 0
  <2> DEFINE T == S \cap o
  <2>1. IsFiniteSet(T) /\ p \notin T /\ \A y \in T \union {p} : f[y] \in Int
    <3>1. IsFiniteSet(T)
      BY <1>14, FS_Subset
    <3> QED BY <1>0, <1>14, <3>1
  <2>2. p \in o => (S \union {p}) \cap o = T \union {p}
    OBVIOUS
  <2>3. p \notin o => (S \union {p}) \cap o = T
    OBVIOUS
  <2> HIDE DEF T
  <2>4. SumOver(f, T \union {p}) = SumOver(f, T) + f[p] /\ SumOver(f, T) \in Int
    BY <2>1, SumAdd, SumInt
  <2>5. CASE p \in o
    BY <2>2, <2>4, <2>5 DEF T
  <2>6. CASE p \notin o
    <3> DEFINE t == SumOver(f, T)
    <3>1. t \in Int /\ P(S) = t /\ P(S \union {p}) = t
      BY <2>3, <2>4, <2>6 DEF T
    <3>2. (IF p \in o THEN f[p] ELSE 0) = 0
      BY <2>6
    <3> HIDE DEF t, P
    <3> QED BY <3>1, <3>2
  <2> QED BY <2>5, <2>6
<1>15. P(A) \in Int /\ P(X) = P(A) + IF a \in o THEN f[a] ELSE 0
  BY <1>1, <1>2, <1>3, <1>14
<1>16. P(Z) = P(X) + IF z \in o THEN f[z] ELSE 0
  <2> HIDE DEF X, P
  <2> QED BY <1>2, <1>3, <1>10, <1>14
<1> HIDE DEF P
<1>17. P(Z) = P(A) + LayerPins(r, SumOver(Size, A))
  <2> DEFINE x == IF a \in o THEN f[a] ELSE 0
             y == IF z \in o THEN f[z] ELSE 0
  <2>1. LayerPins(r, SumOver(Size, A)) = x + y
    <3> HIDE DEF X
    <3> QED BY <1>4, <1>8, <1>13
  <2>2. x \in Int /\ y \in Int
    BY <1>7
  <2> HIDE DEF x, y, X, Z
  <2>3. P(X) = P(A) + x /\ P(Z) = P(X) + y
    BY <1>15, <1>16 DEF x, y
  <2> QED BY <1>15, <2>1, <2>2, <2>3
<1> HIDE DEF X, Z
<1> QED BY <1>2, <1>9, <1>13, <1>17 DEF P, Adds

\* The planner's loop and the placement, layer by layer.  The planner stands n
\* layers in, as many as the filter has left in so far.
Alike(c, r, h, o, f, l, n) ==
    /\ n \in 0..l
    /\ c.allowed = NoFilter => n = l
    /\ InStep(~IsPadded(r), Selected(r), h[n], SumOver(Size, Matrices(c, l)),
              SumOver(f, Matrices(c, l) \cap o))

\* Counting layers.
LEMMA OneLayerOn ==
    ASSUME NEW N \in Nat, NEW l \in 1..N, NEW n \in 0..(l - 1)
    PROVE  /\ n \in 0..l /\ n + 1 \in 1..N /\ (n + 1) - 1 = n /\ n \in 0..N /\ n < l
           /\ n + 1 \in 0..l
           /\ (n = l - 1 => n + 1 = l)
OBVIOUS

\* The two walks stay alike, by a least layer where they would not be.
LEMMA AlikeThroughout ==
    ASSUME ExpertsAssumption, SizeAssumption, NEW c, NEW r, NEW o, NEW f,
           Priced(c, r, o, f), NEW N \in Nat \ {0}, DOMAIN Experts = 1..N,
           NEW h, h[0] = [spent |-> 0, pinned |-> 0],
           \A l \in 1..N : h[l] = PlanLayer(r, h[l - 1])
    PROVE  /\ \A l \in 0..N : h[l] \in Account
           /\ \A l \in 1..N : h[l].pinned >= h[l - 1].pinned
           /\ \A l \in 0..N : \E n : Alike(c, r, h, o, f, l, n)
<1> DEFINE B == {l \in 0..N : ~(h[l] \in Account /\ \E n : Alike(c, r, h, o, f, l, n))}
<1>a. /\ Selected(r) \in Nat /\ W2Bytes(r) \in Nat
      /\ LoadedW2Bytes(r) \in Nat /\ W2Bytes(r) <= LoadedW2Bytes(r)
      /\ RoundPinned(2 * W2Bytes(r), r.exact) \in Nat
      /\ RoundPinned(W2Bytes(r), r.exact) \in Nat
  <2>1. 1 \in DOMAIN Experts
    OBVIOUS
  <2>2. W13(1) \in Param /\ W2(1) \in Param
    BY <2>1, ExpertIs
  <2>3. /\ Selected(r) \in Nat
        /\ W2Bytes(r) \in Nat /\ W2Bytes(r) <= LoadedW2Bytes(r)
        /\ Size[W2(1)] = LoadedW2Bytes(r)
        /\ f[W13(1)] = RoundPinned(2 * W2Bytes(r), r.exact)
        /\ f[W2(1)] = RoundPinned(W2Bytes(r), r.exact)
        /\ f[W13(1)] \in Nat /\ f[W2(1)] \in Nat
    BY <2>1, <2>2 DEF Priced
  <2>4. Size[W2(1)] \in Nat
    BY <2>2 DEF SizeAssumption
  <2> QED BY <2>3, <2>4
<1>0. \A l \in 1..N : h[l - 1] \in Account =>
         h[l] \in Account /\ h[l].pinned >= h[l - 1].pinned
  BY <1>a, PlanLayerInStep
<1>1. ASSUME B # {} PROVE FALSE
  <2>0. B \subseteq Nat
    OBVIOUS
  <2> HIDE DEF B
  <2>1. PICK l \in B : \A j \in B : l <= j
    BY <1>1, <2>0, Least
  <2> USE DEF B
  <2>2. l \in 0..N /\ ~(h[l] \in Account /\ \E n : Alike(c, r, h, o, f, l, n))
    OBVIOUS
  <2>3. ASSUME NEW j \in 0..N, j < l
        PROVE  h[j] \in Account /\ \E n : Alike(c, r, h, o, f, j, n)
    <3>1. j \notin B
      <4> HIDE DEF B
      <4>1. l \in Nat /\ j \in Nat
        BY <2>0
      <4> QED BY <2>1, <2>3, <4>1
    <3> QED BY <3>1
  <2> HIDE DEF B
  <2>4. CASE l = 0
    <3>1. h[0] \in Account /\ h[0].spent = 0 /\ h[0].pinned = 0
      BY DEF Account
    <3>2. Matrices(c, 0) = {}
      <4>1. \A k \in DOMAIN Experts : ~(k <= 0)
        OBVIOUS
      <4> QED BY <4>1 DEF Matrices
    <3>3. SumOver(Size, Matrices(c, 0)) = 0 /\ SumOver(f, Matrices(c, 0) \cap o) = 0
      <4>1. Matrices(c, 0) \cap o = {}
        BY <3>2
      <4> QED BY <3>2, <4>1, SumEmpty
    <3>4. InStep(~IsPadded(r), Selected(r), h[0], 0, 0)
      BY <1>a, <3>1 DEF InStep
    <3>5. Alike(c, r, h, o, f, 0, 0)
      BY <3>3, <3>4 DEF Alike
    <3> QED BY <2>2, <2>4, <3>1, <3>5
  <2>5. CASE l # 0
    <3>1. l \in 1..N /\ l - 1 \in 0..N /\ l - 1 < l /\ l \in DOMAIN Experts
      BY <2>2, <2>5
    <3>2. PICK n : Alike(c, r, h, o, f, l - 1, n)
      BY <2>3, <3>1
    <3>3. h[l] \in Account
      BY <1>0, <2>3, <3>1
    <3> DEFINE S == SumOver(Size, Matrices(c, l - 1))
               Q == SumOver(f, Matrices(c, l - 1) \cap o)
    <3>4. /\ n \in 0..(l - 1)
          /\ c.allowed = NoFilter => n = l - 1
          /\ InStep(~IsPadded(r), Selected(r), h[n], S, Q)
      BY <3>2 DEF Alike
    <3>5. S \in Int /\ Q \in Int
      <4> DEFINE A == Matrices(c, l - 1)
      <4>1. IsFiniteSet(A) /\ A \subseteq Param
        BY MatricesFinite
      <4> HIDE DEF A
      <4>2. IsFiniteSet(A \cap o)
        BY <4>1, FS_Subset
      <4>3. \A p \in A : Size[p] \in Int /\ f[p] \in Int
        BY <4>1 DEF SizeAssumption, Priced
      <4>4. SumOver(Size, A) \in Int /\ SumOver(f, A \cap o) \in Int
        BY <4>1, <4>2, <4>3, SumInt
      <4> QED BY <4>4 DEF A
    <3>6. CASE ~Unfiltered(c, Experts[l].module)
      <4>1. Matrices(c, l) = Matrices(c, l - 1)
        BY <3>1, <3>6, MatricesGrow
      <4>2. c.allowed # NoFilter
        BY <3>6 DEF Unfiltered
      <4>3. n \in 0..l
        BY <3>1, <3>4, OneLayerOn
      <4>4. Alike(c, r, h, o, f, l, n)
        BY <3>4, <4>1, <4>2, <4>3 DEF Alike
      <4> QED BY <2>2, <3>3, <4>4
    <3>7. CASE Unfiltered(c, Experts[l].module)
      <4>1. /\ SumOver(Size, Matrices(c, l)) = S + 3 * LoadedW2Bytes(r)
            /\ SumOver(f, Matrices(c, l) \cap o) = Q + LayerPins(r, S)
        <5>1. Adds(c, r, o, f, l)
          BY <3>1, <3>7, LayerAdds
        <5> QED BY <5>1 DEF Adds
      <4>2. n + 1 \in 1..N /\ (n + 1) - 1 = n /\ n \in 0..N /\ n < l /\ n + 1 \in 0..l
            /\ (n = l - 1 => n + 1 = l)
        BY <3>1, <3>4, OneLayerOn
      <4>3. h[n] \in Account /\ h[n + 1] = PlanLayer(r, h[n])
        BY <2>3, <4>2
      <4> HIDE DEF S, Q
      <4>4. InStep(~IsPadded(r), Selected(r), h[n + 1], S + 3 * LoadedW2Bytes(r), Q + LayerPins(r, S))
        BY <1>a, <3>4, <3>5, <4>3, PlanLayerInStep
      <4>5. Alike(c, r, h, o, f, l, n + 1)
        <5>1. c.allowed = NoFilter => n + 1 = l
          BY <3>4, <4>2
        <5>2. InStep(~IsPadded(r), Selected(r), h[n + 1], SumOver(Size, Matrices(c, l)),
                     SumOver(f, Matrices(c, l) \cap o))
          BY <4>1, <4>4
        <5> QED BY <4>2, <5>1, <5>2 DEF Alike
      <4> QED BY <2>2, <3>3, <4>5
    <3> QED BY <3>6, <3>7
  <2> QED BY <2>4, <2>5
<1>2. \A l \in 0..N : h[l] \in Account /\ \E n : Alike(c, r, h, o, f, l, n)
  BY <1>1
<1> HIDE DEF B
<1>3. \A l \in 1..N : l - 1 \in 0..N
  OBVIOUS
<1> QED BY <1>0, <1>2, <1>3

-----------------------------------------------------------------------------
\* Rounding a size within the bound gives a natural number.
LEMMA RoundedIs ==
    ASSUME PlannerAssumption, NEW n \in Nat, n <= Power[MaxPower], NEW e
    PROVE  RoundPinned(n, e) \in Nat
<1>1. MaxPower \in Nat /\ PageBytes \in Nat \ {0}
  BY DEF PlannerAssumption
<1>2. Paged(n) \in Nat /\ Pow2(n) \in Nat
  BY <1>1, PagedIs, Pow2Is
<1> QED BY <1>2 DEF RoundPinned

\* The part of a layer's matrix that a rank has is a number.
LEMMA RankDimsAre ==
    ASSUME PlannerAssumption, NEW ep
    PROVE  RankExperts(ep) \in Nat /\ RankInter(ep) \in Nat
<1>1. Ranks \in Nat \ {0} /\ Dims.experts \in Nat /\ Dims.inter \in Nat
  BY DEF PlannerAssumption
<1>2. Dims.experts \div Ranks \in Nat /\ Dims.inter \div Ranks \in Nat
  BY <1>1, Division
<1> QED BY <1>1, <1>2 DEF RankExperts, RankInter

\* Padding does not shrink a matrix.
LEMMA PaddingAdds ==
    ASSUME PlannerAssumption, NEW r \in Request
    PROVE  W2Bytes(r) \in Nat /\ LoadedW2Bytes(r) \in Nat
           /\ W2Bytes(r) <= LoadedW2Bytes(r)
<1> DEFINE E == RankExperts(r.ep)
           I == RankInter(r.ep)
           C == CeilTo(r.tile, I)
           H == Dims.hidden
           P == PayloadQuarterBits(r)
<1>1. E \in Nat /\ I \in Nat /\ H \in Nat /\ r.tile \in Nat \ {0}
  BY RankDimsAre DEF PlannerAssumption, Request
<1>2. P \in Nat
  BY DEF PayloadQuarterBits, Request
<1>3. C \in Nat /\ I <= C
  <2> HIDE DEF I
  <2> QED BY <1>1, CeilIs
<1>4. W2Bytes(r) = (E * I * H * P) \div 32 /\ LoadedW2Bytes(r) = (E * C * H * P) \div 32
  BY DEF W2Bytes, LoadedW2Bytes
<1> HIDE DEF E, I, C, H, P
<1>5. ASSUME NEW x \in Nat, NEW y \in Nat, NEW z \in Nat, x <= y
      PROVE  x * z \in Nat /\ y * z \in Nat /\ x * z <= y * z
             /\ z * x \in Nat /\ z * y \in Nat /\ z * x <= z * y
  BY <1>5
<1>6. E * I \in Nat /\ E * C \in Nat /\ E * I <= E * C
  BY <1>1, <1>3, <1>5
<1> DEFINE u1 == E * I
           v1 == E * C
           u2 == u1 * H
           v2 == v1 * H
           u == u2 * P
           v == v2 * P
<1>7. u2 \in Nat /\ v2 \in Nat /\ u2 <= v2
  <2> HIDE DEF u1, v1
  <2>1. u1 \in Nat /\ v1 \in Nat /\ u1 <= v1
    BY <1>6 DEF u1, v1
  <2> QED BY <1>1, <1>5, <2>1
<1>8. u \in Nat /\ v \in Nat /\ u <= v
  <2> HIDE DEF u2, v2
  <2> QED BY <1>2, <1>5, <1>7
<1>9. W2Bytes(r) = u \div 32 /\ LoadedW2Bytes(r) = v \div 32
  BY <1>4
<1> HIDE DEF u, v
<1>10. u \div 32 \in Nat /\ v \div 32 \in Nat /\ u \div 32 <= v \div 32
  BY <1>8
<1> QED BY <1>9, <1>10

\* What each parameter would pin without padding, as a function.
Unpadded(r) == [p \in Param |-> UnpaddedHostBytes(r, p)]

\* PinnedUnpadded is the sum of them over the moved parameters.
LEMMA PinnedUnpaddedIs ==
    ASSUME NEW r, offloaded \subseteq Param
    PROVE  PinnedUnpadded(r) = SumOver(Unpadded(r), offloaded)
<1> DEFINE S == offloaded
           f == Unpadded(r)
           Op(h) == h = [s \in SUBSET S |->
                           IF s = {} THEN 0
                           ELSE UnpaddedHostBytes(r, Chosen(s)) + h[s \ {Chosen(s)}]]
<1>1. PinnedUnpadded(r) = (CHOOSE h : Op(h))[S]
  BY DEF PinnedUnpadded, MapThenSumSet, MapThenFoldSet, Chosen
<1>2. \A s \in SUBSET S : s # {} => f[Chosen(s)] = UnpaddedHostBytes(r, Chosen(s))
  BY ChosenIn DEF Unpadded
<1>3. ASSUME NEW h PROVE Op(h) <=> Sums(h, f, S)
  <2> HIDE DEF f
  <2> QED BY <1>2 DEF Sums
<1>4. (CHOOSE h : Op(h)) = (CHOOSE h : Sums(h, f, S))
  <2> HIDE DEF Op, f
  <2> QED BY <1>3
<1> HIDE DEF Op
<1> QED BY <1>1, <1>4 DEF SumOver

\* A load that a plan is for has that plan's settings and sizes; without
\* padding its matrices pin what they would without padding.
LEMMA PlanIsPriced ==
    ASSUME IInv, PlacementInv, PlannerAssumption, HostAssumption, SizeAssumption,
           ExpertsAssumption, ModuleAssumption, ConfigAssumption,
           stage = "done", MovesExperts, NEW r \in Request, IsPlan(r), r.known
    PROVE  /\ Priced(conf, r, offloaded, Unpadded(r))
           /\ Dims.layers \in Nat \ {0} /\ DOMAIN Experts = 1..Dims.layers
           /\ offloaded \subseteq Matrices(conf, Dims.layers)
           /\ ~IsPadded(r) => \A p \in offloaded : Buffer[p] = Unpadded(r)[p]
<1>1. ExpertsOnly(conf) /\ conf.uva /\ r.exact = conf.exactPinned
      /\ conf.budget = Selected(r)
  BY DEF IsPlan, MovesExperts, ExpertsOnly
<1>2. conf.budget \in Nat /\ offloaded \subseteq Param
  BY ConfTyped DEF IInv, TypeOK
<1>3. \A p \in Param : p \in offloaded <=> Wanted(conf, p)
  BY <1>1, PlacedIsWanted, WantedIs DEF PlacementInv
<1>4. W2Bytes(r) \in Nat /\ LoadedW2Bytes(r) \in Nat /\ W2Bytes(r) <= LoadedW2Bytes(r)
  BY PaddingAdds
<1>5. \A k \in DOMAIN Experts :
         /\ W13(k) \in Param /\ W2(k) \in Param
         /\ Size[W13(k)] = 2 * LoadedW2Bytes(r) /\ Size[W2(k)] = LoadedW2Bytes(r)
  BY ExpertIs DEF IsPlan
<1>7. Dims.layers \in Nat \ {0} /\ DOMAIN Experts = 1..Dims.layers
  <2>1. Dims.layers \in Nat \ {0}
    BY DEF PlannerAssumption
  <2> DEFINE S == [module : Modules, w13 : Nat \ {0}, w2 : Nat \ {0}]
  <2>2. Experts \in Seq(S) /\ Dims.layers = Len(Experts)
    BY DEF ExpertsAssumption, IsPlan
  <2> HIDE DEF S
  <2>3. DOMAIN Experts = 1..Len(Experts)
    BY <2>2
  <2> QED BY <2>1, <2>2, <2>3
<1>9. /\ RoundPinned(2 * W2Bytes(r), r.exact) \in Nat
      /\ RoundPinned(W2Bytes(r), r.exact) \in Nat
  <2>1. 1 \in DOMAIN Experts
    BY <1>7
  <2>2. Size[W13(1)] <= Power[MaxPower] /\ Size[W13(1)] = 2 * LoadedW2Bytes(r)
    BY <1>5, <2>1 DEF HostAssumption
  <2>3. Power[MaxPower] \in Nat
    BY PowerIs DEF PlannerAssumption
  <2>4. /\ 2 * W2Bytes(r) \in Nat /\ 2 * W2Bytes(r) <= Power[MaxPower]
        /\ W2Bytes(r) <= Power[MaxPower]
    BY <1>4, <2>2, <2>3
  <2> QED BY <1>4, <2>4, RoundedIs
<1>10. /\ \A k \in DOMAIN Experts :
            /\ Unpadded(r)[W13(k)] = RoundPinned(2 * W2Bytes(r), r.exact)
            /\ Unpadded(r)[W2(k)] = RoundPinned(W2Bytes(r), r.exact)
       /\ \A p \in Param : Unpadded(r)[p] \in Nat
  <2>1. \A k, l \in DOMAIN Experts : W2(k) # W13(l)
    <3> SUFFICES ASSUME NEW k \in DOMAIN Experts, NEW l \in DOMAIN Experts
                 PROVE  W2(k) # W13(l)
      OBVIOUS
    <3>1. CASE l = k
      BY <3>1, ExpertsDiffer
    <3>2. CASE l # k
      <4>1. {W13(k), W2(k)} \cap {W13(l), W2(l)} = {}
        BY <3>2, ExpertsDiffer
      <4> QED BY <4>1
    <3> QED BY <3>1, <3>2
  <2>2. \A p \in Param : Unpadded(r)[p] =
          RoundPinned(IF \E l \in DOMAIN Experts : p = W13(l)
                      THEN 2 * W2Bytes(r) ELSE W2Bytes(r), r.exact)
    BY DEF Unpadded, UnpaddedHostBytes
  <2>3. ASSUME NEW k \in DOMAIN Experts
        PROVE  /\ Unpadded(r)[W13(k)] = RoundPinned(2 * W2Bytes(r), r.exact)
               /\ Unpadded(r)[W2(k)] = RoundPinned(W2Bytes(r), r.exact)
    <3>1. W13(k) \in Param /\ W2(k) \in Param
      BY <1>5
    <3>2. \E l \in DOMAIN Experts : W13(k) = W13(l)
      OBVIOUS
    <3>3. ~\E l \in DOMAIN Experts : W2(k) = W13(l)
      BY <2>1
    <3> QED BY <2>2, <3>1, <3>2, <3>3
  <2>4. ASSUME NEW p \in Param PROVE Unpadded(r)[p] \in Nat
    <3>1. CASE \E l \in DOMAIN Experts : p = W13(l)
      BY <1>9, <2>2, <3>1
    <3>2. CASE ~\E l \in DOMAIN Experts : p = W13(l)
      BY <1>9, <2>2, <3>2
    <3> QED BY <3>1, <3>2
  <2> QED BY <2>3, <2>4
<1>6. Priced(conf, r, offloaded, Unpadded(r))
  <2>1. \A p \in Param : (p \in offloaded <=> Wanted(conf, p)) /\ Unpadded(r)[p] \in Nat
    BY <1>3, <1>10
  <2>2. \A k \in DOMAIN Experts :
           /\ Size[W13(k)] = 2 * LoadedW2Bytes(r) /\ Size[W2(k)] = LoadedW2Bytes(r)
           /\ Unpadded(r)[W13(k)] = RoundPinned(2 * W2Bytes(r), r.exact)
           /\ Unpadded(r)[W2(k)] = RoundPinned(W2Bytes(r), r.exact)
    BY <1>5, <1>10
  <2>3. Selected(r) \in Nat /\ conf.budget = Selected(r)
    BY <1>1, <1>2
  <2> QED BY <1>1, <1>4, <2>1, <2>2, <2>3 DEF Priced
<1>8. ASSUME NEW p \in offloaded
      PROVE  p \in Matrices(conf, Dims.layers)
             /\ \E k \in DOMAIN Experts : p \in {W13(k), W2(k)}
  <2>1. p \in Param /\ Wanted(conf, p)
    BY <1>2, <1>3
  <2>2. PICK n \in Modules : \E j \in Places(n) :
            ModuleParams[n][j] = p /\ Offers(conf, n, j)
    BY <2>1 DEF Wanted
  <2>3. PICK j \in Places(n) : ModuleParams[n][j] = p /\ Offers(conf, n, j)
    BY <2>2
  <2>4. Unfiltered(conf, n)
        /\ \E k \in DOMAIN Experts : ModuleParams[n][j] \in {W13(k), W2(k)}
    BY <1>1, <2>3, OffersAre
  <2>5. PICK k \in DOMAIN Experts : p \in {W13(k), W2(k)}
    BY <2>3, <2>4
  <2>6. n = Experts[k].module
    BY <2>3, <2>5, ExpertPlace
  <2>7. k <= Dims.layers
    BY <1>7
  <2> QED BY <2>1, <2>4, <2>5, <2>6, <2>7 DEF Matrices
<1>11. ASSUME ~IsPadded(r), NEW p \in offloaded PROVE Buffer[p] = Unpadded(r)[p]
  <2>1. Buffer[p] = RoundPinned(Size[p], r.exact)
    BY <1>1, <1>2 DEF Buffer, HostBytes, IsEligible, RoundPinned
  <2>2. PICK k \in DOMAIN Experts : p \in {W13(k), W2(k)}
    BY <1>8
  <2>3. LoadedW2Bytes(r) = W2Bytes(r)
    BY <1>11 DEF IsPadded
  <2> QED BY <1>5, <1>10, <2>1, <2>2, <2>3
<1> QED BY <1>6, <1>7, <1>8, <1>11

\* A finished load without padding has pinned what the plan said; with padding,
\* or under a filter, its matrices without their padding come to no more.
LEMMA PlanHolds ==
    ASSUME IInv, PlacementInv, PlannerAssumption, HostAssumption, SizeAssumption,
           ExpertsAssumption, ModuleAssumption, ConfigAssumption,
           stage = "done", MovesExperts, NEW r \in Request, IsPlan(r), r.known
    PROVE  /\ PinnedUnpadded(r) \in Int /\ PlannedBytes(r) \in Int
           /\ PinnedUnpadded(r) <= PlannedBytes(r)
           /\ conf.allowed = NoFilter /\ ~IsPadded(r) => Pinned = PlannedBytes(r)
<1> DEFINE N == Dims.layers
           c == conf
           o == offloaded
           f == Unpadded(r)
<1>1. /\ Priced(c, r, o, f)
      /\ N \in Nat \ {0} /\ DOMAIN Experts = 1..N
      /\ o \subseteq Matrices(c, N)
      /\ ~IsPadded(r) => \A p \in o : Buffer[p] = f[p]
  <2> HIDE DEF f
  <2> QED BY PlanIsPriced DEF f
<1>2. /\ PinnedUnpadded(r) = SumOver(f, o)
      /\ ~IsPadded(r) => Pinned = SumOver(f, o)
  <2>1. o \subseteq Param /\ IsFiniteSet(o)
    <3>1. o \subseteq Param
      BY DEF IInv, TypeOK
    <3>2. IsFiniteSet(Matrices(c, N))
      BY MatricesFinite
    <3> QED BY <1>1, <3>1, <3>2, FS_Subset
  <2>2. PinnedUnpadded(r) = SumOver(f, o) /\ Pinned = SumOver(Buffer, o)
    BY <2>1, PinnedUnpaddedIs, PinnedIs
  <2> HIDE DEF f
  <2>3. ~IsPadded(r) => SumOver(Buffer, o) = SumOver(f, o)
    BY <1>1, <2>1, SumSame
  <2> QED BY <2>2, <2>3
<1>3. PICK h : /\ h[0] = [spent |-> 0, pinned |-> 0]
               /\ \A l \in 1..N : h[l] = PlanLayer(r, h[l - 1])
               /\ PlannedBytes(r) = h[N].pinned
  BY <1>1, PlanningIs DEF PlannedBytes
<1> HIDE DEF N, c, o, f
<1>4. /\ \A l \in 0..N : h[l] \in Account
      /\ \A l \in 1..N : h[l].pinned >= h[l - 1].pinned
      /\ \A l \in 0..N : \E n : Alike(c, r, h, o, f, l, n)
  BY <1>1, <1>3, AlikeThroughout
<1>5. N \in 0..N /\ \A n \in 0..N : h[n].pinned \in Int
  BY <1>1, <1>4 DEF Account
<1>6. PICK n : Alike(c, r, h, o, f, N, n)
  BY <1>4, <1>5
<1>7. /\ n \in 0..N
      /\ c.allowed = NoFilter => n = N
      /\ SumOver(f, o) <= h[n].pinned
      /\ ~IsPadded(r) => SumOver(f, o) = h[n].pinned
  <2>1. Matrices(c, N) \cap o = o
    BY <1>1
  <2> QED BY <1>6, <2>1 DEF Alike, InStep
<1>8. h[n].pinned <= h[N].pinned
  <2> DEFINE g == [l \in 0..N |-> h[l].pinned]
  <2>1. \A l \in 0..N : g[l] \in Int /\ g[l] = h[l].pinned
    BY <1>5
  <2>2. \A l \in 1..N : g[l] >= g[l - 1]
    <3>1. \A l \in 1..N : l \in 0..N /\ l - 1 \in 0..N
      <4>1. N \in Nat
        BY <1>1
      <4> QED BY <4>1
    <3> HIDE DEF g
    <3> QED BY <1>4, <2>1, <3>1
  <2> HIDE DEF g
  <2>3. g[n] <= g[N]
    BY <1>1, <1>7, <2>1, <2>2, LastIsGreatest
  <2> QED BY <1>5, <1>7, <2>1, <2>3
<1>9. SumOver(f, o) \in Int
  <2>1. IsFiniteSet(Matrices(c, N)) /\ Matrices(c, N) \subseteq Param
    BY MatricesFinite
  <2>2. IsFiniteSet(o)
    BY <1>1, <2>1, FS_Subset
  <2>3. \A p \in o : f[p] \in Int
    BY <1>1, <2>1 DEF Priced
  <2> QED BY <2>2, <2>3, SumInt
<1> QED BY <1>2, <1>3, <1>5, <1>7, <1>8, <1>9 DEF c

\* plan_memory.py's walk over the layers and the hook's walk over vLLM's modules
\* pin the same, for every model, budget, rounding and order of modules.  Where
\* the backend pads the matrices, which the planner's walk leaves out, or under a
\* layer filter, those that the hook moves come to no more without their padding.
THEOREM PlannerIsRight == Spec => []PlannerAgrees
<1>1. IInv /\ PlacementInv => PlannerAgrees
  BY PlanHolds, PlannerAssumption, HostAssumption, SizeAssumption,
     ExpertsAssumption, ModuleAssumption, ConfigAssumption
  DEF PlannerAgrees, HostAssumption
<1> QED
  BY <1>1, PlacementInvariance, PTL

-----------------------------------------------------------------------------
(***************************************************************************)
(* The verdict.                                                            *)
(***************************************************************************)
\* The bytes of the tensors, as a function.
TensorBytes == [i \in DOMAIN Tensor |-> Tensor[i].bytes]

\* The bytes of a kind of tensor are a natural number within the bound.
LEMMA TensorsAre ==
    ASSUME PlannerAssumption, HostAssumption, NEW r, NEW kind
    PROVE  /\ IsFiniteSet(Tensors(r, kind)) /\ Tensors(r, kind) \subseteq DOMAIN Tensor
           /\ \A i \in DOMAIN Tensor : TensorBytes[i] \in Nat
           /\ KindBytes(r, kind) \in Nat
           /\ KindBytes(r, kind) <= Power[MaxPower]
           /\ \A i \in DOMAIN Tensor : TensorBytes[i] <= Power[MaxPower]
<1> DEFINE D == DOMAIN Tensor
           T == Tensors(r, kind)
<1>1. D = 1..Len(Tensor) /\ Len(Tensor) \in Nat
      /\ \A i \in D : Tensor[i].bytes \in Nat
  <2> DEFINE S == [kind : Kind, bytes : Nat, shard : Shard]
  <2>1. Tensor \in Seq(S)
    BY DEF PlannerAssumption
  <2>2. \A t \in S : t.bytes \in Nat
    OBVIOUS
  <2> HIDE DEF S
  <2>3. D = 1..Len(Tensor) /\ Len(Tensor) \in Nat /\ \A i \in D : Tensor[i] \in S
    BY <2>1
  <2> QED BY <2>2, <2>3
<1>2. IsFiniteSet(D)
  <2>1. IsFiniteSet(1..Len(Tensor))
    BY <1>1, UpTo
  <2> QED BY <1>1, <2>1
<1>3. T \subseteq D
  BY DEF Tensors
<1>4. IsFiniteSet(T)
  <2> HIDE DEF T, D
  <2> QED BY <1>2, <1>3, FS_Subset
<1>5. \A i \in D : TensorBytes[i] \in Nat /\ TensorBytes[i] = Tensor[i].bytes
  BY <1>1 DEF TensorBytes
<1>6. ASSUME NEW S, S \subseteq D
      PROVE  MapThenSumSet(LAMBDA i : Tensor[i].bytes, S) = SumOver(TensorBytes, S)
  <2> DEFINE f == TensorBytes
             Op(h) == h = [s \in SUBSET S |->
                             IF s = {} THEN 0
                             ELSE Tensor[Chosen(s)].bytes + h[s \ {Chosen(s)}]]
  <2>1. MapThenSumSet(LAMBDA i : Tensor[i].bytes, S) = (CHOOSE h : Op(h))[S]
    BY DEF MapThenSumSet, MapThenFoldSet, Chosen
  <2>2. \A s \in SUBSET S : s # {} => f[Chosen(s)] = Tensor[Chosen(s)].bytes
    <3> HIDE DEF f
    <3> QED BY <1>6, ChosenIn DEF TensorBytes, f
  <2>3. ASSUME NEW h PROVE Op(h) <=> Sums(h, f, S)
    <3> HIDE DEF f
    <3> QED BY <2>2 DEF Sums
  <2>4. (CHOOSE h : Op(h)) = (CHOOSE h : Sums(h, f, S))
    <3> HIDE DEF Op, f
    <3> QED BY <2>3
  <2> HIDE DEF Op
  <2> QED BY <2>1, <2>4 DEF SumOver
<1>7. KindBytes(r, kind) = SumOver(TensorBytes, T)
  BY <1>3, <1>6 DEF KindBytes
<1>8. SumOver(TensorBytes, D) <= Power[MaxPower]
  <2>1. MapThenSumSet(LAMBDA i : Tensor[i].bytes, D) <= Power[MaxPower]
    BY DEF HostAssumption
  <2> QED BY <1>6, <2>1
<1> HIDE DEF D, T
<1>9. \A S \in SUBSET D : /\ SumOver(TensorBytes, S) <= SumOver(TensorBytes, D)
                          /\ SumOver(TensorBytes, S) \in Int
  <2> SUFFICES ASSUME NEW S \in SUBSET D
               PROVE  /\ SumOver(TensorBytes, S) <= SumOver(TensorBytes, D)
                      /\ SumOver(TensorBytes, S) \in Int
    OBVIOUS
  <2>1. IsFiniteSet(S)
    BY <1>2, FS_Subset
  <2>2. SumOver(TensorBytes, S) <= SumOver(TensorBytes, D)
    BY <1>2, <1>5, SumSubset
  <2>3. SumOver(TensorBytes, S) \in Int
    BY <1>5, <2>1, SumInt
  <2> QED BY <2>2, <2>3
<1>10. Power[MaxPower] \in Nat
  BY PowerIs DEF PlannerAssumption
<1>11. ASSUME NEW S \in SUBSET D
       PROVE  SumOver(TensorBytes, S) \in Nat /\ SumOver(TensorBytes, S) <= Power[MaxPower]
  <2>1. IsFiniteSet(S) /\ {} \in SUBSET S /\ \A x \in S : TensorBytes[x] \in Nat
    BY <1>2, <1>5, FS_Subset
  <2>2. SumOver(TensorBytes, {}) <= SumOver(TensorBytes, S)
    BY <2>1, SumSubset
  <2>3. SumOver(TensorBytes, S) \in Int /\ SumOver(TensorBytes, D) \in Int
        /\ SumOver(TensorBytes, S) <= SumOver(TensorBytes, D)
    BY <1>9
  <2> QED BY <1>8, <1>10, <2>2, <2>3, SumEmpty
<1>12. \A i \in D : TensorBytes[i] <= Power[MaxPower]
  <2> SUFFICES ASSUME NEW i \in D PROVE TensorBytes[i] <= Power[MaxPower]
    OBVIOUS
  <2>1. i \notin {} /\ \A y \in {} \union {i} : TensorBytes[y] \in Int
    BY <1>5
  <2>2. SumOver(TensorBytes, {} \union {i}) = SumOver(TensorBytes, {}) + TensorBytes[i]
    BY <2>1, SumAdd, FS_EmptySet
  <2>3. {} \union {i} \in SUBSET D
    OBVIOUS
  <2>4. SumOver(TensorBytes, {} \union {i}) <= Power[MaxPower]
    BY <1>11, <2>3
  <2> QED BY <1>5, <2>2, <2>4, SumEmpty
<1> QED BY <1>3, <1>4, <1>5, <1>7, <1>11, <1>12 DEF D, T

\* What Engram pins is a number.
LEMMA EngramIs ==
    ASSUME PlannerAssumption, HostAssumption, NEW r
    PROVE  EngramPinned(r) \in Int
<1> DEFINE T == Tensors(r, "engram")
           one(n) == RoundPinned(n \div Ranks, r.exact) * Ranks
<1>0. Ranks \in Nat \ {0} /\ Power[MaxPower] \in Nat
  BY PowerIs DEF PlannerAssumption
<1>1. ASSUME NEW n \in Nat, n <= Power[MaxPower], NEW d \in Nat \ {0}
      PROVE  RoundPinned(n \div d, r.exact) \in Int
  <2>1. n \div d \in Nat /\ n \div d <= Power[MaxPower]
    BY <1>0, <1>1, PartIs
  <2> QED BY <2>1, RoundedIs
<1>2. CASE T # {}
  <2> DEFINE f == [i \in T |-> one(Tensor[i].bytes)]
             Op(h) == h = [s \in SUBSET T |->
                             IF s = {} THEN 0
                             ELSE one(Tensor[Chosen(s)].bytes) + h[s \ {Chosen(s)}]]
  <2>1. EngramPinned(r) = (CHOOSE h : Op(h))[T]
    BY <1>2 DEF EngramPinned, MapThenSumSet, MapThenFoldSet, Chosen
  <2>2. \A s \in SUBSET T : s # {} => f[Chosen(s)] = one(Tensor[Chosen(s)].bytes)
    <3> HIDE DEF T, one
    <3> QED BY ChosenIn
  <2>3. ASSUME NEW h PROVE Op(h) <=> Sums(h, f, T)
    <3> HIDE DEF f, one, T
    <3> QED BY <2>2 DEF Sums
  <2>4. (CHOOSE h : Op(h)) = (CHOOSE h : Sums(h, f, T))
    <3> HIDE DEF Op, f, T
    <3> QED BY <2>3
  <2>5. EngramPinned(r) = SumOver(f, T)
    <3> HIDE DEF Op, f, T
    <3> QED BY <2>1, <2>4 DEF SumOver
  <2>6. \A i \in T : f[i] \in Int
    <3> SUFFICES ASSUME NEW i \in T PROVE f[i] \in Int
      OBVIOUS
    <3>1. TensorBytes[i] \in Nat /\ TensorBytes[i] <= Power[MaxPower]
          /\ TensorBytes[i] = Tensor[i].bytes
      BY TensorsAre DEF TensorBytes
    <3>2. RoundPinned(Tensor[i].bytes \div Ranks, r.exact) \in Int
      BY <1>0, <1>1, <3>1
    <3>3. one(Tensor[i].bytes) \in Int
      BY <1>0, <3>2
    <3> QED BY <3>3
  <2> HIDE DEF Op, f, T
  <2>7. IsFiniteSet(T)
    BY TensorsAre DEF T
  <2> QED BY <2>5, <2>6, <2>7, SumInt
<1>3. CASE T = {}
  <2>1. EngramPinned(r) = IF HostEngram(r) = 0 THEN 0
          ELSE RoundPinned(HostEngram(r) \div (2 * Ranks), r.exact) * 2 * Ranks
    BY <1>3 DEF EngramPinned
  <2>2. HostEngram(r) \in Nat /\ HostEngram(r) <= Power[MaxPower]
    BY <1>3, TensorsAre DEF HostEngram
  <2>3. 2 * Ranks \in Nat \ {0}
    BY <1>0
  <2>4. RoundPinned(HostEngram(r) \div (2 * Ranks), r.exact) \in Int
    BY <1>1, <2>2, <2>3
  <2> DEFINE x == RoundPinned(HostEngram(r) \div (2 * Ranks), r.exact)
  <2>5. x * 2 * Ranks \in Int
    <3> HIDE DEF x
    <3> QED BY <1>0, <2>4 DEF x
  <2> QED BY <2>1, <2>5
<1> QED BY <1>2, <1>3

\* The weights per rank are a number.
LEMMA WeightsAre ==
    ASSUME PlannerAssumption, HostAssumption, NEW r \in Request
    PROVE  RankWeights(r) \in Int
<1>0. /\ Ranks \in Nat \ {0} /\ BackendMargin \in Nat
      /\ Dims.layers \in Nat /\ Dims.experts \in Nat /\ Dims.inter \in Nat /\ Dims.hidden \in Nat
      /\ r.tile \in Nat \ {0} /\ r.quarterBits \in Nat
  BY DEF PlannerAssumption, Request
<1>1. RankDense(r) \in Int
  <2> DEFINE a == KindBytes(r, "dense")
             b == KindBytes(r, "proj")
             d == KindBytes(r, "engram")
             e == HostEngram(r)
             v == KindBytes(r, "vision")
  <2>1. a \in Int /\ b \in Int /\ d \in Int /\ e \in Int /\ v \in Int
    BY TensorsAre DEF HostEngram
  <2>2. RankDense(r) = (a + b + d - IF r.engramOnGpu THEN 0 ELSE e) \div Ranks
                         + IF r.vision THEN v ELSE 0
    BY DEF RankDense
  <2> HIDE DEF a, b, d, e, v
  <2> DEFINE x == IF r.engramOnGpu THEN 0 ELSE e
             y == IF r.vision THEN v ELSE 0
  <2>3. x \in Int /\ y \in Int
    BY <2>1
  <2>4. RankDense(r) = (a + b + d - x) \div Ranks + y
    BY <2>2
  <2> DEFINE z == a + b + d - x
  <2>5. z \in Int
    BY <2>1, <2>3
  <2> HIDE DEF x, y, z
  <2>6. z \div Ranks \in Int
    BY <1>0, <2>5, Quotient
  <2> QED BY <2>3, <2>4, <2>6 DEF z
<1>2. TiledExpertBytes(r) \in Int
  <2> DEFINE e == RankExperts(r.ep)
             i == RankInter(r.ep)
             t == r.tile
             s == i + t - 1
             p == CeilTo(t, i)
             q == r.quarterBits
             H == Dims.hidden
             L == Dims.layers
  <2>1. e \in Nat /\ i \in Nat
    <3>1. Dims.experts \div Ranks \in Nat /\ Dims.inter \div Ranks \in Nat
      BY <1>0, Division
    <3> QED BY <1>0, <3>1 DEF RankExperts, RankInter
  <2>2. t \in Nat \ {0} /\ q \in Nat /\ H \in Nat /\ L \in Nat
    BY <1>0
  <2>3. p = (s \div t) * t
    BY DEF CeilTo
  <2>4. TiledExpertBytes(r) = (L * e * 3 * p * H * q) \div 32
    BY DEF TiledExpertBytes
  <2> HIDE DEF e, i, t, p, q, H, L
  <2>5. s \in Nat
    BY <2>1, <2>2
  <2> HIDE DEF s
  <2>6. s \div t \in Nat
    BY <2>2, <2>5, Division
  <2>7. p \in Nat
    BY <2>2, <2>3, <2>6
  <2> DEFINE n == L * e * 3 * p * H * q
  <2>8. n \in Nat
    <3>1. L * e \in Nat
      BY <2>1, <2>2
    <3>2. L * e * 3 \in Nat
      BY <3>1
    <3>3. L * e * 3 * p \in Nat
      <4> DEFINE x == L * e * 3
      <4> HIDE DEF x
      <4>1. x * p \in Nat
        BY <2>7, <3>2 DEF x
      <4> QED BY <4>1 DEF x
    <3>4. L * e * 3 * p * H \in Nat
      <4> DEFINE x == L * e * 3 * p
      <4> HIDE DEF x
      <4>1. x \in Nat
        BY <3>3 DEF x
      <4>2. x * H \in Nat
        BY <2>2, <4>1
      <4> QED BY <4>2 DEF x
    <3> DEFINE x == L * e * 3 * p * H
    <3>5. x \in Nat
      BY <3>4
    <3>6. n = x * q
      OBVIOUS
    <3> HIDE DEF x, n
    <3> QED BY <2>2, <3>5, <3>6
  <2> HIDE DEF n
  <2> QED BY <2>4, <2>8 DEF n
<1>3. PaddedExpertBytes(r) \in Int
  <2>1. KindBytes(r, "expert") \in Nat
    BY TensorsAre
  <2>2. KindBytes(r, "expert") \div Ranks \in Int
    BY <1>0, <2>1, Quotient
  <2> QED BY <1>2, <2>2 DEF PaddedExpertBytes
<1> QED BY <1>0, <1>1, <1>3 DEF RankWeights

\* A plan that meets the reserve leaves no more than the usable bytes on the GPU.
LEMMA VerdictOnGpu ==
    ASSUME IInv, PlacementInv, PlannerAssumption, HostAssumption, SizeAssumption,
           ExpertsAssumption, ModuleAssumption, ConfigAssumption,
           stage = "done", MovesExperts, conf.allowed = NoFilter, NEW r \in Plans, IsPlan(r),
           MeetsReserve(r)
    PROVE  RankWeights(r) - bytes <= r.usable \/ offloaded = conf.selected
<1>1. /\ Greedy(conf, mod, par, bytes, offloaded) /\ bytes \in Nat
      /\ mod = NumModules + 1 /\ par = 1
      /\ conf.budget \in Nat /\ conf.budget = Selected(r) /\ ExpertsOnly(conf)
  <2>1. Standing /\ Placing
    BY DEF PlacementInv, MovesExperts
  <2>2. Greedy(conf, mod, par, bytes, offloaded)
    BY <2>1 DEF Placing
  <2>3. mod = NumModules + 1 /\ par = 1
    BY <2>1 DEF Standing
  <2> QED BY <2>2, <2>3, ConfTyped DEF IInv, TypeOK, IsPlan, MovesExperts, ExpertsOnly
<1>2. r.usable \in Nat /\ RankWeights(r) \in Int
  <2>1. r \in Request
    BY DEF HostAssumption
  <2> QED BY <2>1, WeightsAre DEF Request
<1>3. CASE bytes < conf.budget
  <2>1. offloaded = OffersBefore(conf, NumModules + 1, 1)
    BY <1>1, <1>3 DEF Greedy
  <2>2. ASSUME NEW p, p \in conf.selected PROVE p \in offloaded
    <3>1. PICK k \in DOMAIN Experts : p \in {W13(k), W2(k)}
      BY <1>1, <2>2 DEF ExpertsOnly
    <3> DEFINE m == Experts[k].module
    <3>2. PICK j \in Places(m) : p = ModuleParams[m][j] /\ m \in Modules /\ p \in Param
      BY <3>1, ExpertIs DEF W13, W2
    <3>3. Offers(conf, m, j)
      BY <1>1, <3>1, <3>2, OffersAre DEF Unfiltered
    <3>4. m < NumModules + 1
      <4>1. \A n \in Modules : n < NumModules + 1
        BY ModuleAssumption DEF Modules
      <4> QED BY <3>2, <4>1
    <3> QED BY <2>1, <3>2, <3>3, <3>4 DEF OffersBefore
  <2>3. \A p \in offloaded : p \in conf.selected
    BY <2>1 DEF OffersBefore, Offers
  <2>4. conf.selected \subseteq offloaded
    BY <2>2
  <2> QED BY <2>3, <2>4
<1>4. CASE ~(bytes < conf.budget)
  <2> DEFINE R == RankWeights(r)
             u == r.usable
             b == conf.budget
             B == bytes
  <2>1. b >= (IF R > u THEN R - u ELSE 0)
    BY <1>1 DEF MeetsReserve, OffloadNeeded
  <2>2. R \in Int /\ u \in Nat /\ b \in Nat /\ B \in Nat /\ ~(B < b)
    BY <1>1, <1>2, <1>4
  <2> HIDE DEF R, u, b, B
  <2>3. R - B <= u
    BY <2>1, <2>2
  <2> QED BY <2>3 DEF R, u, B
<1> QED BY <1>3, <1>4

\* The part of the host that the verdict gives is not exceeded.
LEMMA WithinHost ==
    ASSUME NEW x \in Int, NEW host \in Nat, ~(100 * x > 95 * host)
    PROVE  x <= host
OBVIOUS

\* A plan that fits pins no more than the host has.
LEMMA VerdictOnHost ==
    ASSUME IInv, PlacementInv, PlannerAssumption, HostAssumption, SizeAssumption,
           ExpertsAssumption, ModuleAssumption, ConfigAssumption,
           stage = "done", MovesExperts, conf.allowed = NoFilter,
           NEW r \in Plans, IsPlan(r), r.known, Fits(r), r.host > 0, OffloadNeeded(r) > 0
    PROVE  Ranks * (IF IsPadded(r) THEN PinnedUnpadded(r) ELSE Pinned)
             + (IF r.engramOnGpu THEN 0 ELSE EngramPinned(r)) <= r.host
<1> DEFINE e == IF r.engramOnGpu THEN 0 ELSE EngramPinned(r)
           q == IF IsPadded(r) THEN PinnedUnpadded(r) ELSE Pinned
<1>1. q \in Int /\ q <= PlannedBytes(r) /\ PlannedBytes(r) \in Int
  <2>1. r \in Request
    BY DEF HostAssumption
  <2>2. /\ PinnedUnpadded(r) \in Int /\ PlannedBytes(r) \in Int
        /\ PinnedUnpadded(r) <= PlannedBytes(r)
        /\ ~IsPadded(r) => Pinned = PlannedBytes(r)
    BY <2>1, PlanHolds
  <2>3. CASE IsPadded(r)
    BY <2>2, <2>3
  <2>4. CASE ~IsPadded(r)
    <3>1. q = PlannedBytes(r)
      BY <2>2, <2>4
    <3> HIDE DEF q
    <3> QED BY <2>2, <3>1
  <2> QED BY <2>3, <2>4
<1>2. e \in Int
  BY EngramIs
<1>3. HostNeeded(r) = Ranks * PlannedBytes(r) + e
  BY DEF HostNeeded
<1> HIDE DEF e, q
<1>4. ~(100 * HostNeeded(r) > 95 * r.host)
  BY DEF Fits, HostRefuses
<1>5. r.host \in Nat /\ Ranks \in Nat \ {0}
  BY DEF HostAssumption, PlannerAssumption, Request
<1>6. HostNeeded(r) \in Int
  <2> DEFINE p == PlannedBytes(r)
  <2> HIDE DEF p
  <2> QED BY <1>1, <1>2, <1>3, <1>5 DEF p
<1>7. HostNeeded(r) <= r.host
  <2> DEFINE x == HostNeeded(r)
             y == r.host
  <2>1. x \in Int /\ y \in Nat /\ ~(100 * x > 95 * y)
    BY <1>4, <1>5, <1>6
  <2> HIDE DEF x, y
  <2>2. x <= y
    BY <2>1, WithinHost
  <2> QED BY <2>2 DEF x, y
<1>8. Ranks * q <= Ranks * PlannedBytes(r)
  <2> DEFINE p == PlannedBytes(r)
  <2>1. p \in Int /\ q \in Int /\ q <= p
    BY <1>1
  <2> HIDE DEF p
  <2>2. q = p \/ q < p
    BY <2>1
  <2>3. q < p => Ranks * q < Ranks * p
    BY <1>5, <2>1, Scaled
  <2>4. Ranks * q \in Int /\ Ranks * p \in Int
    BY <1>5, <2>1
  <2> QED BY <2>2, <2>3, <2>4 DEF p
<1>9. Ranks * q + e <= r.host
  <2> DEFINE x == Ranks * q
             y == Ranks * PlannedBytes(r)
  <2>1. x \in Int /\ y \in Int
    <3> DEFINE p == PlannedBytes(r)
    <3>1. p \in Int
      BY <1>1
    <3> HIDE DEF p
    <3> QED BY <1>1, <1>5, <3>1 DEF p
  <2>2. x <= y /\ y + e <= r.host
    BY <1>3, <1>7, <1>8
  <2> HIDE DEF x, y
  <2>3. x + e <= r.host
    BY <1>2, <1>5, <2>1, <2>2
  <2> QED BY <2>3 DEF x
<1> QED BY <1>9 DEF e, q

\* A load under a plan that plan_memory.py calls fitting and reserve-safe stays
\* within the GPU memory it counts as usable, padded or not, and all ranks
\* together pin no more than the host has, but for the padding of the matrices
\* they moved.
THEOREM VerdictIsKept == Spec => []VerdictHolds
<1>1. IInv /\ PlacementInv => VerdictHolds
  BY VerdictOnGpu, VerdictOnHost, PlannerAssumption, HostAssumption, SizeAssumption,
     ExpertsAssumption, ModuleAssumption, ConfigAssumption DEF VerdictHolds
<1> QED
  BY <1>1, PlacementInvariance, PTL

=============================================================================
