----------------------- MODULE BlockNegotiation_proofs -----------------------
(***************************************************************************)
(* What the block size negotiation guarantees for every engine, and what   *)
(* preflight guarantees for every machine a V4.1 engine is launched on.    *)
(***************************************************************************)
EXTENDS KernelShapes, TLAPS

-----------------------------------------------------------------------------
\* A product is divided by its first factor.
LEMMA ProductDivides ==
    ASSUME NEW a \in Nat \ {0}, NEW k \in Nat
    PROVE  Divides(a, a * k)
<1>1. a * k \in Nat
  OBVIOUS
<1>2. PICK q \in Int, r \in 0..(a - 1) : a * k = a * q + r /\ r = (a * k) % a
  <2>1. /\ (a * k) \div a \in Int
        /\ (a * k) % a \in 0..(a - 1)
        /\ a * k = a * ((a * k) \div a) + ((a * k) % a)
    BY <1>1
  <2> QED
    BY <2>1
<1>3. r = a * (k - q)
  BY <1>2
<1>4. k - q <= 0
  <2>1. SUFFICES ASSUME k - q >= 1 PROVE FALSE
    BY <1>2
  <2>2. a * (k - q) >= a
    BY <2>1, <1>2
  <2> QED
    BY <2>2, <1>2, <1>3
<1>5. k - q >= 0
  <2>1. SUFFICES ASSUME k - q <= -1 PROVE FALSE
    BY <1>2
  <2>2. a * (k - q) <= -a
    BY <2>1, <1>2
  <2> QED
    BY <2>2, <1>2, <1>3
<1>6. k - q = 0
  BY <1>2, <1>4, <1>5
<1>7. r = 0
  BY <1>2, <1>3, <1>6
<1> QED
  BY <1>2, <1>7 DEF Divides

\* Divides is transitive.
LEMMA DividesTransitive ==
    ASSUME NEW a \in Nat \ {0}, NEW b \in Nat \ {0}, NEW c \in Nat \ {0},
           Divides(a, b), Divides(b, c)
    PROVE  Divides(a, c)
<1>1. b = a * (b \div a) /\ b \div a \in Nat
  BY DEF Divides
<1>2. c = b * (c \div b) /\ c \div b \in Nat
  BY DEF Divides
<1>3. PICK k \in Nat, m \in Nat : b = a * k /\ c = b * m
  BY <1>1, <1>2
<1>4. c = a * (k * m) /\ k * m \in Nat
  BY <1>3
<1> QED
  BY <1>4, ProductDivides

-----------------------------------------------------------------------------
(***************************************************************************)
(* Type correctness                                                        *)
(***************************************************************************)

\* An engine's groups, their backends and their offers have their types.
LEMMA GroupTypes ==
    ASSUME TypeOK, gid <= Len(engine.groups)
    PROVE  /\ CurrentGroup \in Group
           /\ Listed(CurrentGroup) \subseteq Nat \ {0}
<1>1. engine.groups \in Seq(Group)
  BY EngineAssumption DEF TypeOK
<1>2. gid \in 1..Len(engine.groups)
  BY <1>1 DEF TypeOK
<1>3. CurrentGroup \in Group
  BY <1>1, <1>2 DEF CurrentGroup
<1>4. \A b \in CurrentGroup.backends : b.ints \subseteq Nat \ {0}
  BY <1>3 DEF Group, Backend
<1> QED
  BY <1>3, <1>4 DEF Listed

\* The sizes chosen so far grow by one entry at a time.
LEMMA ChooseKeepsTypes ==
    ASSUME TypeOK, gid <= Len(engine.groups), NEW size \in Nat \ {0}, Choose(size)
    PROVE  TypeOK'
<1>1. engine.groups \in Seq(Group) /\ engine' = engine
  BY EngineAssumption DEF TypeOK, Choose
<1>2. Len(engine.groups) \in Nat
  BY <1>1
<1> QED
  BY <1>1, <1>2 DEF TypeOK, Choose

\* The invariant behind everything below.  While the listed sizes are tried,
\* those no longer left are known not to be common, and the manager's own
\* size is known to have been refused.
Searching ==
    stage \in {"listed", "error"} =>
        /\ gid <= Len(engine.groups)
        /\ ~KeepsManagerSize(CurrentGroup)
        /\ left \subseteq Listed(CurrentGroup)
        /\ \A s \in Listed(CurrentGroup) \ left : ~IsCommon(CurrentGroup, s)
        /\ stage = "error" => left = {}

\* Initially, and in every step, the state has its types and the search is
\* where Searching says.
LEMMA SearchInit == Init => TypeOK /\ Searching
<1>1. SUFFICES ASSUME Init PROVE TypeOK /\ Searching
  OBVIOUS
<1>2. Len(engine.groups) \in Nat
  BY <1>1, EngineAssumption DEF Init
<1> QED
  BY <1>1, <1>2 DEF Init, TypeOK, Searching

\* Every step of the search keeps its invariant.
LEMMA SearchStep ==
    TypeOK /\ Searching /\ [Next]_vars => TypeOK' /\ Searching'
<1> SUFFICES ASSUME TypeOK, Searching, [Next]_vars PROVE TypeOK' /\ Searching'
  OBVIOUS
<1>1. CASE KeepManagerSize
  <2>1. CurrentGroup.manager \in Nat \ {0}
    BY <1>1, GroupTypes DEF KeepManagerSize, InGroup, Group
  <2>2. TypeOK'
    BY <1>1, <2>1, ChooseKeepsTypes DEF KeepManagerSize, InGroup
  <2> QED
    BY <1>1, <2>2 DEF KeepManagerSize, Choose, Searching
<1>2. CASE TryListedSizes
  <2>1. TypeOK'
    BY <1>2, GroupTypes DEF TryListedSizes, InGroup, TypeOK
  <2>2. CurrentGroup' = CurrentGroup /\ engine' = engine
    BY <1>2 DEF TryListedSizes, CurrentGroup
  <2>3. KeepsManagerSize(CurrentGroup)' <=> KeepsManagerSize(CurrentGroup)
    BY <2>2 DEF KeepsManagerSize, Supported, Accepts
  <2>4. Listed(CurrentGroup)' = Listed(CurrentGroup)
    BY <2>2 DEF Listed
  <2> QED
    BY <1>2, <2>1, <2>2, <2>3, <2>4 DEF TryListedSizes, InGroup, Searching
<1>3. ASSUME NEW size \in left, SkipSize(size) PROVE TypeOK' /\ Searching'
  <2>1. TypeOK'
    BY <1>3 DEF SkipSize, TypeOK
  <2>2. CurrentGroup' = CurrentGroup /\ engine' = engine
    BY <1>3 DEF SkipSize, CurrentGroup
  <2>3. KeepsManagerSize(CurrentGroup)' <=> KeepsManagerSize(CurrentGroup)
    BY <2>2 DEF KeepsManagerSize, Supported, Accepts
  <2>4. Listed(CurrentGroup)' = Listed(CurrentGroup)
    BY <2>2 DEF Listed
  <2>5. \A s : IsCommon(CurrentGroup, s)' <=> IsCommon(CurrentGroup, s)
    BY <2>2 DEF IsCommon, Supported, Accepts
  <2> QED
    BY <1>3, <2>1, <2>2, <2>3, <2>4, <2>5 DEF SkipSize, Searching
<1>4. ASSUME NEW size \in left, TakeSize(size) PROVE TypeOK' /\ Searching'
  <2>1. size \in Nat \ {0} /\ gid <= Len(engine.groups)
    BY <1>4 DEF TakeSize, TypeOK, Searching
  <2>2. TypeOK'
    BY <1>4, <2>1, ChooseKeepsTypes DEF TakeSize
  <2> QED
    BY <1>4, <2>2 DEF TakeSize, Choose, Searching
<1>5. CASE NoCommonSize
  <2>1. TypeOK'
    BY <1>5 DEF NoCommonSize, TypeOK
  <2>2. CurrentGroup' = CurrentGroup /\ engine' = engine
    BY <1>5 DEF NoCommonSize, CurrentGroup
  <2>3. KeepsManagerSize(CurrentGroup)' <=> KeepsManagerSize(CurrentGroup)
    BY <2>2 DEF KeepsManagerSize, Supported, Accepts
  <2>4. Listed(CurrentGroup)' = Listed(CurrentGroup)
    BY <2>2 DEF Listed
  <2>5. \A s : IsCommon(CurrentGroup, s)' <=> IsCommon(CurrentGroup, s)
    BY <2>2 DEF IsCommon, Supported, Accepts
  <2> QED
    BY <1>5, <2>1, <2>2, <2>3, <2>4, <2>5 DEF NoCommonSize, Searching
<1>6. CASE Finish
  BY <1>6 DEF Finish, TypeOK, Searching
<1>7. CASE UNCHANGED vars
  <2>1. CurrentGroup' = CurrentGroup /\ engine' = engine
    BY <1>7 DEF vars, CurrentGroup
  <2>2. KeepsManagerSize(CurrentGroup)' <=> KeepsManagerSize(CurrentGroup)
    BY <2>1 DEF KeepsManagerSize, Supported, Accepts
  <2>3. Listed(CurrentGroup)' = Listed(CurrentGroup)
    BY <2>1 DEF Listed
  <2>4. \A s : IsCommon(CurrentGroup, s)' <=> IsCommon(CurrentGroup, s)
    BY <2>1 DEF IsCommon, Supported, Accepts
  <2> QED
    BY <1>7, <2>1, <2>2, <2>3, <2>4 DEF vars, TypeOK, Searching
<1> QED
  BY <1>1, <1>2, <1>3, <1>4, <1>5, <1>6, <1>7 DEF Next, Negotiate, Ended

\* The state has its types whatever the engine.
THEOREM TypeCorrect == Spec => []TypeOK
<1>1. Init => TypeOK /\ Searching
  BY SearchInit
<1>2. TypeOK /\ Searching /\ [Next]_vars => (TypeOK /\ Searching)'
  BY SearchStep
<1> QED
  BY <1>1, <1>2, PTL DEF Spec

-----------------------------------------------------------------------------
(***************************************************************************)
(* The choice of a size                                                    *)
(***************************************************************************)

\* A divisor is no larger than what it divides.
LEMMA DivisorIsNoLarger ==
    ASSUME NEW a \in Nat \ {0}, NEW n \in Nat \ {0}, Divides(a, n)
    PROVE  a <= n
<1>1. n = a * (n \div a) /\ n \div a \in Nat
  BY DEF Divides
<1>2. PICK q \in Nat : n = a * q
  BY <1>1
<1>3. q >= 1
  BY <1>2
<1>4. a * q >= a
  BY <1>3
<1> QED
  BY <1>2, <1>4

\* A size divides itself.
LEMMA DividesItself == ASSUME NEW n \in Nat \ {0} PROVE Divides(n, n)
<1>1. n * 1 = n
  OBVIOUS
<1> QED
  BY <1>1, ProductDivides

\* What has been chosen stays chosen, and stays right: a step that appends a
\* size of the current group keeps LargestAdmissible.
LEMMA ChooseKeepsLargest ==
    ASSUME TypeOK, gid <= Len(engine.groups), LargestAdmissible,
           NEW size \in Offered(CurrentGroup), size \in Nat \ {0},
           Choose(size), Admissible(CurrentGroup, size),
           \A s \in Offered(CurrentGroup) :
               Admissible(CurrentGroup, s) => s <= size
    PROVE  LargestAdmissible'
<1>1. sizes' = Append(sizes, size) /\ engine' = engine
  BY DEF Choose
<1>2. Len(sizes') = gid /\ Len(sizes) = gid - 1 /\ gid \in Nat \ {0}
  <2>1. Len(engine.groups) \in Nat
    BY EngineAssumption DEF TypeOK
  <2> QED
    BY <1>1, <2>1 DEF TypeOK
<1>3. \A g, s : Admissible(g, s)' <=> Admissible(g, s)
  BY <1>1 DEF Admissible, Accepts, Supported
<1> SUFFICES ASSUME NEW i \in 1..Len(sizes')
             PROVE  /\ sizes'[i] \in Offered(engine.groups[i])
                    /\ Admissible(engine.groups[i], sizes'[i])
                    /\ \A s \in Offered(engine.groups[i]) :
                         Admissible(engine.groups[i], s) => s <= sizes'[i]
  BY <1>1, <1>3 DEF LargestAdmissible
<1>4. CASE i = gid
  <2>1. sizes'[i] = size
    BY <1>1, <1>2, <1>4 DEF TypeOK
  <2> QED
    BY <1>4, <2>1 DEF CurrentGroup
<1>5. CASE i # gid
  <2>1. i \in 1..Len(sizes) /\ sizes'[i] = sizes[i]
    BY <1>1, <1>2, <1>5 DEF TypeOK
  <2> QED
    BY <2>1 DEF LargestAdmissible
<1> QED
  BY <1>4, <1>5

\* Every group gets the largest admissible size that its manager or one of its
\* backends names, for every engine, whatever sizes are listed.
THEOREM ChoosesTheLargest == Spec => []LargestAdmissible
<1>1. Init => LargestAdmissible
  BY DEF Init, LargestAdmissible
<1>2. TypeOK /\ Searching /\ LargestAdmissible /\ [Next]_vars => LargestAdmissible'
  <2> SUFFICES ASSUME TypeOK, Searching, LargestAdmissible, [Next]_vars
               PROVE  LargestAdmissible'
    OBVIOUS
  <2>1. CASE KeepManagerSize
    <3>1. /\ gid <= Len(engine.groups)
          /\ CurrentGroup.manager \in Nat \ {0}
          /\ Offered(CurrentGroup) \subseteq Nat \ {0}
      BY <2>1, GroupTypes DEF KeepManagerSize, InGroup, Group, Offered
    <3>2. Admissible(CurrentGroup, CurrentGroup.manager)
      BY <2>1, <3>1, DividesItself DEF KeepManagerSize, KeepsManagerSize, Admissible
    <3>3. \A s \in Offered(CurrentGroup) :
              Admissible(CurrentGroup, s) => s <= CurrentGroup.manager
      BY <3>1, DivisorIsNoLarger DEF Admissible
    <3> QED
      BY <2>1, <3>1, <3>2, <3>3, ChooseKeepsLargest DEF KeepManagerSize, Offered
  <2>2. ASSUME NEW size \in left, TakeSize(size) PROVE LargestAdmissible'
    <3>1. /\ gid <= Len(engine.groups)
          /\ size \in Listed(CurrentGroup)
          /\ size \in Nat \ {0}
          /\ CurrentGroup.manager \in Nat \ {0}
      BY <2>2, GroupTypes DEF TakeSize, Searching, Group, TypeOK
    <3>2. Admissible(CurrentGroup, size)
      BY <2>2 DEF TakeSize, IsCommon, Admissible
    <3>3. ASSUME NEW s \in Offered(CurrentGroup), Admissible(CurrentGroup, s)
          PROVE  s <= size
      <4>1. CASE s \in left
        BY <2>2, <4>1 DEF TakeSize, IsNext
      <4>2. CASE s \in Listed(CurrentGroup) \ left
        BY <2>2, <3>3, <4>2 DEF TakeSize, Searching, IsCommon, Admissible
      <4>3. CASE s = CurrentGroup.manager
        BY <2>2, <3>3, <4>3 DEF TakeSize, Searching, KeepsManagerSize, Admissible
      <4> QED
        BY <4>1, <4>2, <4>3 DEF Offered
    <3> QED
      BY <2>2, <3>1, <3>2, <3>3, ChooseKeepsLargest DEF TakeSize, Offered
  <2>3. CASE UNCHANGED <<engine, sizes>>
    <3>1. \A g, s : Admissible(g, s)' <=> Admissible(g, s)
      BY <2>3 DEF Admissible, Accepts, Supported
    <3> QED
      BY <2>3, <3>1 DEF LargestAdmissible
  <2> QED
    BY <2>1, <2>2, <2>3
       DEF Next, Negotiate, Ended, vars, TryListedSizes, SkipSize, NoCommonSize, Finish
<1> QED
  BY <1>1, <1>2, SearchInit, SearchStep, PTL DEF Spec

\* A size DeepGEMM's legality test lets through is one it has kernels for.
LEMMA IndexerStatesAreLegal ==
    ASSUME NEW family \in Nat, NEW fp4 \in BOOLEAN, NEW states \in IndexerStates(family, fp4)
    PROVE  DeepGemmAsserts(family, fp4, states)
BY DEF IndexerStates, DeepGemmAsserts

\* No group with an indexer ever runs at a number of states per block that
\* DeepGEMM's paged MQA logits assert against.
THEOREM IndexerNeverAsserts == Spec => []NeverAsserts
<1>1. TypeOK /\ LargestAdmissible => NeverAsserts
  <2> SUFFICES ASSUME TypeOK, LargestAdmissible, NEW i \in 1..Len(sizes),
                      \E b \in engine.groups[i].backends : b.indexer,
                      engine.groups[i].tokensPerState > 0
               PROVE  DeepGemmAsserts(engine.family, engine.groups[i].fp4,
                                      sizes[i] \div engine.groups[i].tokensPerState)
    BY DEF NeverAsserts
  <2>1. Admissible(engine.groups[i], sizes[i])
    BY DEF LargestAdmissible
  <2>2. engine.family \in Nat /\ engine.groups \in Seq(Group)
    BY EngineAssumption DEF TypeOK
  <2>3. i \in 1..Len(engine.groups)
    BY <2>2 DEF TypeOK
  <2>4. engine.groups[i].fp4 \in BOOLEAN
    <3>1. engine.groups[i] \in Group
      BY <2>2, <2>3
    <3> QED
      BY <3>1, Zenon DEF Group
  <2> QED
    BY <2>1, <2>2, <2>4, IndexerStatesAreLegal DEF Admissible, Accepts, IsFiltered
<1> QED
  BY <1>1, TypeCorrect, ChoosesTheLargest, PTL

-----------------------------------------------------------------------------
(***************************************************************************)
(* The ValueError                                                          *)
(***************************************************************************)

\* A size that a group's backends name only through MultipleOf entries passes
\* on to every multiple of it, so to the manager's block size.
LEMMA UnlistedSizeMeansManager ==
    ASSUME NEW g \in Group, NEW s \in Nat \ {0}, s \notin Listed(g),
           Divides(s, g.manager), Supported(g, s)
    PROVE  Supported(g, g.manager) /\ \A b \in g.backends : b.bases # {}
<1> SUFFICES ASSUME NEW b \in g.backends
             PROVE  Supports(b, g.manager) /\ b.bases # {}
  BY DEF Supported
<1>1. b.bases \subseteq Nat \ {0} /\ g.manager \in Nat \ {0}
  BY DEF Group, Backend
<1>2. s \notin b.ints
  BY DEF Listed
<1>3. PICK base \in b.bases : Divides(base, s)
  BY <1>2 DEF Supported, Supports
<1>4. Divides(base, g.manager)
  BY <1>1, <1>3, DividesTransitive
<1> QED
  BY <1>4 DEF Supports

\* When the negotiation gives up there is no size at all that would do, not
\* even one no backend lists.  It rests on the indexer's backends listing
\* their sizes: one that said MultipleOf would make the filter reject the
\* manager's size and leave an admissible divisor of it untried.
THEOREM ErrorIsTrue == Spec => []FailsOnlyWhenNone
<1>1. TypeOK /\ Searching => FailsOnlyWhenNone
  <2> SUFFICES ASSUME TypeOK, Searching, stage = "error",
                      NEW s \in 1..CurrentGroup.manager,
                      Admissible(CurrentGroup, s)
               PROVE  FALSE
    BY DEF FailsOnlyWhenNone
  <2>1. /\ gid <= Len(engine.groups)
        /\ ~KeepsManagerSize(CurrentGroup)
        /\ \A x \in Listed(CurrentGroup) : ~IsCommon(CurrentGroup, x)
    BY DEF Searching
  <2>2. CurrentGroup \in Group /\ s \in Nat \ {0}
    BY <2>1, GroupTypes DEF Group
  <2>3. s \notin Listed(CurrentGroup)
    BY <2>1 DEF IsCommon, Admissible
  <2>4. /\ Supported(CurrentGroup, CurrentGroup.manager)
        /\ \A b \in CurrentGroup.backends : b.bases # {}
    BY <2>2, <2>3, UnlistedSizeMeansManager DEF Admissible
  <2>5. gid \in 1..Len(engine.groups)
    <3>1. Len(engine.groups) \in Nat
      BY EngineAssumption DEF TypeOK
    <3> QED
      BY <2>1, <3>1 DEF TypeOK
  <2>6. ~IsFiltered(CurrentGroup)
    BY <2>4, <2>5, IndexerAssumption DEF TypeOK, IsFiltered, CurrentGroup
  <2> QED
    BY <2>1, <2>4, <2>6 DEF KeepsManagerSize, Accepts
<1> QED
  BY <1>1, SearchInit, SearchStep, PTL DEF Spec

-----------------------------------------------------------------------------
(***************************************************************************)
(* Preflight's checks                                                      *)
(***************************************************************************)
Fails(levels) == "fail" \in levels

\* A condition is recorded at its level and at no other.
LEMMA WhenFails ==
    ASSUME NEW c, NEW level
    PROVE  Fails(When(c, level)) <=> c /\ level = "fail"
  BY DEF Fails, When

\* One more fault takes no failure away, unless it is a blindfold.
LEMMA ChecksAreMonotone ==
    ASSUME NEW b, NEW f \in Fault \ Blindfold, NEW a, NEW avail
    PROVE  LET more == b \union {f} IN
           /\ Fails(CheckGpus(b)) => Fails(CheckGpus(more))
           /\ Fails(CheckNvcc(b)) => Fails(CheckNvcc(more))
           /\ Fails(CheckHostRam([broken |-> b, avail |-> avail], a)) =>
                Fails(CheckHostRam([broken |-> more, avail |-> avail], a))
           /\ Fails(CheckModel(b)) \/ Raises(b) => Fails(CheckModel(more)) \/ Raises(more)
           /\ Fails(CheckStack(b, a)) => Fails(CheckStack(more, a))
           /\ Fails(CheckV41Patches(b)) => Fails(CheckV41Patches(more))
           /\ Fails(LintV41Flags(b, a)) => Fails(LintV41Flags(more, a))
<1> DEFINE more == b \union {f}
<1>1. Fails(CheckGpus(b)) => Fails(CheckGpus(more))
  BY DEF Fails, When, CheckGpus, Fault, Blindfold
<1>2. Fails(CheckNvcc(b)) => Fails(CheckNvcc(more))
  BY DEF Fails, When, CheckNvcc, Fault, Blindfold
<1>3. Fails(CheckHostRam([broken |-> b, avail |-> avail], a)) =>
         Fails(CheckHostRam([broken |-> more, avail |-> avail], a))
  BY DEF Fails, When, CheckHostRam, Fault, Blindfold
<1>4. Fails(CheckModel(b)) \/ Raises(b) => Fails(CheckModel(more)) \/ Raises(more)
  BY DEF Fails, When, CheckModel, Raises, Fault, Blindfold
<1>5. Fails(CheckStack(b, a)) => Fails(CheckStack(more, a))
  BY DEF Fails, When, CheckStack, LacksPlugin, Fault, Blindfold
<1>6. Fails(CheckV41Patches(b)) => Fails(CheckV41Patches(more))
  BY DEF Fails, When, CheckV41Patches, CheckFlashinfer, NoStack, Fault, Blindfold
<1>7. Fails(LintV41Flags(b, a)) => Fails(LintV41Flags(more, a))
  BY DEF Fails, When, LintV41Flags, DualPrefillWide, NoStack, Fault, Blindfold
<1>8. QED BY <1>1, <1>2, <1>3, <1>4, <1>5, <1>6, <1>7

\* The status is 1 exactly when something fails and preflight runs at all.
LEMMA StopsOnFailure ==
    ASSUME NEW b, NEW a, NEW avail
    PROVE  LET m == [broken |-> b, avail |-> avail] IN
           StopsLaunch(Status(m, a)) <=>
               /\ b \intersect {"noPython", "usageError"} = {}
               /\ \/ Raises(b)
                  \/ Fails(CheckGpus(b))
                  \/ Fails(CheckNvcc(b))
                  \/ Fails(CheckHostRam(m, a))
                  \/ Fails(CheckModel(b))
                  \/ Fails(CheckStack(b, a))
                  \/ Fails(LintFlags(a))
                  \/ a.v41 /\ Fails(CheckV41Patches(b))
                  \/ a.v41 /\ Fails(LintV41Flags(b, a))
<1> DEFINE m == [broken |-> b, avail |-> avail]
<1>1. m.broken = b OBVIOUS
<1> HIDE DEF m
<1>2. StopsLaunch(Status(m, a)) <=>
        /\ b \intersect {"noPython", "usageError"} = {}
        /\ Raises(b) \/ "fail" \in Findings(m, a)
  BY <1>1 DEF StopsLaunch, Status
<1>3. "fail" \in Findings(m, a) <=>
        \/ Fails(CheckGpus(b))
        \/ Fails(CheckNvcc(b))
        \/ Fails(CheckHostRam(m, a))
        \/ Fails(CheckModel(b))
        \/ Fails(CheckStack(b, a))
        \/ Fails(LintFlags(a))
        \/ a.v41 /\ Fails(CheckV41Patches(b))
        \/ a.v41 /\ Fails(LintV41Flags(b, a))
  BY <1>1 DEF Findings, Fails
<1>4. QED BY <1>2, <1>3 DEF m

\* A launch that is refused stays refused with one more fault.
LEMMA RefusalIsMonotone ==
    ASSUME NEW o \in Options, NEW f \in Fault \ Blindfold, ~LintPasses(o)
    PROVE  ~LintPasses([o EXCEPT !.broken = @ \union {f}])
<1> DEFINE p == [o EXCEPT !.broken = @ \union {f}]
           b == Machine(o).broken
           a == LauncherArgs(o)
<1>1. LauncherArgs(p) = a BY DEF LauncherArgs, Options
<1>2. Machine(p).broken = b \union {f} BY DEF Machine, Options
<1>3. /\ Machine(o) = [broken |-> b, avail |-> o.avail]
      /\ Machine(p) = [broken |-> b \union {f}, avail |-> o.avail]
  BY <1>2 DEF Machine, Options
<1> HIDE DEF p, b, a
<1>4. StopsLaunch(Status([broken |-> b, avail |-> o.avail], a))
  BY <1>3 DEF LintPasses, a
<1>5. f \notin {"noPython", "usageError"} BY DEF Blindfold
<1>6. StopsLaunch(Status([broken |-> b \union {f}, avail |-> o.avail], a))
  BY <1>4, <1>5, StopsOnFailure, ChecksAreMonotone
<1>7. QED BY <1>1, <1>3, <1>6 DEF LintPasses, p

-----------------------------------------------------------------------------
(***************************************************************************)
(* The launch                                                              *)
(***************************************************************************)
\* The launch negotiates block sizes and does nothing else to them.
LEMMA LaunchNegotiates == LaunchSpec => Spec
<1>1. LaunchInit => Init BY DEF LaunchInit
<1>2. [LaunchNext]_allVars => [Next]_vars
  BY DEF LaunchNext, Launch, Lint, SkipLint, StartServer, NegotiateGroups,
         BeginWidth, ClimbRung, TakeRung, KeepWidth, Settled, allVars, Next
<1> QED BY <1>1, <1>2, PTL DEF LaunchSpec, Spec

\* Preflight looks only at V4.1's launches.
Looked ==
    /\ engine \in Engine
    /\ step = "preflight" => IsV41

\* Looked holds in every state of a launch.
LEMMA LookedAlways == LaunchSpec => []Looked
<1>1. LaunchInit => Looked BY DEF LaunchInit, Init, Looked
<1>2. Looked /\ [LaunchNext]_allVars => Looked'
  BY DEF Looked, IsV41, LaunchNext, Launch, Lint, SkipLint, StartServer,
         NegotiateGroups, BeginWidth, ClimbRung, TakeRung, KeepWidth, Settled,
         allVars, vars, shapeVars, Negotiate, KeepManagerSize, TryListedSizes,
         SkipSize, TakeSize, NoCommonSize, Finish, Choose
<1> QED BY <1>1, <1>2, PTL DEF LaunchSpec

\* No early return of preflight hides a finding: with any number of things
\* wrong, one more unblocks a launch only if it is a blindfold.
THEOREM OneMoreFaultUnblocksNothing == LaunchSpec => []OnlyBlindfoldsUnblock
<1>1. Looked => OnlyBlindfoldsUnblock
  BY RefusalIsMonotone, OptionsAssumption
     DEF Looked, IsV41, OnlyBlindfoldsUnblock, opt
<1> QED BY <1>1, LookedAlways, PTL

-----------------------------------------------------------------------------
(***************************************************************************)
(* What passes comes up                                                    *)
(***************************************************************************)
\* Preflight with its eyes open passes nothing a server cannot start with.
LEMMA PassedIsSound ==
    ASSUME NEW o \in Options, LintPasses(o), o.v41,
           o.broken \intersect (Blindfold \union {"innerShardCut"}) = {}
    PROVE  o.broken \intersect Stopper = {} /\ o.blockSize = 64
<1> DEFINE b == Machine(o).broken
           a == LauncherArgs(o)
<1>1. Machine(o) = [broken |-> b, avail |-> o.avail] BY DEF Machine
<1>2. o.broken \subseteq b BY DEF Machine
<1>3. b \intersect (Blindfold \union {"innerShardCut"}) = {}
  BY DEF Machine, When, Blindfold
<1>4. a.v41 /\ a.blockSize = o.blockSize BY DEF LauncherArgs
<1> HIDE DEF b, a
<1>5. b \intersect {"noPython", "usageError"} = {} BY <1>3 DEF Blindfold
<1>6. /\ ~Raises(b) /\ ~Fails(CheckGpus(b)) /\ ~Fails(CheckNvcc(b))
      /\ ~Fails(CheckModel(b)) /\ ~Fails(CheckStack(b, a))
      /\ ~Fails(CheckV41Patches(b)) /\ ~Fails(LintV41Flags(b, a))
  BY <1>1, <1>4, <1>5, StopsOnFailure DEF LintPasses, a
<1>7. b \intersect {"noDriver", "fewGpus", "gpuBusy"} = {}
  BY <1>3, <1>6 DEF CheckGpus, Fails, When, Blindfold
<1>8. "noNvcc" \notin b BY <1>6, WhenFails DEF CheckNvcc
<1>9. b \intersect {"noModelDir", "noConfig", "badConfig"} = {}
  BY <1>6 DEF CheckModel, Fails, Raises
<1>10. b \intersect {"noShards", "shardMissing", "endShardCut"} = {}
  BY <1>3, <1>6, <1>9 DEF CheckModel, Fails, When, Blindfold
<1>11. b \intersect {"noTorch", "noVllm"} = {}
  BY <1>6 DEF CheckStack, Fails, When
<1>12. "vllmUnpatched" \notin b
  BY <1>6, <1>11 DEF CheckV41Patches, NoStack, Fails, When
<1>13. a.blockSize = 64 BY <1>6, WhenFails DEF LintV41Flags, Fails, When
<1>14. "noFlashinfer" \notin b BY <1>3 DEF Blindfold
<1>15. b \intersect Stopper = {}
  BY <1>3, <1>7, <1>8, <1>9, <1>10, <1>11, <1>12, <1>14 DEF Stopper
<1>16. QED BY <1>2, <1>4, <1>13, <1>15

\* A V4.1 engine has the sliding-window group and compressed ones.
LEMMA GroupsOfV41 ==
    ASSUME NEW o, NEW i \in 1..Len(V41Engine(o).groups)
    PROVE  V41Engine(o).groups[i] \in
             {SwaGroup, CompressedGroup(o, 1), CompressedGroup(o, 2)}
<1> DEFINE S == {SwaGroup, CompressedGroup(o, 1), CompressedGroup(o, 2)}
           one == IF 1 \in o.ratios THEN <<CompressedGroup(o, 1)>> ELSE <<>>
           two == IF 2 \in o.ratios THEN <<CompressedGroup(o, 2)>> ELSE <<>>
<1>1. V41Engine(o).groups = <<SwaGroup>> \o one \o two BY DEF V41Engine
<1>2. <<SwaGroup>> \in Seq(S) /\ one \in Seq(S) /\ two \in Seq(S)
  <2>1. {SwaGroup, CompressedGroup(o, 1), CompressedGroup(o, 2)} \subseteq S
    OBVIOUS
  <2> HIDE DEF S
  <2>2. \A g \in S : <<g>> \in Seq(S) OBVIOUS
  <2>3. <<>> \in Seq(S) OBVIOUS
  <2>4. QED BY <2>1, <2>2, <2>3
<1> HIDE DEF S, one, two
<1>3. V41Engine(o).groups \in Seq(S) BY <1>1, <1>2
<1>4. V41Engine(o).groups[i] \in S BY <1>3
<1>5. QED BY <1>4 DEF S

\* With the edits and 64-token blocks, each of them can keep its manager's
\* size.
LEMMA V41SizeExists ==
    ASSUME NEW o \in Options, o.blockSize = 64, "vllmHalfPatched" \notin o.broken,
           NEW g \in {SwaGroup, CompressedGroup(o, 1), CompressedGroup(o, 2)}
    PROVE  g.manager \in 1..g.manager /\ Admissible(g, g.manager)
<1>1. CASE g = SwaGroup
  <2>1. g.manager = 64 /\ g.backends = {SlidingWindow} BY <1>1 DEF SwaGroup
  <2>2. Divides(64, 64) /\ Divides(32, 64) BY DEF Divides
  <2>3. Supported(g, 64) BY <2>1, <2>2 DEF Supported, Supports, SlidingWindow
  <2>4. ~IsFiltered(g) BY <2>1 DEF IsFiltered, SlidingWindow
  <2>5. QED BY <2>1, <2>2, <2>3, <2>4 DEF Admissible, Accepts
<1>2. ASSUME NEW r \in {1, 2}, g = CompressedGroup(o, r)
      PROVE  g.manager \in 1..g.manager /\ Admissible(g, g.manager)
  <2>1. /\ g.manager = 64 * r /\ g.tokensPerState = r
        /\ g.backends = {Indexer(o), SparseMla(o)}
    BY <1>2 DEF CompressedGroup, TokensPerBlock
  <2>2. g.manager \in {64, 128} BY <2>1
  <2>3. Divides(g.manager, g.manager) BY <2>2, DividesItself
  <2>4. Indexer(o).ints = {64, 128} /\ SparseMla(o).ints = {64, 128}
    BY DEF Indexer, SparseMla, PageSizes
  <2>5. Supported(g, g.manager) BY <2>1, <2>2, <2>4 DEF Supported, Supports
  <2>6. (g.manager \div g.tokensPerState) = 64 BY <2>1
  <2>7. Accepts(g, g.manager) BY <2>6 DEF Accepts, IndexerStates
  <2>8. QED BY <2>2, <2>3, <2>5, <2>7 DEF Admissible
<1>3. QED BY <1>1, <1>2

\* What a launch that has been looked at rests on.
Gated ==
    /\ Looked
    /\ step \in {"start", "crashed"} => IsV41
    /\ lint # "none" => IsV41
    /\ lint = "passed" => LintPasses(opt)
    /\ step = "crashed" => opt.broken \intersect Stopper # {}

\* Gated holds in every state of a launch.
LEMMA GatedAlways == LaunchSpec => []Gated
<1>1. LaunchInit => Gated BY DEF LaunchInit, Init, Looked, Gated
<1>2. ASSUME Gated, [LaunchNext]_allVars PROVE Gated'
  <2>1. engine' = engine
    BY <1>2 DEF LaunchNext, Launch, Lint, SkipLint, StartServer,
         NegotiateGroups, BeginWidth, ClimbRung, TakeRung, KeepWidth, Settled,
         allVars, vars, Negotiate, KeepManagerSize, TryListedSizes, SkipSize,
         TakeSize, NoCommonSize, Finish, Choose
  <2>2. IsV41' = IsV41 /\ opt' = opt BY <2>1 DEF IsV41, opt
  <2>3. CASE Lint BY <1>2, <2>1, <2>2, <2>3 DEF Lint, Gated, Looked
  <2>4. CASE SkipLint BY <1>2, <2>1, <2>2, <2>4 DEF SkipLint, Gated, Looked
  <2>5. CASE StartServer BY <1>2, <2>1, <2>2, <2>5 DEF StartServer, Gated, Looked
  <2>6. CASE lint' = lint /\ step' \in {step, "width", "serving"}
    BY <1>2, <2>1, <2>2, <2>6 DEF Gated, Looked
  <2>7. QED
    BY <1>2, <2>3, <2>4, <2>5, <2>6
       DEF LaunchNext, Launch, NegotiateGroups, BeginWidth, ClimbRung, TakeRung,
           KeepWidth, Settled, allVars, shapeVars
<1> QED BY <1>1, <1>2, PTL DEF LaunchSpec

\* A launch that preflight passed comes up and finds its block sizes, on any
\* machine: with any number of things wrong of those it can see.
THEOREM PassedLaunchComesUp == LaunchSpec => []PassedComesUp
<1>1. Gated /\ TypeOK /\ Searching /\ FailsOnlyWhenNone => PassedComesUp
  <2> SUFFICES ASSUME Gated, TypeOK, Searching, FailsOnlyWhenNone,
                      lint = "passed", opt.v41, step = "crashed" \/ stage = "error",
                      opt.broken \intersect
                        (Blindfold \union {"innerShardCut", "vllmHalfPatched"}) = {}
               PROVE  FALSE
    BY DEF PassedComesUp
  <2>1. opt \in Options /\ engine = V41Engine(opt)
    BY OptionsAssumption DEF Gated, Looked, IsV41, opt
  <2>2. opt.broken \intersect Stopper = {} /\ opt.blockSize = 64
    BY <2>1, PassedIsSound DEF Gated
  <2>3. stage = "error" BY <2>2 DEF Gated
  <2>4. gid \in 1..Len(engine.groups)
    <3>1. Len(engine.groups) \in Nat BY EngineAssumption DEF TypeOK
    <3>2. QED BY <2>3, <3>1 DEF TypeOK, Searching
  <2>5. CurrentGroup \in
          {SwaGroup, CompressedGroup(opt, 1), CompressedGroup(opt, 2)}
    BY <2>1, <2>4, GroupsOfV41 DEF CurrentGroup
  <2>6. /\ CurrentGroup.manager \in 1..CurrentGroup.manager
        /\ Admissible(CurrentGroup, CurrentGroup.manager)
    BY <2>1, <2>2, <2>5, V41SizeExists
  <2>7. QED BY <2>3, <2>6 DEF FailsOnlyWhenNone
<1>2. Spec => [](TypeOK /\ Searching) BY SearchInit, SearchStep, PTL DEF Spec
<1> QED BY <1>1, <1>2, ErrorIsTrue, GatedAlways, LaunchNegotiates, PTL

-----------------------------------------------------------------------------
(***************************************************************************)
(* The kernels that are called                                             *)
(***************************************************************************)
\* What the lints ask of a V4.1 launch on sound sources.
LEMMA PassedFlags ==
    ASSUME NEW o \in Options, LintPasses(o), o.v41, o.broken \intersect Blindfold = {}
    PROVE  o.blockSize = 64 /\ o.runtimeDecode /\ (o.textOnly \/ o.wideDual)
<1> DEFINE b == Machine(o).broken
           a == LauncherArgs(o)
<1>1. Machine(o) = [broken |-> b, avail |-> o.avail] BY DEF Machine
<1>2. b \intersect Blindfold = {} BY DEF Machine, When, Blindfold
<1>3. ~o.runtimeDecode => "decodeStock" \in b BY DEF Machine, When
<1>4. ~o.wideDual => "prefillNarrow" \in b BY DEF Machine, When
<1>5. a.v41 /\ a.blockSize = o.blockSize /\ a.textOnly = o.textOnly
  BY DEF LauncherArgs
<1> HIDE DEF b, a
<1>6. ~Fails(CheckV41Patches(b)) /\ ~Fails(LintV41Flags(b, a))
  BY <1>1, <1>2, <1>5, StopsOnFailure DEF LintPasses, a, Blindfold
<1>7. "decodeStock" \notin b
  BY <1>2, <1>6 DEF CheckV41Patches, CheckFlashinfer, Fails, When, Blindfold
<1>8. a.blockSize = 64 /\ (a.textOnly \/ DualPrefillWide(b))
  BY <1>6 DEF LintV41Flags, Fails, When
<1>9. QED BY <1>3, <1>4, <1>5, <1>7, <1>8 DEF DualPrefillWide

\* The negotiation is over when the width is looked for, and the ladder is
\* climbed rung by rung.
Climbing ==
    /\ stage = "ready" => gid > Len(engine.groups)
    /\ step \in {"width", "serving"} => stage = "ready" /\ IsV41
    /\ step = "width" =>
         rung \in 1..7 /\ \A j \in 1..(rung - 1) : PrefillTopks[j] < RowWidth(opt)
    /\ step = "serving" /\ opt.family = 120 /\ RowWidth(opt) \in 0..2048 =>
         \E i \in 1..6 :
            /\ width = PrefillTopks[i]
            /\ RowWidth(opt) <= width
            /\ \A j \in 1..(i - 1) : PrefillTopks[j] < RowWidth(opt)

\* Climbing holds in every state of a launch.
LEMMA ClimbingAlways == LaunchSpec => []Climbing
<1>1. LaunchInit => Climbing BY DEF LaunchInit, Init, Climbing
<1>2. ASSUME Climbing, [LaunchNext]_allVars PROVE Climbing'
  <2>1. engine' = engine
    BY <1>2 DEF LaunchNext, Launch, Lint, SkipLint, StartServer,
         NegotiateGroups, BeginWidth, ClimbRung, TakeRung, KeepWidth, Settled,
         allVars, vars, Negotiate, KeepManagerSize, TryListedSizes, SkipSize,
         TakeSize, NoCommonSize, Finish, Choose
  <2>2. /\ IsV41' = IsV41 /\ opt' = opt
        /\ \A o : RowWidth(o)' = RowWidth(o)
        /\ Len(engine.groups)' = Len(engine.groups)
    BY <2>1 DEF IsV41, opt, RowWidth, ImagesCanArrive
  <2>3. CASE NegotiateGroups
    <3>1. step = "negotiate" /\ step' = step
      BY <2>3 DEF NegotiateGroups, shapeVars
    <3>2. stage' = "ready" => gid' > Len(engine.groups)
      BY <1>2, <2>3 DEF NegotiateGroups, Negotiate, KeepManagerSize,
         TryListedSizes, SkipSize, TakeSize, NoCommonSize, Finish, Choose, Climbing
    <3>3. QED BY <2>1, <2>2, <3>1, <3>2 DEF Climbing
  <2>4. CASE BeginWidth BY <1>2, <2>1, <2>2, <2>4 DEF BeginWidth, vars, Climbing
  <2>5. CASE ClimbRung
    <3>1. rung \in 1..6 /\ rung' = rung + 1 /\ step = "width" /\ step' = step
      BY <1>2, <2>5 DEF ClimbRung, OnLadder, Climbing, PrefillTopks
    <3>2. \A j \in 1..rung : PrefillTopks[j] < RowWidth(opt)
      BY <1>2, <2>5, <3>1 DEF ClimbRung, Climbing
    <3>3. QED BY <1>2, <2>1, <2>2, <2>5, <3>1, <3>2 DEF ClimbRung, vars, Climbing
  <2>6. CASE TakeRung
    <3>1. rung \in 1..6 /\ step = "width"
      BY <1>2, <2>6 DEF TakeRung, OnLadder, Climbing, PrefillTopks
    <3>2. /\ width' = PrefillTopks[rung] /\ PrefillTopks[rung] >= RowWidth(opt)
          /\ \A j \in 1..(rung - 1) : PrefillTopks[j] < RowWidth(opt)
      BY <1>2, <2>6, <3>1 DEF TakeRung, Climbing
    <3>3. PrefillTopks[rung] \in Nat BY <3>1 DEF PrefillTopks
    <3>4. QED
      BY <1>2, <2>1, <2>2, <2>6, <3>1, <3>2 DEF TakeRung, vars, Climbing
  <2>7. CASE KeepWidth
    <3>1. step = "width" /\ step' = "serving" /\ stage' = stage /\ gid' = gid
      BY <2>7 DEF KeepWidth, vars
    <3>2. opt.family = 120 => rung = 7
      BY <1>2, <2>7 DEF KeepWidth, OnLadder, Climbing, PrefillTopks
    <3>3. opt.family = 120 => RowWidth(opt) \notin 0..2048
      <4>1. PrefillTopks[6] = 2048 BY DEF PrefillTopks
      <4>2. ASSUME opt.family = 120 PROVE 2048 < RowWidth(opt)
        <5>1. rung = 7 BY <3>2, <4>2
        <5>2. \A j \in 1..6 : PrefillTopks[j] < RowWidth(opt)
          BY <1>2, <3>1, <5>1 DEF Climbing
        <5>3. QED BY <4>1, <5>2
      <4>3. QED BY <4>2
    <3>4. QED BY <1>2, <2>1, <2>2, <3>1, <3>3 DEF Climbing
  <2>8. CASE UNCHANGED vars /\ (UNCHANGED shapeVars
                \/ (step' \in {"start", "refused", "negotiate", "crashed"}))
    BY <1>2, <2>1, <2>2, <2>8 DEF vars, shapeVars, Climbing
  <2>9. QED
    BY <1>2, <2>3, <2>4, <2>5, <2>6, <2>7, <2>8
       DEF LaunchNext, Launch, Lint, SkipLint, StartServer, Settled, allVars
<1> QED BY <1>1, <1>2, PTL DEF LaunchSpec

\* The compressed groups of a V4.1 engine run at 64 states per block.
LEMMA SixtyFourStates ==
    ASSUME NEW o \in Options, o.blockSize = 64, o.family = 120,
           NEW r \in {1, 2}, NEW g, g = CompressedGroup(o, r), NEW size \in Nat \ {0},
           Admissible(g, size),
           \A s \in Offered(g) : Admissible(g, s) => s <= size
    PROVE  (size \div g.tokensPerState) = 64
<1>1. /\ g.manager = 64 * r /\ g.tokensPerState = r
      /\ g.backends = {Indexer(o), SparseMla(o)}
  BY DEF CompressedGroup, TokensPerBlock
<1>2. size \in PageSizes(o) BY <1>1 DEF Admissible, Supported, Supports, Indexer
<1>3. size \in {64, 128} BY <1>2 DEF PageSizes
<1>4. CASE r = 1
  <2>1. size # 128 BY <1>1, <1>4 DEF Admissible, Divides
  <2>2. QED BY <1>1, <1>3, <1>4, <2>1
<1>5. CASE r = 2 /\ size = 128 BY <1>1, <1>5
<1>6. CASE r = 2 /\ size = 64
  <2>1. CASE "vllmHalfPatched" \notin o.broken
    <3>1. g.manager = 128 BY <1>1, <1>6
    <3>2. g \in {SwaGroup, CompressedGroup(o, 1), CompressedGroup(o, 2)} BY <1>6
    <3>3. Admissible(g, 128) BY <2>1, <3>1, <3>2, V41SizeExists
    <3>4. 128 \in Offered(g) BY <3>1 DEF Offered
    <3>5. QED BY <1>6, <3>3, <3>4
  <2>2. CASE "vllmHalfPatched" \in o.broken BY <1>2, <1>6, <2>2 DEF PageSizes
  <2>3. QED BY <2>1, <2>2
<1>7. QED BY <1>3, <1>4, <1>5, <1>6

\* Whatever a V4.1 server that preflight passed with its eyes open calls, its
\* kernels are instantiated for, on the model with a window of 128 tokens.
THEOREM PassedLaunchDispatches ==
    Window = 128 => (LaunchSpec => []LintedKernelsDispatch)
<1> SUFFICES ASSUME Window = 128 PROVE LaunchSpec => []LintedKernelsDispatch
  OBVIOUS
<1>1. Gated /\ Climbing /\ TypeOK /\ LargestAdmissible => LintedKernelsDispatch
  <2> SUFFICES ASSUME Gated, Climbing, TypeOK, LargestAdmissible,
                      step = "serving", lint = "passed", opt.v41, opt.family = 120,
                      opt.broken \intersect Blindfold = {},
                      opt.imageTokens \in {0, 1024}
               PROVE  /\ 0 \in opt.ratios => SingleDispatches(width, sizes[1])
                      /\ \A i \in 2..Len(sizes) :
                           /\ DualDispatches(opt, width, sizes[1], States(i))
                           /\ DecodeDispatches(opt, 2 * IndexTopk + Window, sizes[1])
    BY DEF LintedKernelsDispatch
  <2>1. opt \in Options /\ engine = V41Engine(opt)
    BY OptionsAssumption DEF Gated, Looked, IsV41, opt
  <2>2. opt.blockSize = 64 /\ opt.runtimeDecode /\ (opt.textOnly \/ opt.wideDual)
    BY <2>1, PassedFlags DEF Gated
  <2>3. /\ RowWidth(opt) \in {128, 1152}
        /\ RowWidth(opt) = 1152 => opt.wideDual
    BY <2>2 DEF RowWidth, ImagesCanArrive
  <2>4. PICK k \in 1..6 :
          /\ width = PrefillTopks[k]
          /\ RowWidth(opt) <= width
          /\ \A j \in 1..(k - 1) : PrefillTopks[j] < RowWidth(opt)
    BY <2>3 DEF Climbing
  <2>5. RowWidth(opt) = 128 => width = 128
    <3>1. SUFFICES ASSUME RowWidth(opt) = 128 PROVE k = 1
      BY <2>4 DEF PrefillTopks
    <3>2. PrefillTopks[1] = 128 BY DEF PrefillTopks
    <3>3. QED BY <2>4, <3>1, <3>2
  <2>6. RowWidth(opt) = 1152 => width = 2048
    BY <2>4 DEF PrefillTopks
  <2>7. /\ engine.groups \in Seq(Group) /\ Len(engine.groups) \in Nat
        /\ Len(sizes) >= Len(engine.groups)
        /\ \A i \in 1..Len(sizes) : i \in 1..Len(engine.groups) /\ sizes[i] \in Nat \ {0}
    <3>1. engine.groups \in Seq(Group) BY EngineAssumption DEF TypeOK
    <3>2. Len(engine.groups) \in Nat BY <3>1
    <3>3. gid > Len(engine.groups) BY DEF Climbing
    <3>4. Len(sizes) = Len(engine.groups) BY <3>2, <3>3 DEF TypeOK
    <3>5. \A i \in 1..Len(sizes) : sizes[i] \in Nat \ {0} BY DEF TypeOK
    <3>6. QED BY <3>1, <3>2, <3>4, <3>5
  <2>8. sizes[1] = 64
    <3>1. engine.groups[1] = SwaGroup /\ Len(engine.groups) >= 1
      BY <2>1 DEF V41Engine
    <3>2. Offered(SwaGroup) = {64} BY DEF Offered, Listed, SwaGroup, SlidingWindow
    <3>3. QED BY <2>7, <3>1, <3>2 DEF LargestAdmissible
  <2>9. ASSUME NEW i \in 2..Len(sizes) PROVE States(i) = 64
    <3>1. /\ sizes[i] \in Nat \ {0}
          /\ Admissible(engine.groups[i], sizes[i])
          /\ \A s \in Offered(engine.groups[i]) :
               Admissible(engine.groups[i], s) => s <= sizes[i]
      BY <2>7 DEF LargestAdmissible
    <3>2. PICK r \in {1, 2} : engine.groups[i] = CompressedGroup(opt, r)
      BY <2>1, <2>7 DEF V41Engine
    <3>3. QED BY <2>1, <2>2, <3>1, <3>2, SixtyFourStates DEF States
  <2>10. SingleDispatches(width, sizes[1]) BY <2>4, <2>8 DEF SingleDispatches, PrefillTopks
  <2>11. \A i \in 2..Len(sizes) : DualDispatches(opt, width, sizes[1], States(i))
    BY <2>3, <2>5, <2>6, <2>8, <2>9 DEF DualDispatches
  <2>12. QED BY <2>2, <2>10, <2>11 DEF DecodeDispatches
<1> QED
  BY <1>1, TypeCorrect, ChoosesTheLargest, GatedAlways, ClimbingAlways,
     LaunchNegotiates, PTL

=============================================================================
