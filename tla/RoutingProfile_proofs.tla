----------------------- MODULE RoutingProfile_proofs -----------------------
(***************************************************************************)
(* Theorems about module RoutingProfile, for any number of layers, GPUs,   *)
(* experts and lanes, any selections and any bounds: what a snapshot file  *)
(* and the counters hold is, by its definition, the profile of the steps   *)
(* issued in their generation.                                             *)
(*                                                                         *)
(* The first part is about the kernel alone: its padded lanes count the    *)
(* distinct experts on a GPU, and one run of it turns the profile of a     *)
(* list of steps into the profile of that list with one step more.  The    *)
(* second is about the interleaving of launches, kernels, the RPC, its     *)
(* failures and restarts.                                                  *)
(***************************************************************************)
EXTENDS RoutingProfile, SumTheorems

-----------------------------------------------------------------------------
\* Division of q * b + k by b, for a remainder k.
LEMMA DivOf ==
  ASSUME NEW b \in Nat \ {0}, NEW q \in Nat, NEW k \in 0..(b - 1)
  PROVE  (q * b + k) \div b = q /\ (q * b + k) % b = k
OBVIOUS

\* Every number is its quotient times b and a remainder.
LEMMA DivMod ==
  ASSUME NEW b \in Nat \ {0}, NEW n \in Nat
  PROVE  /\ n \div b \in Nat /\ n % b \in 0..(b - 1)
         /\ n = (n \div b) * b + (n % b)
OBVIOUS

\* The lanes of GPU r are r * Pad + k for k < Pad.
LEMMA LanesOf ==
  ASSUME LaneAssumption, NEW r \in Rank
  PROVE  /\ \A k \in 0..(Pad - 1) : r * Pad + k \in (r * Pad)..(r * Pad + Pad - 1)
         /\ \A lane \in (r * Pad)..(r * Pad + Pad - 1) :
                lane - r * Pad \in 0..(Pad - 1) /\ lane = r * Pad + (lane - r * Pad)
<1>1. r * Pad \in Nat /\ Pad \in Nat
  BY DEF LaneAssumption, Rank
<1> DEFINE m == r * Pad
<1> HIDE DEF m
<1>2. m \in Nat
  BY <1>1 DEF m
<1>3. /\ \A k \in 0..(Pad - 1) : m + k \in m..(m + Pad - 1)
      /\ \A lane \in m..(m + Pad - 1) :
            lane - m \in 0..(Pad - 1) /\ lane = m + (lane - m)
  BY <1>1, <1>2
<1> QED BY <1>3 DEF m

\* The experts of GPU r are r * PerRank + k for k < PerRank.
LEMMA ExpertsOf ==
  ASSUME LaneAssumption, NEW r \in Rank
  PROVE  /\ \A k \in 0..(PerRank - 1) : (r * PerRank + k) \div PerRank = r
         /\ \A e \in Nat : e \div PerRank = r =>
                e - r * PerRank \in 0..(PerRank - 1)
<1>1. r \in Nat /\ PerRank \in Nat \ {0}
  BY DEF LaneAssumption, Rank
<1>2. \A k \in 0..(PerRank - 1) : (r * PerRank + k) \div PerRank = r
  BY <1>1, DivOf
<1>3. ASSUME NEW e \in Nat, e \div PerRank = r
      PROVE  e - r * PerRank \in 0..(PerRank - 1)
  <2>1. e = r * PerRank + (e % PerRank) /\ e % PerRank \in 0..(PerRank - 1)
    BY <1>1, <1>3, DivMod
  <2>2. r * PerRank \in Nat
    BY <1>1
  <2> QED BY <2>1, <2>2
<1> QED BY <1>2, <1>3

\* What the kernel counts on GPU r, over padded lanes, is how many of the
\* selected experts are on it.
LEMMA LanesCountExperts ==
  ASSUME LaneAssumption, NEW ids \in SUBSET (0..(Ranks * PerRank - 1)), NEW r \in Rank
  PROVE  /\ RankUnique(ids)[r] = RankShare(ids, r)
         /\ RankShare(ids, r) \in 0..PerRank
<1> DEFINE A == { lane \in (r * Pad)..(r * Pad + Pad - 1) : IsActive(ids, lane) }
           B == { e \in ids : e \div PerRank = r }
           g == [lane \in A |-> Expert(lane)]
<1>1. /\ r \in Nat /\ PerRank \in Nat \ {0} /\ Pad \in Nat \ {0} /\ PerRank <= Pad
      /\ r * Pad \in Nat /\ r * PerRank \in Nat /\ Ranks * PerRank \in Nat
  BY DEF LaneAssumption, Rank
<1>2. \A k \in 0..(Pad - 1) : Expert(r * Pad + k) = r * PerRank + k
                              /\ (r * Pad + k) % Pad = k
  BY <1>1, DivOf DEF Expert
<1>3. \A lane \in A : /\ lane - r * Pad \in 0..(PerRank - 1)
                      /\ Expert(lane) = r * PerRank + (lane - r * Pad)
                      /\ Expert(lane) \in ids
  <2> SUFFICES ASSUME NEW lane \in A
               PROVE  /\ lane - r * Pad \in 0..(PerRank - 1)
                      /\ Expert(lane) = r * PerRank + (lane - r * Pad)
                      /\ Expert(lane) \in ids
    OBVIOUS
  <2> DEFINE k == lane - r * Pad
  <2>1. k \in 0..(Pad - 1) /\ lane = r * Pad + k
    BY LanesOf
  <2> HIDE DEF k
  <2>2. Expert(lane) = r * PerRank + k /\ lane % Pad = k
    BY <1>2, <2>1
  <2>3. IsActive(ids, lane)
    OBVIOUS
  <2>4. k < PerRank /\ Expert(lane) \in ids
    BY <2>2, <2>3 DEF IsActive
  <2> QED BY <1>1, <2>1, <2>2, <2>4 DEF k
<1>4. g \in [A -> B]
  <2> SUFFICES ASSUME NEW lane \in A
               PROVE  Expert(lane) \in ids /\ Expert(lane) \div PerRank = r
    OBVIOUS
  <2> QED BY <1>3, ExpertsOf
<1>5. \A x, y \in A : g[x] = g[y] => x = y
  <2> SUFFICES ASSUME NEW x \in A, NEW y \in A, Expert(x) = Expert(y)
               PROVE  x = y
    OBVIOUS
  <2>1. x \in Int /\ y \in Int
    BY <1>1
  <2> DEFINE m == r * Pad
             p == r * PerRank
  <2>2. p + (x - m) = p + (y - m)
    BY <1>3
  <2>3. m \in Nat /\ p \in Nat
    BY <1>1
  <2> HIDE DEF m, p
  <2> QED BY <2>1, <2>2, <2>3
<1>6. \A e \in B : \E lane \in A : g[lane] = e
  <2> SUFFICES ASSUME NEW e \in B
               PROVE  \E lane \in A : g[lane] = e
    OBVIOUS
  <2> DEFINE k == e - r * PerRank
             lane == r * Pad + k
  <2>1. k \in 0..(PerRank - 1)
    <3>1. e \in Nat /\ e \div PerRank = r
      BY <1>1
    <3> QED BY <3>1, ExpertsOf
  <2>2. k \in 0..(Pad - 1) /\ e = r * PerRank + k
    <3> DEFINE p == r * PerRank
    <3>1. p \in Nat /\ e \in Nat /\ e - p \in 0..(PerRank - 1)
      BY <1>1, <2>1
    <3> HIDE DEF p
    <3>2. e - p \in 0..(Pad - 1) /\ e = p + (e - p)
      BY <1>1, <3>1
    <3> QED BY <3>2 DEF p
  <2> HIDE DEF k
  <2>3. Expert(lane) = e /\ lane % Pad = k
    BY <1>2, <2>2
  <2>4. lane \in (r * Pad)..(r * Pad + Pad - 1)
    BY <2>2, LanesOf
  <2>5. lane \in A
    <3>1. e \in ids /\ k < PerRank
      BY <1>1, <2>1
    <3> QED BY <2>3, <2>4, <3>1 DEF IsActive
  <2> QED BY <2>3, <2>5
<1>7. ExistsBijection(A, B)
  <2> HIDE DEF A, B, g
  <2>1. g \in Bijection(A, B)
    BY <1>4, <1>5, <1>6 DEF Bijection, Injection, Surjection, IsInjective
  <2> QED BY <2>1 DEF ExistsBijection
<1>8. IsFiniteSet(A) /\ IsFiniteSet(B) /\ Cardinality(B) <= PerRank
  <2>1. IsFiniteSet((r * Pad)..(r * Pad + Pad - 1))
    BY <1>1, FS_Interval
  <2>2. IsFiniteSet(A)
    <3>1. A \in SUBSET ((r * Pad)..(r * Pad + Pad - 1))
      OBVIOUS
    <3> HIDE DEF A
    <3> QED BY <2>1, <3>1, FS_Subset
  <2> DEFINE p == r * PerRank
  <2>3. p \in Nat
    BY <1>1
  <2>4. B \in SUBSET (p..(p + PerRank - 1))
    <3> SUFFICES ASSUME NEW e \in B PROVE e \in p..(p + PerRank - 1)
      OBVIOUS
    <3>1. e \in Nat /\ e - p \in 0..(PerRank - 1)
      BY <1>1, ExpertsOf
    <3> HIDE DEF p
    <3> QED BY <1>1, <2>3, <3>1
  <2> HIDE DEF p, B
  <2>5. IsFiniteSet(p..(p + PerRank - 1)) /\ Cardinality(p..(p + PerRank - 1)) = PerRank
    <3>1. p \in Int /\ p + PerRank - 1 \in Int /\ ~(p > p + PerRank - 1)
          /\ (p + PerRank - 1) - p + 1 = PerRank
      BY <1>1, <2>3
    <3> QED BY <3>1, FS_Interval
  <2>6. IsFiniteSet(B) /\ Cardinality(B) <= PerRank
    BY <2>4, <2>5, FS_Subset
  <2> QED BY <2>2, <2>6
<1>9. Cardinality(A) = Cardinality(B) /\ Cardinality(B) \in Nat
  <2> HIDE DEF A, B
  <2>1. Cardinality(A) = Cardinality(B)
    BY <1>7, <1>8, FS_Bijection
  <2> QED BY <2>1, <1>8, FS_CardinalityType
<1> QED
  BY <1>1, <1>8, <1>9 DEF RankUnique, RankShare

\* The kernel's maximum is the busiest GPU's share, a bin of the histogram.
LEMMA WorstIsBusiest ==
  ASSUME LaneAssumption, NEW ids \in SUBSET (0..(Ranks * PerRank - 1))
  PROVE  Worst(ids) = BusiestShare(ids) /\ BusiestShare(ids) \in 0..PerRank
<1> DEFINE S == { RankShare(ids, r) : r \in Rank }
<1>1. { RankUnique(ids)[r] : r \in Rank } = S
  BY LanesCountExperts
<1>2. S \in SUBSET (0..PerRank) /\ S # {}
  <2>1. 0 \in Rank
    BY DEF Rank, LaneAssumption
  <2> QED BY <2>1, LanesCountExperts
<1> HIDE DEF S
<1>3. IsFiniteSet(S)
  <2>1. IsFiniteSet(0..PerRank)
    BY FS_Interval DEF LaneAssumption
  <2> QED BY <1>2, <2>1, FS_Subset
<1>4. Max(S) \in S
  BY <1>2, <1>3, MaxIs DEF LaneAssumption
<1> QED
  BY <1>1, <1>2, <1>4 DEF Worst, BusiestShare, S

-----------------------------------------------------------------------------
\* The sum of one more number.
LEMMA TotalGrows ==
  ASSUME NEW n \in Nat, NEW f, NEW g, DOMAIN f = 1..n, DOMAIN g = 1..(n + 1),
         \A i \in 1..n : g[i] = f[i], \A i \in 1..(n + 1) : g[i] \in Int
  PROVE  Total(g) = Total(f) + g[n + 1]
<1>1. Total(f) = SumOver(f, 1..n) /\ Total(g) = SumOver(g, 1..(n + 1))
  BY SumIsFold DEF Total
<1>2. IsFiniteSet(1..n)
  BY FS_Interval
<1>3. SumOver(g, (1..n) \union {n + 1}) = SumOver(g, 1..n) + g[n + 1]
  <2>1. n + 1 \notin 1..n /\ \A i \in (1..n) \union {n + 1} : g[i] \in Int
    OBVIOUS
  <2> QED BY <1>2, <2>1, SumAdd
<1>4. SumOver(g, 1..n) = SumOver(f, 1..n)
  BY <1>2, SumSame
<1>5. (1..n) \union {n + 1} = 1..(n + 1)
  OBVIOUS
<1> QED
  BY <1>1, <1>3, <1>4, <1>5

\* The sum of no number.
LEMMA TotalEmpty ==
  ASSUME NEW f, DOMAIN f = {}
  PROVE  Total(f) = 0
<1>1. Total(f) = SumOver(f, DOMAIN f)
  BY SumIsFold DEF Total
<1>2. SumOver(f, DOMAIN f) = SumOver(f, {})
  OBVIOUS
<1> QED BY <1>1, <1>2, SumEmpty

\* Nothing counted yet is the profile of no step.
LEMMA SummaryEmpty == Summary(<<>>) = Zeros
<1>1. Len(<<>>) = 0 /\ 1..0 = {}
  OBVIOUS
<1>2. \A r \in Rank : Total([i \in 1..Len(<<>>) |-> RankShare(<<>>[i], r)]) = 0
  BY <1>1, TotalEmpty
<1>3. Total([i \in 1..Len(<<>>) |-> BusiestShare(<<>>[i])]) = 0
  BY <1>1, TotalEmpty
<1>4. \A n \in 0..PerRank :
        Cardinality({ i \in 1..Len(<<>>) : BusiestShare(<<>>[i]) = n }) = 0
  BY <1>1, FS_EmptySet
<1> QED
  BY <1>1, <1>2, <1>3, <1>4 DEF Summary, Zeros

\* One run of the kernel adds one step to the profile.
LEMMA KernelAddsStep ==
  ASSUME LaneAssumption, NEW steps \in Seq(Selections), NEW ids \in Selections
  PROVE  Summary(Append(steps, ids)) = Counted(Summary(steps), ids)
<1> DEFINE q == Append(steps, ids)
           n == Len(steps)
           S == 0..(Ranks * PerRank - 1)
<1>1. /\ n \in Nat /\ Len(q) = n + 1 /\ q[n + 1] = ids
      /\ \A i \in 1..n : q[i] = steps[i]
      /\ \A i \in 1..(n + 1) : q[i] \in Selections
  OBVIOUS
<1>2. \A i \in 1..(n + 1) : q[i] \in SUBSET S
  BY <1>1 DEF LaneAssumption
<1>3. ids \in SUBSET S
  BY DEF LaneAssumption
<1>4. Worst(ids) = BusiestShare(ids) /\ Worst(ids) \in 0..PerRank
  BY <1>3, WorstIsBusiest
<1>5. \A i \in 1..(n + 1) : BusiestShare(q[i]) \in Int
  <2>1. \A i \in 1..(n + 1) : BusiestShare(q[i]) \in 0..PerRank
    BY <1>2, WorstIsBusiest
  <2> QED BY <2>1 DEF LaneAssumption
<1>6. \A r \in Rank : /\ RankUnique(ids)[r] = RankShare(ids, r)
                      /\ \A i \in 1..(n + 1) : RankShare(q[i], r) \in Int
  <2>1. \A r \in Rank : \A i \in 1..(n + 1) : RankShare(q[i], r) \in 0..PerRank
    BY <1>2, LanesCountExperts
  <2> QED BY <1>3, <2>1, LanesCountExperts DEF LaneAssumption
<1> HIDE DEF q, n, S
<1> DEFINE sums(s, r) == Total([i \in 1..Len(s) |-> RankShare(s[i], r)])
           worst(s) == Total([i \in 1..Len(s) |-> BusiestShare(s[i])])
           hist(s, k) == Cardinality({ i \in 1..Len(s) : BusiestShare(s[i]) = k })
<1>7. \A r \in Rank : sums(q, r) = sums(steps, r) + RankUnique(ids)[r]
  <2> SUFFICES ASSUME NEW r \in Rank
               PROVE  sums(q, r) = sums(steps, r) + RankUnique(ids)[r]
    OBVIOUS
  <2> DEFINE f == [i \in 1..n |-> RankShare(steps[i], r)]
             g == [i \in 1..(n + 1) |-> RankShare(q[i], r)]
  <2>1. /\ DOMAIN f = 1..n /\ DOMAIN g = 1..(n + 1)
        /\ \A i \in 1..n : g[i] = f[i]
        /\ \A i \in 1..(n + 1) : g[i] \in Int
        /\ g[n + 1] = RankUnique(ids)[r]
    BY <1>1, <1>6
  <2>2. sums(q, r) = Total(g) /\ sums(steps, r) = Total(f)
    BY <1>1 DEF n
  <2> HIDE DEF f, g, sums
  <2> QED BY <1>1, <2>1, <2>2, TotalGrows
<1>8. worst(q) = worst(steps) + Worst(ids)
  <2> DEFINE f == [i \in 1..n |-> BusiestShare(steps[i])]
             g == [i \in 1..(n + 1) |-> BusiestShare(q[i])]
  <2>1. /\ DOMAIN f = 1..n /\ DOMAIN g = 1..(n + 1)
        /\ \A i \in 1..n : g[i] = f[i]
        /\ \A i \in 1..(n + 1) : g[i] \in Int
        /\ g[n + 1] = Worst(ids)
    BY <1>1, <1>4, <1>5
  <2>2. worst(q) = Total(g) /\ worst(steps) = Total(f)
    BY <1>1 DEF n
  <2> HIDE DEF f, g, worst
  <2> QED BY <1>1, <2>1, <2>2, TotalGrows
<1>9. \A k \in 0..PerRank :
        hist(q, k) = hist(steps, k) + (IF k = Worst(ids) THEN 1 ELSE 0)
  <2> SUFFICES ASSUME NEW k \in 0..PerRank
               PROVE  hist(q, k) = hist(steps, k)
                                   + (IF k = Worst(ids) THEN 1 ELSE 0)
    OBVIOUS
  <2> DEFINE F == { i \in 1..n : BusiestShare(steps[i]) = k }
             G == { i \in 1..(n + 1) : BusiestShare(q[i]) = k }
  <2>1. hist(q, k) = Cardinality(G) /\ hist(steps, k) = Cardinality(F)
    BY <1>1 DEF n
  <2>2. IsFiniteSet(F) /\ n + 1 \notin F
    <3>1. F \in SUBSET (1..n) /\ IsFiniteSet(1..n) /\ n + 1 \notin 1..n
      BY <1>1, FS_Interval
    <3> HIDE DEF F
    <3> QED BY <3>1, FS_Subset
  <2>3. Cardinality(F) \in Nat
    BY <2>2, FS_CardinalityType
  <2>4. CASE k = Worst(ids)
    <3>1. G = F \union {n + 1}
      BY <1>1, <1>4, <2>4
    <3> HIDE DEF F, G
    <3>2. Cardinality(G) = Cardinality(F) + 1
      BY <2>2, <3>1, FS_AddElement
    <3> QED BY <2>1, <2>4, <3>2
  <2>5. CASE k # Worst(ids)
    <3>1. G = F
      BY <1>1, <1>4, <2>5
    <3> HIDE DEF F, G
    <3> QED BY <2>1, <2>3, <2>5, <3>1
  <2> QED BY <2>4, <2>5
<1>10. \A k \in 0..PerRank : hist(steps, k) \in Nat
  <2> SUFFICES ASSUME NEW k \in 0..PerRank
               PROVE  hist(steps, k) \in Nat
    OBVIOUS
  <2> DEFINE F == { i \in 1..n : BusiestShare(steps[i]) = k }
  <2>1. F \in SUBSET (1..n) /\ IsFiniteSet(1..n) /\ hist(steps, k) = Cardinality(F)
    BY <1>1, FS_Interval DEF n
  <2> HIDE DEF F, hist
  <2> QED BY <2>1, FS_Subset, FS_CardinalityType
<1> DEFINE old == Summary(steps)
<1>11. /\ old.steps = n
       /\ old.sums = [r \in Rank |-> sums(steps, r)]
       /\ old.worstSum = worst(steps)
       /\ old.histogram = [k \in 0..PerRank |-> hist(steps, k)]
  BY DEF Summary, n
<1>12. Summary(q) = [ steps |-> Len(q),
                      sums |-> [r \in Rank |-> sums(q, r)],
                      worstSum |-> worst(q),
                      histogram |-> [k \in 0..PerRank |-> hist(q, k)] ]
  BY DEF Summary
<1> HIDE DEF sums, worst, hist, old
<1>13. [r \in Rank |-> sums(q, r)]
         = [r \in Rank |-> old.sums[r] + RankUnique(ids)[r]]
  BY <1>7, <1>11
<1>14. [k \in 0..PerRank |-> hist(q, k)]
         = [old.histogram EXCEPT ![Worst(ids)] = @ + 1]
  <2> DEFINE h == old.histogram
             w == Worst(ids)
  <2>1. h = [k \in 0..PerRank |-> hist(steps, k)] /\ w \in 0..PerRank
    BY <1>4, <1>11
  <2> HIDE DEF h, w
  <2>2. \A k \in 0..PerRank :
          hist(q, k) = IF k = w THEN h[w] + 1 ELSE h[k]
    BY <1>9, <1>10, <2>1 DEF w
  <2>3. [k \in 0..PerRank |-> hist(q, k)] = [h EXCEPT ![w] = h[w] + 1]
    BY <2>1, <2>2
  <2> QED BY <2>3 DEF h, w
<1> QED
  BY <1>1, <1>8, <1>11, <1>12, <1>13, <1>14 DEF Counted, old, q, n

-----------------------------------------------------------------------------
\* counters[l] is the profile of what has been issued, less what the GPU has
\* still to run.
CountsIssued(sel, queued, c) ==
    \E done \in Seq(Selections) : sel = done \o queued /\ c = Summary(done)

Counting ==
    /\ rows = NoRows /\ left = {}
    /\ \A l \in Layers :
        /\ CountsIssued(issued[l], launched[l], counters[l])
        /\ issued[l] # <<>> => born[l] # "none"

\* Between the two ends of a snapshot: a layer has been read, has still to
\* be, or never counted.
Read(l) ==
    /\ l \notin left /\ l \in DOMAIN rows
    /\ rows[l] = Summary(frozen[l])
    /\ counters[l] = Zeros

ToRead(l) ==
    /\ l \in left /\ l \notin DOMAIN rows
    /\ counters[l] = Summary(frozen[l])

NeverCounted(l) ==
    /\ l \notin left /\ l \notin DOMAIN rows
    /\ frozen[l] = <<>>
    /\ counters[l] = Zeros

Snapshotting ==
    /\ launched = Nothing /\ issued = Nothing
    /\ rpc = "replace" => left = {}
    /\ \A l \in Layers : Read(l) \/ ToRead(l) \/ NeverCounted(l)

\* The invariant: the counters stand for what was issued and not queued;
\* during a snapshot every layer is in one of three positions.
ProfileInv ==
    /\ TypeOK
    /\ issued \in [Layers -> Seq(Selections)]
    /\ rpc = "idle" => Counting
    /\ rpc # "idle" => Snapshotting
    /\ FileIsItsGeneration

\* Zeroed counters are right where nothing has been issued.
LEMMA NothingCounted == CountsIssued(<<>>, <<>>, Zeros)
<1>1. <<>> \in Seq(Selections) /\ <<>> = <<>> \o <<>>
  OBVIOUS
<1> QED BY <1>1, SummaryEmpty DEF CountsIssued

\* A launch joins what is queued.
LEMMA CountsLaunched ==
  ASSUME NEW sel, NEW queued \in Seq(Selections), NEW c, NEW ids \in Selections,
         CountsIssued(sel, queued, c)
  PROVE  CountsIssued(Append(sel, ids), Append(queued, ids), c)
<1>1. PICK done \in Seq(Selections) : sel = done \o queued /\ c = Summary(done)
  BY DEF CountsIssued
<1>2. Append(done \o queued, ids) = done \o Append(queued, ids)
  OBVIOUS
<1> QED BY <1>1, <1>2 DEF CountsIssued

\* A run of the kernel counts the first of what is queued.
LEMMA CountsRun ==
  ASSUME LaneAssumption, NEW sel, NEW queued \in Seq(Selections), queued # <<>>,
         NEW c, CountsIssued(sel, queued, c)
  PROVE  CountsIssued(sel, Tail(queued), Counted(c, Head(queued)))
<1>1. PICK done \in Seq(Selections) : sel = done \o queued /\ c = Summary(done)
  BY DEF CountsIssued
<1>2. Head(queued) \in Selections
  OBVIOUS
<1> DEFINE more == Append(done, Head(queued))
<1>3. more \in Seq(Selections) /\ done \o queued = more \o Tail(queued)
  OBVIOUS
<1>4. Summary(more) = Counted(Summary(done), Head(queued))
  BY <1>2, KernelAddsStep
<1> HIDE DEF more
<1> QED BY <1>1, <1>3, <1>4 DEF CountsIssued

\* With nothing queued the counters are the profile of all that was issued.
LEMMA CountsDone ==
  ASSUME NEW sel, NEW c, CountsIssued(sel, <<>>, c)
  PROVE  c = Summary(sel)
<1>1. PICK done \in Seq(Selections) : sel = done \o <<>> /\ c = Summary(done)
  BY DEF CountsIssued
<1>2. done \o <<>> = done
  OBVIOUS
<1> QED BY <1>1, <1>2

\* What a launch does to the two lists of selections.
LEMMA LaunchAppends ==
  ASSUME NEW l, NEW ids, Launch(l, ids)
  PROVE  /\ launched' = [launched EXCEPT ![l] = Append(launched[l], ids)]
         /\ issued' = [issued EXCEPT ![l] = Append(issued[l], ids)]
         /\ UNCHANGED <<frozen, profiled>>
BY Zenon DEF Launch

\* Every step keeps the types, that of the history included.
LEMMA ProfileTyped ==
  ASSUME LaneAssumption, RunAssumption, TypeOK,
         issued \in [Layers -> Seq(Selections)], [Next]_vars
  PROVE  TypeOK' /\ issued' \in [Layers -> Seq(Selections)]
<1> USE DEF TypeOK, server, snapshot, history
<1>1. ASSUME NEW l \in Layers, NEW ids \in Selections, Launch(l, ids)
      PROVE  /\ launched' \in [Layers -> Seq(Selections)]
             /\ issued' \in [Layers -> Seq(Selections)]
  <2>1. /\ launched' = [launched EXCEPT ![l] = Append(launched[l], ids)]
        /\ issued' = [issued EXCEPT ![l] = Append(issued[l], ids)]
    BY <1>1, LaunchAppends
  <2>2. /\ Append(launched[l], ids) \in Seq(Selections)
        /\ Append(issued[l], ids) \in Seq(Selections)
    OBVIOUS
  <2> QED BY <2>1, <2>2
<1>2. Nothing \in [Layers -> Seq(Selections)]
  BY DEF Nothing
<1>3. ASSUME NEW l \in Layers, ApplyUncounted(l)
      PROVE  TypeOK' /\ issued' \in [Layers -> Seq(Selections)]
  BY <1>3 DEF ApplyUncounted
<1>4. ASSUME NEW l \in Layers, NEW ids \in Selections, ApplyCounted(l, ids)
      PROVE  TypeOK' /\ issued' \in [Layers -> Seq(Selections)]
  <2>1. Launch(l, ids)
    BY <1>4 DEF ApplyCounted
  <2>2. /\ launched' \in [Layers -> Seq(Selections)]
        /\ issued' \in [Layers -> Seq(Selections)]
    BY <1>1, <2>1
  <2> QED BY <1>4, <2>2 DEF ApplyCounted
<1>5. ASSUME NEW l \in Layers, NEW ids \in Selections, Replay(l, ids)
      PROVE  TypeOK' /\ issued' \in [Layers -> Seq(Selections)]
  <2>1. Launch(l, ids)
    BY <1>5 DEF Replay
  <2>2. /\ launched' \in [Layers -> Seq(Selections)]
        /\ issued' \in [Layers -> Seq(Selections)]
    BY <1>1, <2>1
  <2> QED BY <1>5, <2>2 DEF Replay
<1>6. CASE BeginCapture \/ EndCapture
  BY <1>6 DEF BeginCapture, EndCapture
<1>7. ASSUME NEW l \in Layers, ApplyCaptured(l)
      PROVE  TypeOK' /\ issued' \in [Layers -> Seq(Selections)]
  BY <1>7 DEF ApplyCaptured
<1>8. ASSUME NEW l \in Layers, RunKernel(l)
      PROVE  TypeOK' /\ issued' \in [Layers -> Seq(Selections)]
  BY <1>8 DEF RunKernel
<1>9. CASE Synchronize
  BY <1>2, <1>9, RunAssumption DEF Synchronize, NoRows
<1>10. ASSUME NEW l \in Layers, ReadLayer(l)
       PROVE  TypeOK' /\ issued' \in [Layers -> Seq(Selections)]
  BY <1>10 DEF ReadLayer
<1>11. CASE WriteTemporary
  BY <1>11 DEF WriteTemporary
<1>12. CASE Replace
  BY <1>12 DEF Replace, NoRows
<1>13. CASE SnapshotFails
  BY <1>13 DEF SnapshotFails, NoRows
<1>14. CASE Restart
  <2>1. /\ run' \in 1..MaxRuns /\ generation' \in 0..MaxGeneration
        /\ file'.generation \in 0..MaxGeneration
    BY <1>14, RunAssumption DEF Restart
  <2>2. born' \in [Layers -> {"none", "eager"}]
    BY <1>14 DEF Restart
  <2>3. capturing' \in BOOLEAN
    BY <1>14 DEF Restart
  <2>4. /\ graph' \subseteq { l \in Layers : born'[l] = "eager" }
        /\ DOMAIN counters' = Layers /\ left' \subseteq Layers
        /\ rpc' \in {"idle", "read", "replace"}
        /\ DOMAIN rows' \subseteq Layers
    BY <1>14 DEF Restart, NoRows
  <2>5. /\ launched' \in [Layers -> Seq(Selections)]
        /\ issued' \in [Layers -> Seq(Selections)]
    BY <1>2, <1>14 DEF Restart
  <2> QED BY <2>1, <2>2, <2>3, <2>4, <2>5
<1>15. CASE UNCHANGED vars
  BY <1>15 DEF vars
<1> QED
  BY <1>3, <1>4, <1>5, <1>6, <1>7, <1>8, <1>9, <1>10, <1>11, <1>12, <1>13,
     <1>14, <1>15 DEF Next, Snapshot

\* The invariant holds at the start.
LEMMA ProfileInit ==
  ASSUME LaneAssumption, RunAssumption, Init
  PROVE  ProfileInv
<1>1. Nothing \in [Layers -> Seq(Selections)]
  BY DEF Nothing
<1>2. /\ launched \in [Layers -> Seq(Selections)]
      /\ issued \in [Layers -> Seq(Selections)]
  BY <1>1 DEF Init
<1>3. capturing \in BOOLEAN
  BY DEF Init
<1>4. run \in 1..MaxRuns /\ generation \in 0..MaxGeneration
  BY RunAssumption DEF Init
<1>5. /\ born \in [Layers -> {"none", "eager"}]
      /\ graph \subseteq { l \in Layers : born[l] = "eager" }
      /\ DOMAIN counters = Layers /\ left \subseteq Layers
      /\ rpc \in {"idle", "read", "replace"}
  BY DEF Init
<1>6. DOMAIN rows \subseteq Layers
  BY DEF Init, NoRows
<1>7. file.generation = 0 /\ file.generation \in 0..MaxGeneration
  BY RunAssumption DEF Init, NoFile
<1>8. TypeOK
  BY <1>2, <1>3, <1>4, <1>5, <1>6, <1>7 DEF TypeOK
<1>9. Counting
  BY NothingCounted DEF Init, Counting, Nothing
<1>10. FileIsItsGeneration
  BY <1>7 DEF FileIsItsGeneration
<1> QED
  BY <1>2, <1>8, <1>9, <1>10 DEF ProfileInv, Init

\* A launch on one layer keeps what the counters stand for.
LEMMA LaunchCounts ==
  ASSUME ProfileInv, Counting, NEW l \in Layers, NEW ids \in Selections,
         Launch(l, ids), counters' = counters, left' = left, rows' = rows,
         born'[l] # "none",
         \A k \in Layers : k # l => born'[k] = born[k]
  PROVE  Counting'
<1>1. /\ launched' = [launched EXCEPT ![l] = Append(launched[l], ids)]
      /\ issued' = [issued EXCEPT ![l] = Append(issued[l], ids)]
  BY LaunchAppends
<1>2. /\ launched \in [Layers -> Seq(Selections)]
      /\ issued \in [Layers -> Seq(Selections)]
  BY DEF ProfileInv, TypeOK
<1>3. SUFFICES ASSUME NEW k \in Layers
               PROVE  /\ CountsIssued(issued'[k], launched'[k], counters'[k])
                      /\ issued'[k] # <<>> => born'[k] # "none"
  BY DEF Counting
<1>4. CountsIssued(issued[k], launched[k], counters[k])
      /\ (issued[k] # <<>> => born[k] # "none")
  BY DEF Counting
<1>5. CASE k = l
  <2>1. CountsIssued(Append(issued[k], ids), Append(launched[k], ids), counters[k])
    BY <1>2, <1>4, CountsLaunched
  <2> QED BY <1>1, <1>2, <1>5, <2>1
<1>6. CASE k # l
  BY <1>1, <1>2, <1>4, <1>6
<1> QED BY <1>5, <1>6

\* Everything starts again from nothing.
LEMMA NothingIsCounted ==
  ASSUME issued = Nothing, launched = Nothing, rows = NoRows, left = {},
         \A l \in Layers : counters[l] = Zeros
  PROVE  Counting
<1>1. \A l \in Layers : issued[l] = <<>> /\ launched[l] = <<>>
  BY DEF Nothing
<1> QED BY <1>1, NothingCounted DEF Counting

\* A run of the kernel moves one selection from the queue to the counters.
LEMMA RunKernelCounts ==
  ASSUME LaneAssumption, ProfileInv, Counting, NEW l \in Layers, RunKernel(l)
  PROVE  Counting'
<1>1. /\ launched \in [Layers -> Seq(Selections)]
      /\ launched[l] # <<>> /\ born[l] # "captured" /\ DOMAIN counters = Layers
  BY DEF ProfileInv, TypeOK, RunKernel
<1>2. /\ launched' = [launched EXCEPT ![l] = Tail(launched[l])]
      /\ counters' = [counters EXCEPT ![l] = Counted(counters[l], Head(launched[l]))]
      /\ issued' = issued /\ born' = born /\ left' = left /\ rows' = rows
  BY <1>1 DEF RunKernel, server, snapshot, history
<1>3. SUFFICES ASSUME NEW k \in Layers
               PROVE  CountsIssued(issued[k], launched'[k], counters'[k])
  BY <1>2 DEF Counting
<1>4. CountsIssued(issued[k], launched[k], counters[k])
  BY DEF Counting
<1>5. CASE k = l
  <2>1. CountsIssued(issued[k], Tail(launched[k]),
                     Counted(counters[k], Head(launched[k])))
    BY <1>1, <1>4, <1>5, CountsRun
  <2> QED BY <1>1, <1>2, <1>5, <2>1
<1>6. CASE k # l
  BY <1>1, <1>2, <1>4, <1>6
<1> QED BY <1>5, <1>6

\* A snapshot starts when the GPU has nothing left to run: the counters are the
\* profile of what has been issued.
LEMMA SynchronizeSnapshots ==
  ASSUME LaneAssumption, ProfileInv, Counting, Synchronize
  PROVE  Snapshotting'
<1>1. /\ launched = Nothing /\ launched' = Nothing /\ issued' = Nothing
      /\ rpc' = "read" /\ left' = { l \in Layers : born[l] # "none" }
      /\ rows' = NoRows /\ frozen' = issued /\ counters' = counters
  BY DEF Synchronize
<1>2. \A l \in Layers : counters[l] = Summary(issued[l])
  <2>1. \A l \in Layers : launched[l] = <<>>
    BY <1>1 DEF Nothing
  <2>2. \A l \in Layers : CountsIssued(issued[l], launched[l], counters[l])
    BY DEF Counting
  <2> QED BY <2>1, <2>2, CountsDone
<1>3. ASSUME NEW l \in Layers PROVE ToRead(l)' \/ NeverCounted(l)'
  <2>1. CASE born[l] # "none"
    <3>1. l \in left' /\ l \notin DOMAIN rows' /\ counters'[l] = Summary(frozen'[l])
      BY <1>1, <1>2, <2>1 DEF NoRows
    <3> QED BY <3>1 DEF ToRead
  <2>2. CASE born[l] = "none"
    <3>1. issued[l] = <<>>
      BY <2>2 DEF Counting
    <3>2. counters[l] = Zeros
      BY <1>2, <3>1, SummaryEmpty
    <3>3. /\ l \notin left' /\ l \notin DOMAIN rows' /\ frozen'[l] = <<>>
          /\ counters'[l] = Zeros
      BY <1>1, <2>2, <3>1, <3>2 DEF NoRows
    <3> QED BY <3>3 DEF NeverCounted
  <2> QED BY <2>1, <2>2
<1> QED
  BY <1>1, <1>3 DEF Snapshotting

\* Reading a layer stores its profile and zeroes its counters.
LEMMA ReadLayerSnapshots ==
  ASSUME ProfileInv, Snapshotting, NEW l \in Layers, ReadLayer(l)
  PROVE  Snapshotting'
<1>1. /\ rpc = "read" /\ rpc' = "read" /\ l \in left /\ left' = left \ {l}
      /\ rows' = [k \in (DOMAIN rows) \union {l} |->
                    IF k = l THEN counters[l] ELSE rows[k]]
      /\ counters' = [counters EXCEPT ![l] = Zeros]
      /\ launched' = launched /\ issued' = issued /\ frozen' = frozen
  BY DEF ReadLayer, history
<1>2. DOMAIN counters = Layers
  BY DEF ProfileInv, TypeOK
<1>3. ASSUME NEW k \in Layers
      PROVE  Read(k)' \/ ToRead(k)' \/ NeverCounted(k)'
  <2>1. Read(k) \/ ToRead(k) \/ NeverCounted(k)
    BY DEF Snapshotting
  <2>2. CASE k = l
    <3>1. counters[k] = Summary(frozen[k])
      BY <1>1, <2>1, <2>2 DEF NeverCounted, Read, ToRead
    <3>2. /\ k \notin left' /\ k \in DOMAIN rows'
          /\ rows'[k] = counters[k] /\ counters'[k] = Zeros
      BY <1>1, <1>2, <2>2
    <3> QED BY <1>1, <3>1, <3>2 DEF Read
  <2>3. CASE k # l
    <3>1. /\ k \in left' <=> k \in left
          /\ k \in DOMAIN rows' <=> k \in DOMAIN rows
          /\ k \in DOMAIN rows => rows'[k] = rows[k]
          /\ counters'[k] = counters[k] /\ frozen'[k] = frozen[k]
      BY <1>1, <1>2, <2>3
    <3> QED BY <2>1, <3>1 DEF Read, ToRead, NeverCounted
  <2> QED BY <2>2, <2>3
<1> QED
  BY <1>1, <1>3 DEF Snapshotting

\* When nothing is left to read, every layer has been read or never counted.
LEMMA AllRead ==
  ASSUME Snapshotting, left = {}
  PROVE  \A l \in Layers : Read(l) \/ NeverCounted(l)
BY DEF Snapshotting, ToRead

\* The file that replaces the old one is the profile of its generation.
LEMMA ReplaceIsProfile ==
  ASSUME ProfileInv, Snapshotting, Replace
  PROVE  FileIsItsGeneration' /\ Counting'
<1>1. /\ rpc = "replace" /\ left = {} /\ left' = {} /\ rows' = NoRows
      /\ launched' = Nothing /\ issued' = Nothing /\ counters' = counters
      /\ file' = [generation |-> generation, rows |-> rows]
      /\ profiled' = frozen
  BY DEF Replace, server, Snapshotting
<1>2. \A l \in Layers : Read(l) \/ NeverCounted(l)
  BY <1>1, AllRead
<1>3. Counting'
  <2>1. \A l \in Layers : counters'[l] = Zeros
    BY <1>1, <1>2 DEF Read, NeverCounted
  <2>2. \A l \in Layers : issued'[l] = <<>> /\ launched'[l] = <<>>
    BY <1>1 DEF Nothing
  <2> QED BY <1>1, <2>1, <2>2, NothingCounted DEF Counting
<1>4. \A l \in Layers :
         IF l \in DOMAIN rows THEN rows[l] = Summary(frozen[l])
                              ELSE frozen[l] = <<>>
  BY <1>2 DEF Read, NeverCounted
<1>5. FileIsItsGeneration'
  <2>1. file'.rows = rows
    BY <1>1
  <2> QED BY <1>1, <1>4, <2>1 DEF FileIsItsGeneration
<1> QED BY <1>3, <1>5

\* A snapshot that fails loses its counts and leaves the file alone.
LEMMA FailureStartsAgain ==
  ASSUME ProfileInv, Snapshotting, SnapshotFails
  PROVE  Counting'
<1>1. /\ left = {} /\ left' = {} /\ rows' = NoRows
      /\ launched' = Nothing /\ issued' = Nothing /\ counters' = counters
  BY DEF SnapshotFails, Snapshotting
<1>2. \A l \in Layers : counters'[l] = Zeros
  BY <1>1, AllRead DEF Read, NeverCounted
<1>3. \A l \in Layers : issued'[l] = <<>> /\ launched'[l] = <<>>
  BY <1>1 DEF Nothing
<1> QED BY <1>1, <1>2, <1>3, NothingCounted DEF Counting

\* A restarted server has counted nothing.
LEMMA RestartStartsAgain ==
  ASSUME Restart
  PROVE  Counting' /\ rpc' = "idle"
<1>1. /\ left' = {} /\ rows' = NoRows /\ rpc' = "idle"
      /\ launched' = Nothing /\ issued' = Nothing
      /\ \A l \in Layers : counters'[l] = Zeros
  BY DEF Restart
<1>2. \A l \in Layers : issued'[l] = <<>> /\ launched'[l] = <<>>
  BY <1>1 DEF Nothing
<1> QED BY <1>1, <1>2, NothingCounted DEF Counting

\* Steps that touch nothing the counting or the snapshot depends on.
LEMMA OthersKeep ==
  ASSUME ProfileInv,
         UNCHANGED <<left, rows, launched, counters, issued, frozen>>,
         \A l \in Layers : born[l] # "none" => born'[l] # "none"
  PROVE  /\ Counting => Counting'
         /\ (Snapshotting /\ (rpc' = "replace" => left = {})) => Snapshotting'
<1>1. Counting => Counting'
  BY DEF Counting
<1>2. (Snapshotting /\ (rpc' = "replace" => left = {})) => Snapshotting'
  BY DEF Snapshotting, Read, ToRead, NeverCounted
<1> QED BY <1>1, <1>2

\* Only Replace writes the file.
LEMMA FileStays ==
  ASSUME FileIsItsGeneration, UNCHANGED <<file, profiled>>
  PROVE  FileIsItsGeneration'
BY DEF FileIsItsGeneration

\* Every step keeps the invariant.
LEMMA ProfileKept ==
  ASSUME LaneAssumption, RunAssumption, ProfileInv, [Next]_vars
  PROVE  ProfileInv'
<1> DEFINE Goal == /\ rpc' = "idle" => Counting'
                   /\ rpc' # "idle" => Snapshotting'
                   /\ FileIsItsGeneration'
<1> USE DEF server, snapshot, history
<1>1. /\ TypeOK /\ FileIsItsGeneration
      /\ rpc = "idle" => Counting
      /\ rpc # "idle" => Snapshotting
      /\ issued \in [Layers -> Seq(Selections)]
  BY DEF ProfileInv
<1>2. TypeOK' /\ issued' \in [Layers -> Seq(Selections)]
  BY <1>1, ProfileTyped
<1>3. born \in [Layers -> {"none", "eager"}]
  BY <1>1 DEF TypeOK
<1> SUFFICES Goal
  BY <1>2 DEF ProfileInv
<1>4. ASSUME NEW l \in Layers, ApplyUncounted(l)
      PROVE  Goal
  <2>1. /\ rpc = "idle" /\ rpc' = "idle"
        /\ UNCHANGED <<left, rows, launched, counters, issued, frozen>>
        /\ UNCHANGED <<file, profiled>>
        /\ \A k \in Layers : born[k] # "none" => born'[k] # "none"
    BY <1>3, <1>4 DEF ApplyUncounted
  <2> QED BY <1>1, <2>1, OthersKeep, FileStays
<1>5. ASSUME NEW l \in Layers, NEW ids \in Selections, ApplyCounted(l, ids)
      PROVE  Goal
  <2>1. /\ rpc = "idle" /\ Launch(l, ids)
        /\ UNCHANGED <<rpc, left, rows, file, counters>>
        /\ born' = [born EXCEPT ![l] = IF @ = "none" THEN "eager" ELSE @]
    BY <1>5 DEF ApplyCounted
  <2>2. /\ born'[l] # "none"
        /\ \A k \in Layers : k # l => born'[k] = born[k]
    BY <1>3, <2>1
  <2>3. Counting'
    BY <1>1, <2>1, <2>2, LaunchCounts
  <2>4. UNCHANGED <<file, profiled>>
    BY <2>1, LaunchAppends
  <2> QED BY <1>1, <2>1, <2>3, <2>4, FileStays
<1>6. ASSUME NEW l \in Layers, NEW ids \in Selections, Replay(l, ids)
      PROVE  Goal
  <2>1. /\ rpc = "idle" /\ l \in graph /\ Launch(l, ids)
        /\ UNCHANGED <<rpc, left, rows, file, counters, born>>
    BY <1>6 DEF Replay
  <2>2. born'[l] # "none"
    BY <1>1, <1>3, <2>1 DEF TypeOK
  <2>3. Counting'
    BY <1>1, <2>1, <2>2, LaunchCounts
  <2>4. UNCHANGED <<file, profiled>>
    BY <2>1, LaunchAppends
  <2> QED BY <1>1, <2>1, <2>3, <2>4, FileStays
<1>7. ASSUME BeginCapture \/ EndCapture \/ (\E l \in Layers : ApplyCaptured(l))
             \/ UNCHANGED vars
      PROVE  Goal
  <2>1. /\ UNCHANGED <<left, rows, launched, counters, issued, frozen>>
        /\ UNCHANGED <<file, profiled, rpc, born>>
    BY <1>7 DEF BeginCapture, EndCapture, ApplyCaptured, vars
  <2>2. rpc # "idle" => (rpc' = "replace" => left = {})
    BY <1>1, <2>1 DEF Snapshotting
  <2> QED BY <1>1, <2>1, <2>2, OthersKeep, FileStays
<1>8. ASSUME NEW l \in Layers, RunKernel(l)
      PROVE  Goal
  <2>1. launched[l] # <<>> /\ UNCHANGED <<rpc, file, profiled>>
    BY <1>8 DEF RunKernel
  <2>2. rpc = "idle"
    BY <1>1, <2>1 DEF Snapshotting, Nothing
  <2> QED BY <1>1, <1>8, <2>1, <2>2, RunKernelCounts, FileStays
<1>9. CASE Synchronize
  <2>1. rpc = "idle" /\ rpc' = "read" /\ UNCHANGED <<file, profiled>>
    BY <1>9 DEF Synchronize
  <2> QED BY <1>1, <1>9, <2>1, SynchronizeSnapshots, FileStays
<1>10. ASSUME NEW l \in Layers, ReadLayer(l)
       PROVE  Goal
  <2>1. rpc = "read" /\ rpc' = "read" /\ UNCHANGED <<file, profiled>>
    BY <1>10 DEF ReadLayer
  <2> QED BY <1>1, <1>10, <2>1, ReadLayerSnapshots, FileStays
<1>11. CASE WriteTemporary
  <2>1. /\ rpc = "read" /\ rpc' = "replace" /\ left = {}
        /\ UNCHANGED <<left, rows, launched, counters, issued, frozen>>
        /\ UNCHANGED <<file, profiled, born>>
    BY <1>11 DEF WriteTemporary
  <2> QED BY <1>1, <2>1, OthersKeep, FileStays
<1>12. CASE Replace
  <2>1. rpc = "replace" /\ rpc' = "idle"
    BY <1>12 DEF Replace
  <2> QED BY <1>1, <1>12, <2>1, ReplaceIsProfile
<1>13. CASE SnapshotFails
  <2>1. rpc # "idle" /\ rpc' = "idle" /\ UNCHANGED <<file, profiled>>
    BY <1>13 DEF SnapshotFails
  <2> QED BY <1>1, <1>13, <2>1, FailureStartsAgain, FileStays
<1>14. CASE Restart
  <2>1. UNCHANGED <<file, profiled>>
    BY <1>14 DEF Restart
  <2> QED BY <1>1, <1>14, <2>1, RestartStartsAgain, FileStays
<1> HIDE DEF Goal
<1> QED
  BY <1>4, <1>5, <1>6, <1>7, <1>8, <1>9, <1>10, <1>11, <1>12, <1>13, <1>14
     DEF Next, Snapshot

\* The inductive invariant holds in every run.
THEOREM ProfileInvariant == Spec => []ProfileInv
<1>1. Init => ProfileInv
  BY LaneAssumption, RunAssumption, ProfileInit
<1>2. ProfileInv /\ [Next]_vars => ProfileInv'
  BY LaneAssumption, RunAssumption, ProfileKept
<1> QED BY <1>1, <1>2, PTL DEF Spec

\* No run leaves the types; in particular no counters are born in a capture,
\* where every replay would zero them (_counters refuses it).
THEOREM ProfileTypeCorrect == Spec => []TypeOK
<1>1. ProfileInv => TypeOK
  BY DEF ProfileInv
<1> QED BY <1>1, ProfileInvariant, PTL

\* A snapshot file is the profile of exactly the steps issued in its
\* generation (snapshot_and_reset), also when a snapshot before or after it
\* failed, and after a restart.
THEOREM SnapshotIsItsGeneration == Spec => []FileIsItsGeneration
<1>1. ProfileInv => FileIsItsGeneration
  BY DEF ProfileInv
<1> QED BY <1>1, ProfileInvariant, PTL

\* Between snapshots, once the GPU has run what was launched, the counters are
\* the profile of exactly what was issued since the last reset.
THEOREM CountersAreTrue == Spec => []CountersAreThisGeneration
<1>1. ASSUME ProfileInv, rpc = "idle", NEW l \in Layers, launched[l] = <<>>
      PROVE  counters[l] = Summary(issued[l])
  <2>1. CountsIssued(issued[l], <<>>, counters[l])
    BY <1>1 DEF ProfileInv, Counting
  <2> QED BY <2>1, CountsDone
<1>2. ProfileInv => CountersAreThisGeneration
  BY <1>1 DEF CountersAreThisGeneration
<1> QED BY <1>2, ProfileInvariant, PTL

=============================================================================
