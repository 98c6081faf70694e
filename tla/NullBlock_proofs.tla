-------------------------- MODULE NullBlock_proofs --------------------------
(***************************************************************************)
(* That either patch keeps every answer finite, for any layout of views    *)
(* over the cache and any tile and row widths, and that the probes do not  *)
(* pass a server on which neither does.                                    *)
(***************************************************************************)
EXTENDS Probes, TLAPS

-----------------------------------------------------------------------------
\* The gathers: the tile's first entry is valid whenever the tile is iterated.
LEMMA FixAvoidsNull ==
    ASSUME conf.fix, NEW n \in Nat
    PROVE  ~GathersNull(n)
<1> SUFFICES ASSUME NEW tile \in 0..MaxValid, NEW e \in 0..(Tile - 1),
                    IsIterated(n, tile), Gathered(n, tile, e) = NullRow
             PROVE  FALSE
  BY DEF GathersNull
<1>1. tile * Tile \in Nat /\ tile * Tile < n
  BY BoundAssumption DEF IsIterated
<1>2. PICK first \in Nat : first = tile * Tile /\ first < n
  BY <1>1
<1>3. e \in Nat
  BY BoundAssumption
<1>4. Entry(n, first) = first
  BY <1>2 DEF Entry
<1>5. Gathered(n, tile, e) =
        IF Entry(n, first + e) >= 0 THEN Entry(n, first + e) ELSE first
  BY <1>2, <1>4 DEF Gathered
<1> QED
  BY <1>2, <1>3, <1>5 DEF Entry, NullRow

-----------------------------------------------------------------------------
(***************************************************************************)
(* The invariant                                                           *)
(***************************************************************************)
Clean(v) == \A c \in Block0[v] : null[c] = "zero"

\* Nothing the GPU has still to run writes a view that has been zeroed.
ScrubUnderWay ==
    stage = "scrub" =>
        /\ dummies = 0
        /\ \A v \in Views \ (todo \union zeroing) : Clean(v)

ScrubDone ==
    stage = "serving" /\ conf.graphs /\ conf.scrub =>
        /\ dummies = 0
        /\ ~conf.paddedWrites => \A v \in Views \ zeroing : Clean(v)

\* Without graphs nobody writes the null block.
EagerIsClean ==
    ~conf.graphs =>
        /\ stage \in {"loaded", "serving"}
        /\ dummies = 0
        /\ \A v \in Views : Clean(v)

IInv == TypeOK /\ ScrubUnderWay /\ ScrubDone /\ EagerIsClean /\ EitherIsEnough

\* A server before its graph capture keeps the invariant.
LEMMA InitIInv == Init => IInv
BY ViewAssumption, BoundAssumption
   DEF Init, IInv, TypeOK, ScrubUnderWay, ScrubDone, EagerIsClean, EitherIsEnough, Clean

\* A cell is only made dirty by a write of a view that owns it.
LEMMA ZeroCleans ==
    ASSUME TypeOK, NEW v \in Views, RunZero(v)
    PROVE  /\ TypeOK'
           /\ \A w \in Views : Clean(w) => Clean(w)'
           /\ Clean(v)'
<1>1. \A w \in Views : Block0[w] \subseteq Cells
  BY ViewAssumption
<1> QED
  BY <1>1 DEF RunZero, TypeOK, Clean

\* A write keeps every cell a cell.
LEMMA WriteKeepsTypes ==
    ASSUME null \in [Cells -> {"zero", "finite", "nan"}],
           \E v \in Writers : \E c \in Block0[v], bytes \in {"finite", "nan"} :
               null' = [null EXCEPT ![c] = bytes]
    PROVE  null' \in [Cells -> {"zero", "finite", "nan"}]
OBVIOUS

\* A query over clean views, or through the fixed gathers, stays finite.
LEMMA QueryStaysFinite ==
    ASSUME IInv, NEW r \in Requests, NEW n \in [Readers -> 0..MaxValid], Query(r, n)
    PROVE  IInv'
<1>1. TypeOK'
  BY DEF IInv, TypeOK, Query
<1>2. ASSUME conf.fix \/ (conf.scrub /\ ~conf.paddedWrites) \/ ~conf.graphs,
             NEW v \in Readers, GathersNull(n[v]), IsNaN(v)
      PROVE  FALSE
  <2>1. ~conf.fix
    <3>1. n[v] \in Nat
      BY BoundAssumption
    <3> QED
      BY <1>2, <3>1, FixAvoidsNull
  <2>2. v \in Views /\ Row0[v] \subseteq Block0[v]
    BY ViewAssumption
  <2>3. Clean(v)
    BY <1>2, <2>1, <2>2 DEF IInv, ScrubDone, EagerIsClean, Query
  <2> QED
    BY <1>2, <2>2, <2>3 DEF IsNaN, Clean
<1>3. EitherIsEnough'
  BY <1>2 DEF IInv, TypeOK, Query, EitherIsEnough
<1> QED
  BY <1>1, <1>3
     DEF IInv, Query, ScrubUnderWay, ScrubDone, EagerIsClean, Clean

\* Every step keeps the invariant: one part of the proof per action.
LEMMA StepIInv == IInv /\ [Next]_vars => IInv'
<1> SUFFICES ASSUME IInv, [Next]_vars PROVE IInv'
  OBVIOUS
<1> USE DEF IInv
<1>1. CASE BeginCapture
  BY <1>1 DEF BeginCapture, TypeOK, ScrubUnderWay, ScrubDone, EagerIsClean, EitherIsEnough, Clean
<1>2. CASE SkipCapture
  BY <1>2 DEF SkipCapture, TypeOK, ScrubUnderWay, ScrubDone, EagerIsClean, EitherIsEnough, Clean
<1>3. CASE DummyForward
  BY <1>3, BoundAssumption
     DEF DummyForward, TypeOK, ScrubUnderWay, ScrubDone, EagerIsClean, EitherIsEnough, Clean
<1>4. CASE RunDummy
  <2>1. TypeOK'
    <3>1. null' \in [Cells -> {"zero", "finite", "nan"}]
      BY <1>4, WriteKeepsTypes DEF RunDummy, TypeOK
    <3>2. dummies' \in 0..MaxDummy
      BY <1>4, BoundAssumption DEF RunDummy, TypeOK
    <3> QED
      BY <1>4, <3>1, <3>2 DEF RunDummy, TypeOK
  <2>2. /\ stage # "scrub"
        /\ ~(stage = "serving" /\ conf.graphs /\ conf.scrub)
        /\ conf.graphs
    BY <1>4 DEF RunDummy, ScrubUnderWay, ScrubDone, EagerIsClean
  <2> QED
    BY <1>4, <2>1, <2>2
       DEF RunDummy, ScrubUnderWay, ScrubDone, EagerIsClean, EitherIsEnough
<1>5. CASE Synchronize
  BY <1>5 DEF Synchronize, TypeOK, ScrubUnderWay, ScrubDone, EagerIsClean, EitherIsEnough, Clean
<1>6. ASSUME NEW v \in Views, ZeroBlock(v) PROVE IInv'
  BY <1>6 DEF ZeroBlock, TypeOK, ScrubUnderWay, ScrubDone, EagerIsClean, EitherIsEnough, Clean
<1>7. ASSUME NEW v \in Views, RunZero(v) PROVE IInv'
  <2>1. /\ TypeOK'
        /\ \A w \in Views : Clean(w) => Clean(w)'
        /\ Clean(v)'
    BY <1>7, ZeroCleans
  <2> QED
    BY <1>7, <2>1 DEF RunZero, ScrubUnderWay, ScrubDone, EagerIsClean, EitherIsEnough
<1>8. CASE CaptureReturns
  <2>1. TypeOK'
    BY <1>8 DEF CaptureReturns, TypeOK
  <2>2. conf.graphs
    BY <1>8 DEF CaptureReturns, EagerIsClean
  <2> QED
    BY <1>8, <2>1, <2>2
       DEF CaptureReturns, ScrubUnderWay, ScrubDone, EagerIsClean, EitherIsEnough, Clean
<1>9. ASSUME NEW r \in Requests, NEW n \in [Readers -> 0..MaxValid], Query(r, n)
      PROVE  IInv'
  BY <1>9, QueryStaysFinite
<1>10. CASE PaddedReplay
  <2>1. TypeOK'
    BY <1>10, WriteKeepsTypes DEF PaddedReplay, TypeOK
  <2> QED
    BY <1>10, <2>1
       DEF PaddedReplay, ScrubUnderWay, ScrubDone, EagerIsClean, EitherIsEnough
<1>11. ASSUME NEW r \in Requests, Complete(r) PROVE IInv'
  BY <1>11 DEF Complete, TypeOK, ScrubUnderWay, ScrubDone, EagerIsClean, EitherIsEnough, Clean
<1>12. CASE UNCHANGED vars
  BY <1>12 DEF vars, TypeOK, ScrubUnderWay, ScrubDone, EagerIsClean, EitherIsEnough, Clean
<1> QED
  BY <1>1, <1>2, <1>3, <1>4, <1>5, <1>6, <1>7, <1>8, <1>9, <1>10, <1>11, <1>12 DEF Next

-----------------------------------------------------------------------------
\* The state has its types, for any views over any cells.
THEOREM TypeCorrect == Spec => []TypeOK
<1>1. IInv => TypeOK
  BY DEF IInv
<1> QED
  BY <1>1, InitIInv, StepIInv, PTL DEF Spec

\* Every request's output is finite with the scrub, with the gather fix or
\* without graphs, whatever the dummy forwards leave in the null block.
THEOREM OutputsFinite == Spec => []EitherIsEnough
<1>1. IInv => EitherIsEnough
  BY DEF IInv
<1> QED
  BY <1>1, InitIInv, StepIInv, PTL DEF Spec

\* A scrubbed server's null block is zero in every view.
THEOREM ScrubIsComplete == Spec => []NullBlockIsScrubbed
<1>1. IInv => NullBlockIsScrubbed
  BY DEF IInv, NullBlockIsScrubbed, ScrubDone, EagerIsClean, Clean
<1> QED
  BY <1>1, InitIInv, StepIInv, PTL DEF Spec

-----------------------------------------------------------------------------
(***************************************************************************)
(* Which rows gather the null block                                        *)
(***************************************************************************)
\* A partial tile is iterated, and its missing entry is the null row.
LEMMA PartialTileGathers ==
    ASSUME ~conf.fix, NEW n \in 0..MaxValid, n % Tile # 0
    PROVE  GathersNull(n)
<1> USE BoundAssumption
<1> DEFINE q == n \div Tile
           m == n % Tile
<1>1. q \in Nat /\ m \in 1..(Tile - 1) /\ n = q * Tile + m OBVIOUS
<1>2. q * Tile \in Nat /\ q <= q * Tile BY <1>1
<1>3. q \in 0..MaxValid BY <1>1, <1>2
<1>4. IsIterated(n, q) BY <1>1, <1>2 DEF IsIterated
<1>5. q * Tile + m = n BY <1>1
<1>6. Gathered(n, q, m) = NullRow BY <1>5 DEF Gathered, Entry, NullRow
<1>7. QED BY <1>1, <1>3, <1>4, <1>6 DEF GathersNull

-----------------------------------------------------------------------------
(***************************************************************************)
(* The gate                                                                *)
(***************************************************************************)
\* The probes ask for nothing that another client could not.
LEMMA GateIsClient == ProbeStep \/ OtherStep \/ UNCHANGED <<vars, probeVars>> => [Next]_vars
<1>1. [v \in Readers |-> 1] \in [Readers -> 0..MaxValid]
  BY ProbeAssumption, BoundAssumption
<1> QED
  BY <1>1, ProbeAssumption
     DEF ProbeStep, OtherStep, RunGate, Reach, Send, Decode, CheckAnswer,
         MatchContinuation, ScorePassage, PrintChat, Verdict, Reply, Next

Blind == ~conf.fix /\ ~conf.paddedWrites

\* The GPU has run all there is to run before the first request, and what no
\* replay writes stays as it is.
Quiet == stage = "serving" /\ dummies = 0 /\ zeroing = {}

ReadsClean == Quiet /\ \A v \in Readers : ~IsNaN(v)

\* A finite answer to the probe, and a matched continuation, are of a server
\* whose null block was clean, and still is.
Witnessed ==
    Blind =>
        /\ out[Probe] = "finite" => ReadsClean
        /\ hits > 0 => ReadsClean

Passing == hits \in Nat /\ (gate = "passed" => hits >= 4)

GInv == IInv /\ Witnessed /\ Passing

\* The row of a prompt's first token gathers the null block.
LEMMA FirstTokenGathers == ASSUME Blind PROVE GathersNull(1)
<1>1. 1 \in 0..MaxValid /\ 1 % Tile = 1 BY ProbeAssumption, BoundAssumption
<1> QED BY <1>1, PartialTileGathers DEF Blind

\* Once the server is quiet nothing but a padded replay writes the null block.
LEMMA QuietStays ==
    ASSUME IInv, Blind, ReadsClean, [Next]_vars
    PROVE  ReadsClean'
<1>1. dummies \in Nat /\ todo = {} BY BoundAssumption DEF IInv, TypeOK, ReadsClean, Quiet
<1> QED
  BY <1>1
     DEF Blind, ReadsClean, Quiet, IsNaN, Next, vars, BeginCapture, SkipCapture,
         DummyForward, RunDummy, Synchronize, ZeroBlock, RunZero,
         CaptureReturns, Query, PaddedReplay, Complete

\* Every probe, and every step of the server between probes, keeps GInv.
LEMMA GateStep == GInv /\ [ProbeStep \/ OtherStep]_<<vars, probeVars>> => GInv'
<1> SUFFICES ASSUME GInv, [ProbeStep \/ OtherStep]_<<vars, probeVars>>
             PROVE  GInv'
  OBVIOUS
<1> USE DEF GInv
<1>1. [Next]_vars BY GateIsClient
<1>2. IInv' BY <1>1, StepIInv
<1>3. Blind' => Blind
  BY <1>1 DEF Blind, Next, vars, BeginCapture, SkipCapture,
         DummyForward, RunDummy, Synchronize, ZeroBlock, RunZero,
         CaptureReturns, Query, PaddedReplay, Complete
<1>4. Blind /\ ReadsClean => ReadsClean' BY <1>1, QuietStays
<1>5. out \in [Requests -> {"idle", "finite", "nan"}] /\ Probe \in Requests
  BY ProbeAssumption DEF IInv, TypeOK
<1>6. Passing'
  <2>1. CASE MatchContinuation
    <3>1. gate = "none" /\ gate' = gate
      BY <2>1 DEF MatchContinuation, Running
    <3>2. hits' \in {hits, hits + 1} BY <2>1 DEF MatchContinuation
    <3>3. QED BY <3>1, <3>2 DEF Passing
  <2>2. CASE Verdict
    <3>1. hits' = hits /\ gate' = IF Sane THEN "passed" ELSE "stopped"
      BY <2>2 DEF Verdict
    <3>2. Sane => hits >= 4 BY DEF Sane
    <3>3. QED BY <3>1, <3>2 DEF Passing
  <2>3. CASE ~MatchContinuation /\ ~Verdict
    <3>1. hits' = hits /\ gate' \in {gate, "stopped"}
      BY <2>3 DEF ProbeStep, OtherStep, probeVars, RunGate, Reach, Send, Decode,
         CheckAnswer, ScorePassage, PrintChat, Advance, Stop
    <3>2. QED BY <3>1 DEF Passing
  <2>4. QED BY <2>1, <2>2, <2>3
<1>7. ASSUME Blind, hits' > 0 PROVE ReadsClean \/ hits > 0
  BY <1>7 DEF Witnessed, Passing, ProbeStep, OtherStep, probeVars, RunGate, Reach,
         Send, Decode, CheckAnswer, MatchContinuation, MayBeRight, ScorePassage,
         PrintChat, Verdict, Advance, Stop
<1>8. ASSUME Blind, out'[Probe] = "finite" PROVE ReadsClean \/ ReadsClean'
  <2>1. CASE Send
    <3>1. Query(Probe, [v \in Readers |-> 1]) BY <2>1 DEF Send
    <3>2. \A v \in Readers : ~IsNaN(v)
      BY <1>5, <1>8, <3>1, FirstTokenGathers DEF Query
    <3>3. QED BY <3>1, <3>2 DEF ReadsClean, Quiet, Query
  <2>2. ASSUME NEW n \in [Readers -> 0..MaxValid], Decode(n) PROVE ReadsClean
    <3>1. out[Probe] = "finite" BY <1>5, <1>8, <2>2 DEF Decode, Query
    <3>2. QED BY <1>8, <3>1 DEF Witnessed
  <2>3. CASE Complete(Probe) BY <1>5, <1>8, <2>3 DEF Complete
  <2>4. CASE out'[Probe] = out[Probe] BY <1>8, <2>4 DEF Witnessed
  <2>5. QED
    BY <2>1, <2>2, <2>3, <2>4
       DEF ProbeStep, OtherStep, vars, RunGate, Reach, CheckAnswer,
           MatchContinuation, ScorePassage, PrintChat, Verdict, Reply
<1>9. Witnessed' BY <1>3, <1>4, <1>7, <1>8 DEF Witnessed
<1>10. QED BY <1>2, <1>6, <1>9

\* "Is the model actually right, or just up?": for any views, rows and other
\* traffic, healthcheck.sh and verify.py stop a server whose unfixed kernels
\* read NaN from the null block.
THEOREM GateStopsNaN == GateSpec => []GatePassesNoNaN
<1>1. GateInit => GInv
  BY InitIInv, ProbeAssumption DEF GateInit, GInv, Witnessed, Passing, Init
<1>2. GInv => GatePassesNoNaN
  BY DEF GInv, Witnessed, Passing, Blind, ReadsClean, GatePassesNoNaN
<1>3. QED BY <1>1, <1>2, GateStep, PTL DEF GateSpec

=============================================================================
