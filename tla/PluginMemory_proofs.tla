----------------------- MODULE PluginMemory_proofs -----------------------
(***************************************************************************)
(* Theorems about the memory the vLLM plugin handles in a worker: pinned   *)
(* host buffers (module PinnedMemory), for any number of buffers of any    *)
(* size, and the GPU temporaries that weights are staged in (module        *)
(* MarlinStaging), for any streams, weights, batches and queues.           *)
(***************************************************************************)
EXTENDS PinnedMemory, MarlinStaging, SumTheorems

USE PagesAssumption

\* Where a buffer is in its life decides what is mapped and registered.
\* Fresh: nobody has it, or empty_pinned() is about to map it.
InHand(b) == at \in {"mapped", "registered"} /\ cur = b

Claimed(b) == b \in armed \/ b \in kept \/ rel[b] # "none" \/ InHand(b)

Owned(b) ==
    /\ b \in armed =>
        b \in mapped /\ b \in registered /\ rel[b] = "none" /\ b \notin kept
    /\ holders[b] # {} => b \in armed
    /\ b \in reading => holders[b] # {}
    /\ b \in kept => b \in mapped /\ b \in registered /\ rel[b] = "none"

Releasing(b) ==
    /\ rel[b] = "called" => b \in mapped /\ b \in registered
    /\ rel[b] = "unregistered" => b \in mapped /\ b \notin registered
    /\ rel[b] = "closed" => b \notin mapped /\ b \notin registered

Allocating ==
    /\ at = "mapped" =>
        /\ cur \in mapped /\ cur \notin registered
        /\ cur \notin armed /\ cur \notin kept /\ rel[cur] = "none"
    /\ at = "registered" =>
        /\ cur \in mapped /\ cur \in registered
        /\ cur \notin armed /\ cur \notin kept /\ rel[cur] = "none"
    /\ at \in {"armed", "counted", "peaked"} =>
        cur \in armed /\ holders[cur] = {"frame"}

Unclaimed(b) == ~Claimed(b) => b \notin mapped /\ b \notin registered

IInv ==
    /\ TypeOK
    /\ Allocating
    /\ \A b \in Buf : Owned(b) /\ Releasing(b) /\ Unclaimed(b)
    /\ PeakCoversLive

\* Before the first allocation the invariant holds.
LEMMA InitEstablishes == Init => IInv
<1> SUFFICES ASSUME Init PROVE IInv
  OBVIOUS
<1>1. TypeOK
  BY DEF Init, TypeOK
<1>2. QED
  BY <1>1 DEF Init, IInv, Allocating, Owned, Releasing, Unclaimed,
     PeakCoversLive

\* Every step keeps it: one part of the proof per action.
LEMMA StepPreserves == IInv /\ [Next]_vars => IInv'
<1> SUFFICES ASSUME IInv, [Next]_vars PROVE IInv'
  OBVIOUS
<1> USE DEF IInv, TypeOK, Allocating, Owned, Releasing, Unclaimed, Claimed,
            InHand, PeakCoversLive
<1>1. ASSUME NEW b \in Buf, MapPages(b) PROVE IInv'
  BY <1>1 DEF MapPages
<1>2. CASE RegisterPages
  BY <1>2 DEF RegisterPages
<1>3. CASE RegisterFails
  BY <1>3 DEF RegisterFails
<1>4. CASE ArmFinalizer
  BY <1>4 DEF ArmFinalizer, Holder
<1>5. CASE CountLive
  BY <1>5 DEF CountLive
<1>6. CASE RaisePeak
  BY <1>6 DEF RaisePeak
<1>7. CASE ReturnTensor
  BY <1>7 DEF ReturnTensor, Holder
<1>8. ASSUME NEW b \in Buf, MakeView(b) PROVE IInv'
  BY <1>8 DEF MakeView, Holder
<1>9. ASSUME NEW b \in Buf, NEW h \in Holder, Drop(b, h) PROVE IInv'
  BY <1>9 DEF Drop, Holder
<1>10. ASSUME NEW b \in Buf, LaunchKernel(b) PROVE IInv'
  BY <1>10 DEF LaunchKernel
<1>11. ASSUME NEW b \in Buf, KernelDone(b) PROVE IInv'
  BY <1>11 DEF KernelDone
<1>12. ASSUME NEW b \in Buf, Collect(b) PROVE IInv'
  BY <1>12 DEF Collect
<1>13. ASSUME NEW b \in Buf, Unregister(b) PROVE IInv'
  BY <1>13 DEF Unregister
<1>14. ASSUME NEW b \in Buf, UnregisterFails(b) PROVE IInv'
  BY <1>14 DEF UnregisterFails
<1>15. ASSUME NEW b \in Buf, CloseMapping(b) PROVE IInv'
  BY <1>15 DEF CloseMapping
<1>16. ASSUME NEW b \in Buf, DiscountLive(b) PROVE IInv'
  BY <1>16 DEF DiscountLive
<1>17. CASE Shutdown
  BY <1>17 DEF Shutdown
<1>18. CASE UNCHANGED vars
  BY <1>18 DEF vars
<1>19. QED
  BY <1>1, <1>2, <1>3, <1>4, <1>5, <1>6, <1>7, <1>8, <1>9, <1>10, <1>11,
     <1>12, <1>13, <1>14, <1>15, <1>16, <1>17, <1>18
  DEF Next, Running, Allocate, Use, Release, Exited

\* IInv holds in every state.
LEMMA Invariance == Spec => []IInv
BY InitEstablishes, StepPreserves, PTL DEF Spec

\* Every variable keeps its type.
THEOREM TypeCorrect == Spec => []TypeOK
<1>1. IInv => TypeOK BY DEF IInv
<1>2. QED BY <1>1, Invariance, PTL

\* No tensor, view or queued kernel ever reaches memory that is unmapped or
\* no longer page-locked, however releases and allocations interleave.
THEOREM MemorySafety == Spec => []NoDangling
<1>1. IInv => NoDangling BY DEF IInv, Owned, NoDangling
<1>2. QED BY <1>1, Invariance, PTL

\* CUDA never owns memory the process has unmapped.
THEOREM NeverUnmapRegistered == Spec => []RegisteredStaysMapped
<1>1. IInv => RegisteredStaysMapped
  BY DEF IInv, TypeOK, Owned, Releasing, Unclaimed, Claimed, InHand,
     Allocating, RegisteredStaysMapped
<1>2. QED BY <1>1, Invariance, PTL

\* The reported peak is never below the reported live size between two
\* allocations.
THEOREM PeakIsSound == Spec => []PeakCoversLive
<1>1. IInv => PeakCoversLive BY DEF IInv
<1>2. QED BY <1>1, Invariance, PTL

\* A mapping whose release failed is kept, mapped and registered, for good.
THEOREM FailedReleaseIsKept == Spec => KeptForGood
<1>1. IInv /\ [Next]_vars =>
        [\A b \in kept : b \in mapped' /\ b \in registered' /\ b \in kept']_vars
  <2> SUFFICES ASSUME IInv, Next, NEW b \in kept
               PROVE  b \in mapped' /\ b \in registered' /\ b \in kept'
    BY DEF vars
  <2>1. b \in Buf /\ IInv'
    BY StepPreserves DEF IInv, TypeOK
  <2>2. b \in kept'
    BY DEF Next, Running, Exited, Allocate, Use, Release, MapPages,
       RegisterPages, RegisterFails, ArmFinalizer, CountLive, RaisePeak,
       ReturnTensor, MakeView, Drop, LaunchKernel, KernelDone, Collect,
       Unregister, UnregisterFails, CloseMapping, DiscountLive, Shutdown, vars
  <2>3. QED BY <2>1, <2>2 DEF IInv, Owned
<1>2. QED BY <1>1, Invariance, PTL DEF Spec, KeptForGood
-----------------------------------------------------------------------------
(***************************************************************************)
(* The ledger of live bytes                                                *)
(***************************************************************************)
\* The buffers whose pages _live_bytes contains: mapped ones that
\* empty_pinned() has counted, and unmapped ones _release() has not
\* discounted yet.
Uncounted(b) == at \in {"mapped", "registered", "armed"} /\ cur = b

Counted == { b \in Buf : (b \in mapped /\ ~Uncounted(b)) \/ rel[b] = "closed" }

Ledger == IsFiniteSet(Counted) /\ live = SumOver(Pages, Counted)

\* Nothing is mapped and nothing counted.
LEMMA LedgerInit == Init => Ledger
<1> SUFFICES ASSUME Init PROVE Ledger
  OBVIOUS
<1>1. Counted = {}
  BY DEF Init, Counted
<1>2. IsFiniteSet({}) /\ SumOver(Pages, {}) = 0
  BY FS_EmptySet, SumEmpty
<1> QED
  BY <1>1, <1>2 DEF Ledger, Init

\* Every step moves the count and the mappings together.
LEMMA LedgerStep == IInv /\ Ledger /\ [Next]_vars => Ledger'
<1> SUFFICES ASSUME IInv, Ledger, [Next]_vars PROVE Ledger'
  OBVIOUS
<1> USE DEF IInv, TypeOK, Allocating, Owned, Releasing
<1>1. \A b \in Buf : Pages[b] \in Int
  BY PagesAssumption
<1>2. ASSUME Counted' = Counted, live' = live
      PROVE  Ledger'
  BY <1>2 DEF Ledger
<1>3. CASE CountLive
  <2>1. cur \in Buf /\ cur \notin Counted /\ Counted' = Counted \union {cur}
    BY <1>3 DEF CountLive, Counted, Uncounted
  <2>2. SumOver(Pages, Counted \union {cur}) = SumOver(Pages, Counted) + Pages[cur]
    <3>1. \A b \in Counted \union {cur} : Pages[b] \in Int
      BY <1>1, <2>1 DEF Counted
    <3> QED BY <2>1, <3>1, SumAdd DEF Ledger
  <2>3. IsFiniteSet(Counted \union {cur})
    BY FS_AddElement DEF Ledger
  <2>4. live' = live + Pages[cur]
    BY <1>3 DEF CountLive
  <2> QED BY <2>1, <2>2, <2>3, <2>4 DEF Ledger
<1>4. ASSUME NEW b \in Buf, DiscountLive(b)
      PROVE  Ledger'
  <2>1. b \in Counted /\ Counted' = Counted \ {b}
    BY <1>4 DEF DiscountLive, Counted, Uncounted
  <2>2. SumOver(Pages, Counted) = Pages[b] + SumOver(Pages, Counted \ {b})
    <3>1. \A c \in Counted : Pages[c] \in Int
      BY <1>1 DEF Counted
    <3> QED BY <2>1, <3>1, SumRemove DEF Ledger
  <2>3. IsFiniteSet(Counted \ {b})
    BY FS_RemoveElement DEF Ledger
  <2>4. SumOver(Pages, Counted \ {b}) \in Int
    <3>1. \A c \in Counted \ {b} : Pages[c] \in Int
      BY <1>1 DEF Counted
    <3> QED BY <2>3, <3>1, SumInt
  <2>5. live' = live - Pages[b]
    BY <1>4 DEF DiscountLive
  <2> QED BY <1>1, <2>1, <2>2, <2>3, <2>4, <2>5 DEF Ledger
<1>5. ASSUME NEW b \in Buf, MapPages(b) PROVE Ledger'
  <2>1. Counted' = Counted /\ live' = live
    BY <1>5 DEF MapPages, Counted, Uncounted
  <2> QED BY <2>1, <1>2
<1>6. CASE RegisterPages
  <2>1. Counted' = Counted /\ live' = live
    BY <1>6 DEF RegisterPages, Counted, Uncounted
  <2> QED BY <2>1, <1>2
<1>7. CASE RegisterFails
  <2>1. Counted' = Counted /\ live' = live
    BY <1>7 DEF RegisterFails, Counted, Uncounted
  <2> QED BY <2>1, <1>2
<1>8. CASE ArmFinalizer
  <2>1. Counted' = Counted /\ live' = live
    BY <1>8 DEF ArmFinalizer, Counted, Uncounted
  <2> QED BY <2>1, <1>2
<1>9. CASE RaisePeak \/ ReturnTensor
  <2>1. Counted' = Counted /\ live' = live
    BY <1>9 DEF RaisePeak, ReturnTensor, Counted, Uncounted
  <2> QED BY <2>1, <1>2
<1>10. ASSUME NEW b \in Buf,
              Collect(b) \/ Unregister(b) \/ UnregisterFails(b) \/ CloseMapping(b)
       PROVE  Ledger'
  <2>1. Counted' = Counted /\ live' = live
    BY <1>10 DEF Collect, Unregister, UnregisterFails, CloseMapping, Counted,
       Uncounted
  <2> QED BY <2>1, <1>2
<1>11. ASSUME UNCHANGED <<at, cur, mapped, rel, live>> PROVE Ledger'
  <2>1. Counted' = Counted /\ live' = live
    BY <1>11 DEF Counted, Uncounted
  <2> QED BY <2>1, <1>2
<1> QED
  BY <1>3, <1>4, <1>5, <1>6, <1>7, <1>8, <1>9, <1>10, <1>11
  DEF Next, Running, Allocate, Use, Release, Exited, MakeView, Drop,
      LaunchKernel, KernelDone, Shutdown, vars

\* allocation_stats() tells the truth: whenever no allocation or release is
\* between two of its steps, live_bytes is the size of what is mapped.
THEOREM LedgerIsTrue == Spec => []LedgerMatchesMappings
<1>1. Init => Ledger
  BY LedgerInit
<1>2. IInv /\ Ledger /\ [Next]_vars => Ledger'
  BY LedgerStep
<1>3. IInv /\ Ledger => LedgerMatchesMappings
  <2> SUFFICES ASSUME IInv, Ledger, at = "idle", \A b \in Buf : rel[b] = "none"
               PROVE  live = MapThenSumSet(LAMBDA b : Pages[b], mapped)
    BY DEF LedgerMatchesMappings
  <2>1. Counted = mapped
    BY DEF Counted, Uncounted, IInv, TypeOK
  <2>2. MapThenSumSet(LAMBDA b : Pages[b], mapped) = SumOver(Pages, mapped)
    BY SumIsFold
  <2> QED BY <2>1, <2>2 DEF Ledger
<1>4. QED BY <1>1, <1>2, <1>3, Invariance, PTL DEF Spec

-----------------------------------------------------------------------------
(***************************************************************************)
(* Weight staging                                                          *)
(***************************************************************************)
HIDE PagesAssumption
USE StagingAssumption

\* The operation is a copy into block b.
CopiesInto(op, b) == op.op = "copy" /\ op.src = b

\* The operation at position i of a queue finds the present bytes of w in
\* block b, which holds `bytes' now.
Finds(q, bytes, i, b, w, v) ==
    \/ \E j \in 1..(i - 1) :
        /\ q[j] = Copy(w, b)
        /\ \A k \in (j + 1)..(i - 1) : ~CopiesInto(q[k], b)
    \/ /\ bytes = <<w, v>>
       /\ \A k \in 1..(i - 1) : ~CopiesInto(q[k], b)

StagingTypes ==
    /\ queue \in [Stream -> Seq(Op)]
    /\ capturing = {} \/ \E s \in Stream : capturing = {s}
    /\ graph \in Seq(Op)
    /\ blocks \in Seq(Block)
    /\ content \in Seq((Weight \X Nat) \union {<<>>})
    /\ Len(content) = Len(blocks)
    /\ frame \in [s : Stream, w : Weight, b : Nat \ {0}] \union {<<>>}
    /\ version \in 0..MaxVersion
    /\ reported \in BOOLEAN /\ fallbackReported \in BOOLEAN

LocalOp(op, s, bl) ==
    /\ op.op = "copy" => op.src # Own
    /\ op.src # Own => op.src \in 1..Len(bl) /\ bl[op.src].stream = s

GemmFinds(q, i, c, v) ==
    q[i].op = "gemm" /\ q[i].src # Own =>
        Finds(q, c[q[i].src], i, q[i].src, q[i].w, v)

\* The operations of a queue stay on their stream's blocks, and every staged
\* GEMM will find its weight.
QueueFinds(q, s, bl, c, v) ==
    \A i \in 1..Len(q) : LocalOp(q[i], s, bl) /\ GemmFinds(q, i, c, v)

QueuesFind ==
    \A s \in Stream : QueueFinds(queue[s], s, blocks, content, version)

BusyIsFrame ==
    \A b \in 1..Len(blocks) :
        blocks[b].busy <=> (frame # <<>> /\ frame.b = b)

FrameFinds ==
    frame # <<>> =>
        /\ frame.b \in 1..Len(blocks)
        /\ blocks[frame.b].stream = frame.s
        /\ frame.s \notin capturing
        /\ Finds(queue[frame.s], content[frame.b], Len(queue[frame.s]) + 1,
                 frame.b, frame.w, version)

StagingInv ==
    /\ StagingTypes
    /\ QueuesFind
    /\ BusyIsFrame
    /\ FrameFinds
    /\ GraphKeepsOwnStorage
    /\ OneTemporaryPerSize

\* A call in progress is told from none.
LEMMA FrameNotEmpty ==
  ASSUME NEW s, NEW w, NEW b
  PROVE  [s |-> s, w |-> w, b |-> b] # <<>>
OBVIOUS

\* What the two operations on a stream hold.
LEMMA CopyGemmTypes ==
  ASSUME NEW w \in Weight, NEW b \in Nat
  PROVE  /\ Copy(w, b) \in Op /\ Gemm(w, b) \in Op
         /\ Copy(w, b).op = "copy" /\ Copy(w, b).w = w /\ Copy(w, b).src = b
         /\ Gemm(w, b).op = "gemm" /\ Gemm(w, b).w = w /\ Gemm(w, b).src = b
BY DEF Copy, Gemm, Op

\* Work that is issued comes behind the work that is queued.
LEMMA Appended ==
  ASSUME NEW q \in Seq(Op), NEW ops \in Seq(Op)
  PROVE  /\ q \o ops \in Seq(Op)
         /\ Len(q \o ops) = Len(q) + Len(ops)
         /\ \A i \in 1..Len(q) : (q \o ops)[i] = q[i]
         /\ \A i \in (Len(q) + 1)..Len(q \o ops) : (q \o ops)[i] = ops[i - Len(q)]
OBVIOUS

\* What is issued later is found by nothing issued before.
LEMMA FindsAppended ==
  ASSUME NEW q \in Seq(Op), NEW ops \in Seq(Op), NEW i \in 1..(Len(q) + 1),
         NEW bytes, NEW b, NEW w, NEW v, Finds(q, bytes, i, b, w, v)
  PROVE  Finds(q \o ops, bytes, i, b, w, v)
<1> DEFINE r == q \o ops
<1>1. \A k \in 1..(i - 1) : r[k] = q[k]
  BY Appended
<1> HIDE DEF r
<1>2. ASSUME NEW j \in 1..(i - 1), q[j] = Copy(w, b),
             \A k \in (j + 1)..(i - 1) : ~CopiesInto(q[k], b)
      PROVE  Finds(r, bytes, i, b, w, v)
  <2>1. r[j] = Copy(w, b)
    BY <1>1, <1>2
  <2>2. \A k \in (j + 1)..(i - 1) : r[k] = q[k]
    BY <1>1
  <2>3. \A k \in (j + 1)..(i - 1) : ~CopiesInto(r[k], b)
    BY <2>2, <1>2
  <2> QED BY <2>1, <2>3 DEF Finds
<1>3. ASSUME bytes = <<w, v>>, \A k \in 1..(i - 1) : ~CopiesInto(q[k], b)
      PROVE  Finds(r, bytes, i, b, w, v)
  <2>1. \A k \in 1..(i - 1) : ~CopiesInto(r[k], b)
    BY <1>1, <1>3
  <2> QED BY <2>1, <1>3 DEF Finds
<1> QED
  BY <1>2, <1>3 DEF Finds, r

\* A copy that was issued last is what a following read finds.
LEMMA FindsCopied ==
  ASSUME NEW q \in Seq(Op), NEW bytes, NEW b \in Nat, NEW w \in Weight, NEW v
  PROVE  Finds(q \o <<Copy(w, b)>>, bytes, Len(q \o <<Copy(w, b)>>) + 1, b, w, v)
<1> DEFINE c == Copy(w, b)
<1>1. c \in Op
  BY CopyGemmTypes
<1> HIDE DEF c
<1> DEFINE r == q \o <<c>>
           n == Len(q) + 1
<1>2. Len(r) = n /\ r[n] = c /\ n \in Nat
  BY <1>1
<1> HIDE DEF r, n
<1>3. n \in 1..((n + 1) - 1) /\ r[n] = Copy(w, b)
  <2>1. n \in Nat /\ n >= 1
    BY DEF n
  <2> QED BY <1>2, <2>1 DEF c
<1>4. \A k \in (n + 1)..((n + 1) - 1) : ~CopiesInto(r[k], b)
  BY <1>2
<1>5. Finds(r, bytes, n + 1, b, w, v)
  BY <1>3, <1>4 DEF Finds
<1> QED
  BY <1>2, <1>5 DEF r, c

\* Running the head of a queue leaves every later operation what it would
\* have found.
LEMMA FindsAfterHead ==
  ASSUME NEW q \in Seq(Op), q # <<>>, NEW i \in 1..Len(q),
         NEW bytes, NEW b, NEW w, NEW v, Finds(q, bytes, i + 1, b, w, v)
  PROVE  Finds(Tail(q), IF CopiesInto(Head(q), b) THEN <<Head(q).w, v>>
                        ELSE bytes, i, b, w, v)
<1>1. \A k \in 1..(i - 1) : Tail(q)[k] = q[k + 1]
  OBVIOUS
<1>2. Head(q) = q[1]
  OBVIOUS
<1>3. ASSUME NEW j \in 1..i, q[j] = Copy(w, b),
             \A k \in (j + 1)..i : ~CopiesInto(q[k], b)
      PROVE  Finds(Tail(q), IF CopiesInto(Head(q), b) THEN <<Head(q).w, v>>
                            ELSE bytes, i, b, w, v)
  <2>1. CASE j = 1
    <3>1. CopiesInto(Head(q), b) /\ Head(q).w = w
      BY <1>2, <1>3, <2>1 DEF Copy, CopiesInto
    <3>2. \A k \in 1..(i - 1) : ~CopiesInto(Tail(q)[k], b)
      <4>1. \A k \in 1..(i - 1) : k + 1 \in (j + 1)..i
        BY <2>1
      <4> QED BY <1>1, <1>3, <4>1
    <3> QED BY <3>1, <3>2 DEF Finds
  <2>2. CASE j # 1
    <3>1. j - 1 \in 1..(i - 1) /\ Tail(q)[j - 1] = Copy(w, b)
      BY <1>1, <1>3, <2>2
    <3>2. \A k \in ((j - 1) + 1)..(i - 1) : ~CopiesInto(Tail(q)[k], b)
      <4>1. \A k \in ((j - 1) + 1)..(i - 1) : k \in 1..(i - 1) /\ k + 1 \in (j + 1)..i
        OBVIOUS
      <4> QED BY <1>1, <1>3, <4>1
    <3> QED BY <3>1, <3>2 DEF Finds
  <2> QED BY <2>1, <2>2
<1>4. ASSUME bytes = <<w, v>>, \A k \in 1..i : ~CopiesInto(q[k], b)
      PROVE  Finds(Tail(q), IF CopiesInto(Head(q), b) THEN <<Head(q).w, v>>
                            ELSE bytes, i, b, w, v)
  <2>1. ~CopiesInto(Head(q), b)
    BY <1>2, <1>4
  <2>2. \A k \in 1..(i - 1) : ~CopiesInto(Tail(q)[k], b)
    BY <1>1, <1>4
  <2> QED
    BY <2>1, <2>2, <1>4 DEF Finds
<1>5. \/ \E j \in 1..i : /\ q[j] = Copy(w, b)
                         /\ \A k \in (j + 1)..i : ~CopiesInto(q[k], b)
      \/ bytes = <<w, v>> /\ \A k \in 1..i : ~CopiesInto(q[k], b)
  <2>1. (i + 1) - 1 = i
    OBVIOUS
  <2> QED BY <2>1 DEF Finds
<1> QED
  BY <1>3, <1>4, <1>5

\* Nothing before the first operation: it finds what the block holds.
LEMMA FindsFirst ==
  ASSUME NEW q, NEW bytes, NEW b, NEW w, NEW v, Finds(q, bytes, 1, b, w, v)
  PROVE  bytes = <<w, v>>
BY DEF Finds

\* Before the first call the invariant holds.
LEMMA StagingInitEstablishes == StagingInit => StagingInv
<1> SUFFICES ASSUME StagingInit PROVE StagingInv
  OBVIOUS
<1>1. StagingTypes
  <2>1. queue \in [Stream -> Seq(Op)]
    BY DEF StagingInit
  <2>2. graph \in Seq(Op) /\ blocks \in Seq(Block)
    BY DEF StagingInit
  <2>3. content \in Seq((Weight \X Nat) \union {<<>>}) /\ Len(content) = Len(blocks)
    BY DEF StagingInit
  <2>4. version \in 0..MaxVersion
    BY DEF StagingInit
  <2>5. reported \in BOOLEAN /\ fallbackReported \in BOOLEAN
    BY DEF StagingInit
  <2> QED
    BY <2>1, <2>2, <2>3, <2>4, <2>5 DEF StagingInit, StagingTypes
<1>2. QueuesFind
  BY DEF StagingInit, QueuesFind, QueueFinds
<1>3. BusyIsFrame /\ FrameFinds
  BY DEF StagingInit, BusyIsFrame, FrameFinds
<1>4. GraphKeepsOwnStorage /\ OneTemporaryPerSize
  BY DEF StagingInit, GraphKeepsOwnStorage, OneTemporaryPerSize
<1> QED
  BY <1>1, <1>2, <1>3, <1>4 DEF StagingInv

\* A queue that another stream's work does not touch.
LEMMA QueueKept ==
  ASSUME NEW q \in Seq(Op), NEW s, NEW bl, NEW c, NEW v,
         QueueFinds(q, s, bl, c, v), NEW bl2, NEW c2,
         Len(bl) \in Nat, Len(bl2) \in Nat, Len(bl) <= Len(bl2),
         \A b \in 1..Len(bl) : bl2[b].stream = bl[b].stream,
         \A b \in 1..Len(bl) : bl[b].stream = s => c2[b] = c[b]
  PROVE  QueueFinds(q, s, bl2, c2, v)
<1> SUFFICES ASSUME NEW i \in 1..Len(q)
             PROVE  LocalOp(q[i], s, bl2) /\ GemmFinds(q, i, c2, v)
  BY DEF QueueFinds
<1>1. LocalOp(q[i], s, bl) /\ GemmFinds(q, i, c, v)
  BY DEF QueueFinds
<1>2. LocalOp(q[i], s, bl2)
  BY <1>1 DEF LocalOp
<1>3. GemmFinds(q, i, c2, v)
  <2>1. q[i].src # Own => c2[q[i].src] = c[q[i].src]
    BY <1>1 DEF LocalOp
  <2> QED BY <1>1, <2>1 DEF GemmFinds
<1> QED BY <1>2, <1>3

\* What is issued keeps the queue right if it is right itself.
LEMMA QueueGrown ==
  ASSUME NEW q \in Seq(Op), NEW s, NEW bl, NEW c, NEW v,
         QueueFinds(q, s, bl, c, v), NEW op \in Op,
         LocalOp(op, s, bl),
         op.op = "gemm" /\ op.src # Own =>
            Finds(q, c[op.src], Len(q) + 1, op.src, op.w, v)
  PROVE  QueueFinds(q \o <<op>>, s, bl, c, v)
<1> DEFINE r == q \o <<op>>
<1>1. <<op>> \in Seq(Op)
  OBVIOUS
<1>2. /\ r \in Seq(Op) /\ Len(r) = Len(q) + 1
      /\ \A i \in 1..Len(q) : r[i] = q[i]
      /\ r[Len(q) + 1] = op
  OBVIOUS
<1>3. \A i \in 1..(Len(q) + 1) : \A bytes, b, w :
        Finds(q, bytes, i, b, w, v) => Finds(r, bytes, i, b, w, v)
  BY <1>1, FindsAppended
<1> HIDE DEF r
<1>4. ASSUME NEW i \in 1..Len(q)
      PROVE  LocalOp(r[i], s, bl) /\ GemmFinds(r, i, c, v)
  <2>1. LocalOp(q[i], s, bl) /\ GemmFinds(q, i, c, v) /\ r[i] = q[i]
    BY <1>2 DEF QueueFinds
  <2>2. LocalOp(r[i], s, bl)
    BY <2>1
  <2>3. GemmFinds(r, i, c, v)
    BY <2>1, <1>3 DEF GemmFinds
  <2> QED BY <2>2, <2>3
<1>5. LocalOp(r[Len(q) + 1], s, bl) /\ GemmFinds(r, Len(q) + 1, c, v)
  <2>1. LocalOp(r[Len(q) + 1], s, bl)
    BY <1>2
  <2>2. GemmFinds(r, Len(q) + 1, c, v)
    BY <1>2, <1>3 DEF GemmFinds
  <2> QED BY <2>1, <2>2
<1> QED
  BY <1>2, <1>4, <1>5 DEF QueueFinds, r

\* Replaying a graph issues GEMMs on the weights' own storage.
LEMMA QueueReplayed ==
  ASSUME NEW q \in Seq(Op), NEW s, NEW bl, NEW c, NEW v,
         QueueFinds(q, s, bl, c, v), NEW ops \in Seq(Op),
         \A i \in 1..Len(ops) : ops[i].op = "gemm" /\ ops[i].src = Own
  PROVE  QueueFinds(q \o ops, s, bl, c, v)
<1> DEFINE r == q \o ops
<1>2. /\ r \in Seq(Op) /\ Len(r) = Len(q) + Len(ops)
      /\ \A i \in 1..Len(q) : r[i] = q[i]
      /\ \A i \in (Len(q) + 1)..Len(r) : r[i] = ops[i - Len(q)]
  BY Appended
<1>3. \A i \in 1..(Len(q) + 1) : \A bytes, b, w :
        Finds(q, bytes, i, b, w, v) => Finds(r, bytes, i, b, w, v)
  BY FindsAppended
<1> HIDE DEF r
<1>4. ASSUME NEW i \in 1..Len(q)
      PROVE  LocalOp(r[i], s, bl) /\ GemmFinds(r, i, c, v)
  <2>1. LocalOp(q[i], s, bl) /\ GemmFinds(q, i, c, v) /\ r[i] = q[i]
    BY <1>2 DEF QueueFinds
  <2>2. LocalOp(r[i], s, bl)
    BY <2>1
  <2>3. GemmFinds(r, i, c, v)
    BY <2>1, <1>3 DEF GemmFinds
  <2> QED BY <2>2, <2>3
<1>5. ASSUME NEW i \in (Len(q) + 1)..Len(r)
      PROVE  LocalOp(r[i], s, bl) /\ GemmFinds(r, i, c, v)
  <2>1. r[i].op = "gemm" /\ r[i].src = Own
    BY <1>2
  <2> QED BY <2>1 DEF LocalOp, GemmFinds
<1> QED
  BY <1>2, <1>4, <1>5 DEF QueueFinds, r

\* Running the head of a queue.
LEMMA QueueRun ==
  ASSUME NEW q \in Seq(Op), q # <<>>, NEW s, NEW bl, NEW c, NEW v, NEW c2,
         QueueFinds(q, s, bl, c, v),
         \A b \in 1..Len(bl) :
            c2[b] = IF CopiesInto(Head(q), b) THEN <<Head(q).w, v>> ELSE c[b]
  PROVE  QueueFinds(Tail(q), s, bl, c2, v)
<1>1. /\ Tail(q) \in Seq(Op) /\ Len(Tail(q)) = Len(q) - 1
      /\ \A i \in 1..Len(Tail(q)) : Tail(q)[i] = q[i + 1] /\ i + 1 \in 1..Len(q)
  OBVIOUS
<1> SUFFICES ASSUME NEW i \in 1..Len(Tail(q))
             PROVE  LocalOp(Tail(q)[i], s, bl) /\ GemmFinds(Tail(q), i, c2, v)
  BY DEF QueueFinds
<1> DEFINE op == q[i + 1]
<1>2. LocalOp(op, s, bl) /\ GemmFinds(q, i + 1, c, v)
  BY <1>1 DEF QueueFinds
<1>3. GemmFinds(Tail(q), i, c2, v)
  <2> SUFFICES ASSUME op.op = "gemm", op.src # Own
               PROVE  Finds(Tail(q), c2[op.src], i, op.src, op.w, v)
    BY <1>1 DEF GemmFinds
  <2>1. Finds(q, c[op.src], i + 1, op.src, op.w, v)
    BY <1>2 DEF GemmFinds
  <2>2. i \in 1..Len(q)
    BY <1>1
  <2>3. op.src \in 1..Len(bl)
    BY <1>2 DEF LocalOp
  <2>4. c2[op.src] = IF CopiesInto(Head(q), op.src) THEN <<Head(q).w, v>>
                     ELSE c[op.src]
    BY <2>3
  <2> HIDE DEF op
  <2> QED BY <2>1, <2>2, <2>4, FindsAfterHead
<1> QED BY <1>1, <1>2, <1>3

\* One operation is a sequence of them.
LEMMA OneOp ==
  ASSUME NEW op \in Op
  PROVE  <<op>> \in Seq(Op)
OBVIOUS

\* Marking a block changes no other block.
LEMMA BusyChanged ==
  ASSUME NEW bl \in Seq(Block), NEW b \in 1..Len(bl), NEW x \in BOOLEAN
  PROVE  /\ [bl EXCEPT ![b].busy = x] \in Seq(Block)
         /\ Len([bl EXCEPT ![b].busy = x]) = Len(bl)
         /\ \A i \in 1..Len(bl) :
              /\ [bl EXCEPT ![b].busy = x][i].stream = bl[i].stream
              /\ [bl EXCEPT ![b].busy = x][i].size = bl[i].size
              /\ [bl EXCEPT ![b].busy = x][i].busy =
                    IF i = b THEN x ELSE bl[i].busy
<1> DEFINE r == [bl[b] EXCEPT !.busy = x]
<1>1. bl[b] \in Block
  OBVIOUS
<1>2. r \in Block /\ r.stream = bl[b].stream /\ r.size = bl[b].size /\ r.busy = x
  BY <1>1 DEF Block
<1>3. [bl EXCEPT ![b].busy = x] = [bl EXCEPT ![b] = r]
  OBVIOUS
<1> HIDE DEF r
<1> DEFINE bl2 == [bl EXCEPT ![b] = r]
<1>4. bl2 \in Seq(Block) /\ Len(bl2) = Len(bl)
  BY <1>2
<1>5. \A i \in 1..Len(bl) : bl2[i] = IF i = b THEN r ELSE bl[i]
  OBVIOUS
<1> HIDE DEF bl2
<1>6. \A i \in 1..Len(bl) :
        /\ bl2[i].stream = bl[i].stream
        /\ bl2[i].size = bl[i].size
  BY <1>2, <1>5
<1>7. \A i \in 1..Len(bl) : bl2[i].busy = IF i = b THEN x ELSE bl[i].busy
  BY <1>2, <1>5
<1> QED
  BY <1>3, <1>4, <1>6, <1>7 DEF bl2

\* A block that is taken is busy.
LEMMA BusyTaken ==
  ASSUME NEW bl \in Seq(Block), NEW b \in 1..Len(bl)
  PROVE  \A i \in 1..Len(bl) :
            [bl EXCEPT ![b].busy = TRUE][i].busy <=> (i = b \/ bl[i].busy)
<1> SUFFICES ASSUME NEW i \in 1..Len(bl)
             PROVE  [bl EXCEPT ![b].busy = TRUE][i].busy <=> (i = b \/ bl[i].busy)
  OBVIOUS
<1>1. CASE i = b
  BY <1>1, BusyChanged
<1>2. CASE i # b
  <2>1. [bl EXCEPT ![b].busy = TRUE][i] = bl[i]
    BY <1>2
  <2> QED BY <1>2, <2>1
<1> QED BY <1>1, <1>2

\* A block that is given back is not.
LEMMA BusyGiven ==
  ASSUME NEW bl \in Seq(Block), NEW b \in 1..Len(bl)
  PROVE  \A i \in 1..Len(bl) :
            [bl EXCEPT ![b].busy = FALSE][i].busy <=> (i # b /\ bl[i].busy)
<1> SUFFICES ASSUME NEW i \in 1..Len(bl)
             PROVE  [bl EXCEPT ![b].busy = FALSE][i].busy <=> (i # b /\ bl[i].busy)
  OBVIOUS
<1>1. CASE i = b
  BY <1>1, BusyChanged
<1>2. CASE i # b
  <2>1. [bl EXCEPT ![b].busy = FALSE][i] = bl[i]
    BY <1>2
  <2> QED BY <1>2, <2>1
<1> QED BY <1>1, <1>2

\* Writing a block changes no other block's presence.
LEMMA ContentChanged ==
  ASSUME NEW B, NEW c \in Seq(B), NEW b, NEW x \in B
  PROVE  /\ [c EXCEPT ![b] = x] \in Seq(B)
         /\ Len([c EXCEPT ![b] = x]) = Len(c)
<1>1. CASE b \in 1..Len(c)
  BY <1>1
<1>2. CASE b \notin 1..Len(c)
  <2>1. [c EXCEPT ![b] = x] = c
    BY <1>2
  <2> QED BY <2>1
<1> QED BY <1>1, <1>2

\* Every step keeps the types.
LEMMA StagingTypesKept ==
  ASSUME StagingTypes, FrameFinds, [StagingNext]_stagingVars
  PROVE  StagingTypes'
<1> USE DEF StagingTypes
<1>1. ASSUME NEW s \in Stream, NEW ops \in Seq(Op), Issue(s, ops)
      PROVE  queue' \in [Stream -> Seq(Op)] /\ graph' \in Seq(Op)
  <2>1. queue[s] \o ops \in Seq(Op) /\ graph \o ops \in Seq(Op)
    BY Appended
  <2>2. CASE s \in capturing
    BY <1>1, <2>1, <2>2 DEF Issue
  <2>3. CASE s \notin capturing
    BY <1>1, <2>1, <2>3 DEF Issue
  <2> QED BY <2>2, <2>3
<1>2. \A op \in Op : <<op>> \in Seq(Op)
  BY OneOp
<1>3. ASSUME NEW s \in Stream, NEW w \in Weight, NEW tokens \in Tokens,
             DirectCall(s, w, tokens) \/ CloneFails(s, w, tokens)
      PROVE  StagingTypes'
  <2>1. Issue(s, <<Gemm(w, Own)>>)
    BY <1>3 DEF DirectCall, CloneFails
  <2>2. <<Gemm(w, Own)>> \in Seq(Op)
    BY <1>2, CopyGemmTypes DEF Own
  <2>3. queue' \in [Stream -> Seq(Op)] /\ graph' \in Seq(Op)
    BY <1>1, <2>1, <2>2
  <2> QED BY <1>3, <2>3 DEF DirectCall, CloneFails
<1>4. ASSUME NEW s \in Stream, NEW w \in Weight, NEW tokens \in Tokens,
             NEW b \in 1..Len(blocks), CloneReusing(s, w, tokens, b)
      PROVE  StagingTypes'
  <2>1. <<Copy(w, b)>> \in Seq(Op)
    BY <1>2, CopyGemmTypes
  <2>2. queue' \in [Stream -> Seq(Op)] /\ graph' \in Seq(Op)
    BY <1>1, <1>4, <2>1 DEF CloneReusing
  <2>3. blocks' \in Seq(Block) /\ Len(blocks') = Len(blocks)
    BY <1>4, BusyChanged DEF CloneReusing
  <2>4. frame' \in [s : Stream, w : Weight, b : Nat \ {0}]
    BY <1>4 DEF CloneReusing
  <2> QED BY <1>4, <2>2, <2>3, <2>4 DEF CloneReusing
<1>5. ASSUME NEW s \in Stream, NEW w \in Weight, NEW tokens \in Tokens,
             CloneFresh(s, w, tokens)
      PROVE  StagingTypes'
  <2> DEFINE b == Len(blocks) + 1
  <2>0. b \in Nat
    OBVIOUS
  <2>1. <<Copy(w, b)>> \in Seq(Op)
    BY <1>2, <2>0, CopyGemmTypes
  <2>2. queue' \in [Stream -> Seq(Op)] /\ graph' \in Seq(Op)
    BY <1>1, <1>5, <2>1 DEF CloneFresh
  <2>3. blocks' \in Seq(Block) /\ Len(blocks') = Len(blocks) + 1
    <3>1. [stream |-> s, size |-> Size[w], busy |-> TRUE] \in Block
      BY StagingAssumption DEF Block
    <3> QED BY <1>5, <3>1 DEF CloneFresh
  <2>4. /\ content' \in Seq((Weight \X Nat) \union {<<>>})
        /\ Len(content') = Len(content) + 1
    BY <1>5 DEF CloneFresh
  <2>5. frame' \in [s : Stream, w : Weight, b : Nat \ {0}]
    BY <1>5 DEF CloneFresh
  <2> QED BY <1>5, <2>2, <2>3, <2>4, <2>5 DEF CloneFresh
<1>6. CASE StagedGemm
  <2>0. frame.b \in 1..Len(blocks)
    BY <1>6 DEF StagedGemm, HostFree, FrameFinds
  <2>1. frame \in [s : Stream, w : Weight, b : Nat \ {0}]
    BY <1>6 DEF StagedGemm, HostFree
  <2>2. frame.s \in Stream /\ <<Gemm(frame.w, frame.b)>> \in Seq(Op)
    BY <2>1, <1>2, CopyGemmTypes
  <2>3. queue' \in [Stream -> Seq(Op)] /\ graph' \in Seq(Op)
    BY <1>1, <1>6, <2>2 DEF StagedGemm
  <2>4. blocks' \in Seq(Block) /\ Len(blocks') = Len(blocks)
    BY <1>6, <2>0, BusyChanged DEF StagedGemm
  <2> QED BY <1>6, <2>3, <2>4 DEF StagedGemm
<1>7. ASSUME NEW s \in Stream, BeginCapture(s) PROVE StagingTypes'
  BY <1>7 DEF BeginCapture
<1>8. CASE EndCapture
  BY <1>8 DEF EndCapture
<1>9. ASSUME NEW s \in Stream, Replay(s) PROVE StagingTypes'
  BY <1>1, <1>9 DEF Replay
<1>10. CASE RewriteWeights
  BY <1>10, StagingAssumption DEF RewriteWeights
<1>11. ASSUME NEW s \in Stream, RunCopy(s) PROVE StagingTypes'
  <2>1. queue' \in [Stream -> Seq(Op)]
    BY <1>11 DEF RunCopy
  <2>2. Head(queue[s]) \in Op
    BY <1>11 DEF RunCopy
  <2>3. <<Head(queue[s]).w, version>> \in Weight \X Nat
    BY <2>2, StagingAssumption DEF Op
  <2>4. /\ content' \in Seq((Weight \X Nat) \union {<<>>})
        /\ Len(content') = Len(content)
    <3> DEFINE Bytes == (Weight \X Nat) \union {<<>>}
               bytes == <<Head(queue[s]).w, version>>
               b == Head(queue[s]).src
    <3>1. bytes \in Bytes
      BY <2>3
    <3>2. content' = [content EXCEPT ![b] = bytes]
      BY <1>11 DEF RunCopy
    <3>3. content \in Seq(Bytes)
      OBVIOUS
    <3> HIDE DEF Bytes, bytes, b, StagingTypes
    <3>4. /\ [content EXCEPT ![b] = bytes] \in Seq(Bytes)
          /\ Len([content EXCEPT ![b] = bytes]) = Len(content)
      BY <3>1, <3>3, ContentChanged
    <3> QED BY <3>2, <3>4 DEF Bytes
  <2> QED BY <1>11, <2>1, <2>4 DEF RunCopy
<1>12. ASSUME NEW s \in Stream, RunGemm(s) PROVE StagingTypes'
  BY <1>12 DEF RunGemm
<1>13. CASE UNCHANGED stagingVars
  BY <1>13 DEF stagingVars
<1> QED
  BY <1>3, <1>4, <1>5, <1>6, <1>7, <1>8, <1>9, <1>10, <1>11, <1>12, <1>13
  DEF StagingNext, Call

\* No temporary is in use while the host is in no call.
LEMMA NoneBusy ==
  ASSUME BusyIsFrame, HostFree
  PROVE  \A b \in 1..Len(blocks) : ~blocks[b].busy
BY DEF BusyIsFrame, HostFree

\* Every step keeps what the queued GEMMs will find.
LEMMA QueuesFindKept ==
  ASSUME StagingInv, StagingTypes', [StagingNext]_stagingVars
  PROVE  QueuesFind'
<1> USE DEF StagingInv
<1>types. /\ \A s \in Stream : queue[s] \in Seq(Op)
          /\ graph \in Seq(Op)
          /\ Len(blocks) \in Nat
  BY DEF StagingTypes
<1>0. \A s \in Stream : QueueFinds(queue[s], s, blocks, content, version)
  BY DEF QueuesFind
<1> SUFFICES ASSUME NEW t \in Stream
             PROVE  QueueFinds(queue'[t], t, blocks', content', version')
  BY DEF QueuesFind
\* An issue to stream s of one operation that is right.
<1>1. ASSUME NEW s \in Stream, NEW op \in Op, Issue(s, <<op>>),
             NEW bl, NEW c,
             QueueFinds(queue[s], s, bl, c, version),
             QueueFinds(queue[t], t, bl, c, version),
             s \notin capturing => LocalOp(op, s, bl),
             s \notin capturing /\ op.op = "gemm" /\ op.src # Own =>
                Finds(queue[s], c[op.src], Len(queue[s]) + 1, op.src, op.w,
                      version)
      PROVE  QueueFinds(queue'[t], t, bl, c, version)
  <2>1. CASE s \in capturing \/ t # s
    <3>1. queue'[t] = queue[t]
      BY <1>1, <2>1 DEF Issue, StagingTypes
    <3> QED BY <3>1, <1>1
  <2>2. CASE s \notin capturing /\ t = s
    <3>1. queue'[t] = queue[s] \o <<op>>
      BY <1>1, <2>2 DEF Issue, StagingTypes
    <3>2. QueueFinds(queue[s] \o <<op>>, s, bl, c, version)
      BY <1>1, <2>2, <1>types, QueueGrown
    <3> QED BY <3>1, <3>2, <2>2
  <2> QED BY <2>1, <2>2
<1>2. ASSUME NEW s \in Stream, NEW w \in Weight, NEW tokens \in Tokens,
             DirectCall(s, w, tokens) \/ CloneFails(s, w, tokens)
      PROVE  QueueFinds(queue'[t], t, blocks', content', version')
  <2>1. UNCHANGED <<blocks, content, version>> /\ Issue(s, <<Gemm(w, Own)>>)
    BY <1>2 DEF DirectCall, CloneFails
  <2> DEFINE op == Gemm(w, Own)
  <2>2. op \in Op /\ op.op = "gemm" /\ op.src = Own
    BY CopyGemmTypes DEF Own
  <2> HIDE DEF op
  <2>3. LocalOp(op, s, blocks)
    BY <2>2 DEF LocalOp
  <2>4. QueueFinds(queue'[t], t, blocks, content, version)
    BY <1>0, <1>1, <2>1, <2>2, <2>3 DEF op
  <2> QED BY <2>1, <2>4
<1>3. ASSUME NEW s \in Stream, NEW w \in Weight, NEW tokens \in Tokens,
             NEW b \in 1..Len(blocks), CloneReusing(s, w, tokens, b)
      PROVE  QueueFinds(queue'[t], t, blocks', content', version')
  <2>1. UNCHANGED <<content, version>> /\ Issue(s, <<Copy(w, b)>>)
    BY <1>3 DEF CloneReusing
  <2>2. /\ Len(blocks') = Len(blocks)
        /\ \A i \in 1..Len(blocks) : blocks'[i].stream = blocks[i].stream
    BY <1>3, BusyChanged DEF CloneReusing, StagingTypes
  <2>3. blocks[b].stream = s /\ b # Own
    BY <1>3 DEF CloneReusing, Reusable, Own
  <2> DEFINE op == Copy(w, b)
  <2>4. op \in Op /\ op.op = "copy" /\ op.src = b
    BY CopyGemmTypes
  <2> HIDE DEF op
  <2>5. LocalOp(op, s, blocks')
    BY <2>2, <2>3, <2>4 DEF LocalOp
  <2>6. \A r \in Stream : QueueFinds(queue[r], r, blocks', content, version)
    BY <1>0, <1>types, <2>2, QueueKept
  <2>7. QueueFinds(queue'[t], t, blocks', content, version)
    BY <1>1, <2>1, <2>4, <2>5, <2>6 DEF op
  <2> QED BY <2>1, <2>7
<1>4. ASSUME NEW s \in Stream, NEW w \in Weight, NEW tokens \in Tokens,
             CloneFresh(s, w, tokens)
      PROVE  QueueFinds(queue'[t], t, blocks', content', version')
  <2> DEFINE b == Len(blocks) + 1
             op == Copy(w, b)
  <2>0. b \in Nat /\ b # Own
    BY <1>types DEF Own
  <2>1. version' = version /\ Issue(s, <<op>>)
    BY <1>4 DEF CloneFresh
  <2>2. /\ Len(blocks') = Len(blocks) + 1
        /\ \A i \in 1..Len(blocks) : blocks'[i] = blocks[i]
        /\ blocks'[b].stream = s
    BY <1>4 DEF CloneFresh, StagingTypes
  <2>3. \A i \in 1..Len(blocks) : content'[i] = content[i]
    BY <1>4 DEF CloneFresh, StagingTypes
  <2>4. op \in Op /\ op.op = "copy" /\ op.src = b
    BY <2>0, CopyGemmTypes
  <2> HIDE DEF op
  <2>5. LocalOp(op, s, blocks')
    <3>1. b \in 1..Len(blocks')
      BY <2>0, <2>2, <1>types
    <3> HIDE DEF b
    <3> QED BY <2>0, <2>2, <2>4, <3>1 DEF LocalOp
  <2>6. \A r \in Stream : QueueFinds(queue[r], r, blocks', content', version)
    BY <1>0, <1>types, <2>2, <2>3, QueueKept
  <2>7. QueueFinds(queue'[t], t, blocks', content', version)
    BY <1>1, <2>1, <2>4, <2>5, <2>6
  <2> QED BY <2>1, <2>7
<1>5. CASE StagedGemm
  <2>1. frame # <<>> /\ frame \in [s : Stream, w : Weight, b : Nat \ {0}]
    BY <1>5 DEF StagedGemm, HostFree, StagingTypes
  <2> DEFINE op == Gemm(frame.w, frame.b)
  <2>2. UNCHANGED <<content, version>> /\ Issue(frame.s, <<op>>)
    BY <1>5 DEF StagedGemm
  <2>3. /\ frame.b \in 1..Len(blocks)
        /\ blocks[frame.b].stream = frame.s
        /\ Finds(queue[frame.s], content[frame.b], Len(queue[frame.s]) + 1,
                 frame.b, frame.w, version)
    BY <2>1 DEF FrameFinds
  <2>4. /\ Len(blocks') = Len(blocks)
        /\ \A i \in 1..Len(blocks) : blocks'[i].stream = blocks[i].stream
    BY <1>5, <2>3, BusyChanged DEF StagedGemm, StagingTypes
  <2>5. op \in Op /\ op.op = "gemm" /\ op.src = frame.b /\ op.w = frame.w
    BY <2>1, CopyGemmTypes
  <2> HIDE DEF op
  <2>6. LocalOp(op, frame.s, blocks')
    BY <2>3, <2>4, <2>5 DEF LocalOp
  <2>7. \A r \in Stream : QueueFinds(queue[r], r, blocks', content, version)
    BY <1>0, <1>types, <2>4, QueueKept
  <2>8. frame.s \in Stream
    BY <2>1
  <2>9. QueueFinds(queue'[t], t, blocks', content, version)
    BY <1>1, <2>2, <2>3, <2>5, <2>6, <2>7, <2>8
  <2> QED BY <2>2, <2>9
<1>6. ASSUME NEW s \in Stream, Replay(s)
      PROVE  QueueFinds(queue'[t], t, blocks', content', version')
  <2>1. /\ UNCHANGED <<blocks, content, version>>
        /\ queue' = [queue EXCEPT ![s] = @ \o graph]
    BY <1>6 DEF Replay, Issue
  <2>2. CASE t = s
    <3>1. queue'[t] = queue[t] \o graph
      BY <2>1, <2>2 DEF StagingTypes
    <3>2. QueueFinds(queue[t] \o graph, t, blocks, content, version)
      BY <1>0, <1>types, QueueReplayed DEF GraphKeepsOwnStorage
    <3> QED BY <2>1, <3>1, <3>2
  <2>3. CASE t # s
    <3>1. queue'[t] = queue[t]
      BY <2>1, <2>3 DEF StagingTypes
    <3> QED BY <2>1, <3>1, <1>0
  <2> QED BY <2>2, <2>3
<1>7. CASE RewriteWeights
  BY <1>7 DEF RewriteWeights, QueueFinds
<1>8. ASSUME NEW s \in Stream, RunCopy(s)
      PROVE  QueueFinds(queue'[t], t, blocks', content', version')
  <2> DEFINE op == Head(queue[s])
             bytes == <<op.w, version>>
  <2>1. /\ UNCHANGED <<blocks, version>>
        /\ content' = [content EXCEPT ![op.src] = bytes]
        /\ queue' = [queue EXCEPT ![s] = Tail(@)]
        /\ queue[s] # <<>> /\ op.op = "copy"
    BY <1>8 DEF RunCopy
  <2>2. op = queue[s][1] /\ 1 \in 1..Len(queue[s])
    BY <2>1, <1>types
  <2>3. LocalOp(op, s, blocks)
    BY <2>2, <1>0 DEF QueueFinds
  <2>4. op.src \in 1..Len(blocks) /\ blocks[op.src].stream = s
    BY <2>1, <2>3 DEF LocalOp
  <2> HIDE DEF op, bytes
  <2>5. \A b \in 1..Len(blocks) :
          content'[b] = IF b = op.src THEN bytes ELSE content[b]
    BY <2>1 DEF StagingTypes
  <2>6. CASE t = s
    <3>1. queue'[t] = Tail(queue[t])
      BY <2>1, <2>6 DEF StagingTypes
    <3>2. \A b \in 1..Len(blocks) :
            content'[b] = IF CopiesInto(Head(queue[t]), b)
                          THEN <<Head(queue[t]).w, version>> ELSE content[b]
      BY <2>1, <2>5, <2>6 DEF CopiesInto, op, bytes
    <3>3. QueueFinds(Tail(queue[t]), t, blocks, content', version)
      BY <1>0, <1>types, <2>1, <2>6, <3>2, QueueRun
    <3> QED BY <2>1, <3>1, <3>3
  <2>7. CASE t # s
    <3>1. queue'[t] = queue[t]
      BY <2>1, <2>7 DEF StagingTypes
    <3>2. \A b \in 1..Len(blocks) :
            blocks[b].stream = t => content'[b] = content[b]
      BY <2>4, <2>5, <2>7
    <3>3. QueueFinds(queue[t], t, blocks, content', version)
      BY <1>0, <1>types, <3>2, QueueKept
    <3> QED BY <2>1, <3>1, <3>3
  <2> QED BY <2>6, <2>7
<1>9. ASSUME NEW s \in Stream, RunGemm(s)
      PROVE  QueueFinds(queue'[t], t, blocks', content', version')
  <2>1. /\ UNCHANGED <<blocks, content, version>>
        /\ queue' = [queue EXCEPT ![s] = Tail(@)]
        /\ queue[s] # <<>> /\ Head(queue[s]).op # "copy"
    BY <1>9 DEF RunGemm
  <2>2. CASE t = s
    <3>1. queue'[t] = Tail(queue[t])
      BY <2>1, <2>2 DEF StagingTypes
    <3>2. \A b \in 1..Len(blocks) : ~CopiesInto(Head(queue[t]), b)
      BY <2>1, <2>2 DEF CopiesInto
    <3>3. QueueFinds(Tail(queue[t]), t, blocks, content, version)
      BY <1>0, <1>types, <2>1, <2>2, <3>2, QueueRun
    <3> QED BY <2>1, <3>1, <3>3
  <2>3. CASE t # s
    <3>1. queue'[t] = queue[t]
      BY <2>1, <2>3 DEF StagingTypes
    <3> QED BY <2>1, <3>1, <1>0
  <2> QED BY <2>2, <2>3
<1>10. ASSUME UNCHANGED <<queue, blocks, content, version>>
       PROVE  QueueFinds(queue'[t], t, blocks', content', version')
  BY <1>0, <1>10
<1> QED
  BY <1>2, <1>3, <1>4, <1>5, <1>6, <1>7, <1>8, <1>9, <1>10
  DEF StagingNext, Call, BeginCapture, EndCapture, stagingVars

\* Every step keeps the busy blocks those of the calls in progress.
LEMMA BusyIsFrameKept ==
  ASSUME StagingInv, StagingTypes', [StagingNext]_stagingVars
  PROVE  BusyIsFrame'
<1> USE DEF StagingInv
<1>1. ASSUME NEW s \in Stream, NEW w \in Weight, NEW tokens \in Tokens,
             NEW b \in 1..Len(blocks), CloneReusing(s, w, tokens, b)
      PROVE  BusyIsFrame'
  <2>1. frame' # <<>> /\ frame'.b = b
    BY <1>1, FrameNotEmpty DEF CloneReusing
  <2>2. \A i \in 1..Len(blocks) : ~blocks[i].busy
    BY <1>1, NoneBusy DEF CloneReusing, MayCall
  <2>3. /\ blocks' = [blocks EXCEPT ![b].busy = TRUE]
        /\ blocks \in Seq(Block)
    BY <1>1 DEF CloneReusing, StagingTypes
  <2>4. Len(blocks') = Len(blocks)
    BY <2>3, BusyChanged
  <2>5. \A i \in 1..Len(blocks) : blocks'[i].busy <=> (i = b \/ blocks[i].busy)
    BY <2>3, BusyTaken
  <2> QED BY <2>1, <2>2, <2>4, <2>5 DEF BusyIsFrame
<1>2. ASSUME NEW s \in Stream, NEW w \in Weight, NEW tokens \in Tokens,
             CloneFresh(s, w, tokens)
      PROVE  BusyIsFrame'
  <2> DEFINE b == Len(blocks) + 1
  <2>1. frame' # <<>> /\ frame'.b = b
    BY <1>2, FrameNotEmpty DEF CloneFresh
  <2>2. \A i \in 1..Len(blocks) : ~blocks[i].busy
    BY <1>2, NoneBusy DEF CloneFresh, MayCall
  <2>3. /\ Len(blocks') = Len(blocks) + 1
        /\ \A i \in 1..Len(blocks) : blocks'[i] = blocks[i]
        /\ blocks'[b].busy
    BY <1>2 DEF CloneFresh, StagingTypes
  <2>4. Len(blocks) \in Nat
    BY DEF StagingTypes
  <2> SUFFICES ASSUME NEW i \in 1..Len(blocks')
               PROVE  blocks'[i].busy <=> (frame' # <<>> /\ frame'.b = i)
    BY DEF BusyIsFrame
  <2>5. CASE i = b
    BY <2>1, <2>3, <2>5
  <2>6. CASE i # b
    BY <2>1, <2>2, <2>3, <2>4, <2>6
  <2> QED BY <2>5, <2>6
<1>3. CASE StagedGemm
  <2>1. frame' = <<>> /\ frame # <<>>
    BY <1>3 DEF StagedGemm, HostFree
  <2>2. frame.b \in 1..Len(blocks)
    BY <2>1 DEF FrameFinds
  <2>3. /\ blocks' = [blocks EXCEPT ![frame.b].busy = FALSE]
        /\ blocks \in Seq(Block)
    BY <1>3 DEF StagedGemm, StagingTypes
  <2>4. Len(blocks') = Len(blocks)
    BY <2>2, <2>3, BusyChanged
  <2>5. \A i \in 1..Len(blocks) :
          blocks'[i].busy <=> (i # frame.b /\ blocks[i].busy)
    BY <2>2, <2>3, BusyGiven
  <2> QED BY <2>1, <2>4, <2>5 DEF BusyIsFrame
<1>4. ASSUME UNCHANGED <<blocks, frame>>
      PROVE  BusyIsFrame'
  BY <1>4 DEF BusyIsFrame
<1> QED
  BY <1>1, <1>2, <1>3, <1>4
  DEF StagingNext, Call, DirectCall, CloneFails, BeginCapture, EndCapture,
      Replay, RewriteWeights, RunCopy, RunGemm, stagingVars

\* Every step keeps what the GEMM of a call in progress will find.
LEMMA FrameFindsKept ==
  ASSUME StagingInv, StagingTypes', [StagingNext]_stagingVars
  PROVE  FrameFinds'
<1> USE DEF StagingInv
<1>types. /\ \A s \in Stream : queue[s] \in Seq(Op)
          /\ Len(blocks) \in Nat
  BY DEF StagingTypes
<1>1. ASSUME NEW s \in Stream, NEW w \in Weight, NEW b \in Nat,
             s \notin capturing, Issue(s, <<Copy(w, b)>>),
             frame' = [s |-> s, w |-> w, b |-> b],
             b \in 1..Len(blocks'), blocks'[b].stream = s,
             UNCHANGED <<capturing, version>>
      PROVE  FrameFinds'
  <2>1. queue'[s] = queue[s] \o <<Copy(w, b)>>
    BY <1>1 DEF Issue, StagingTypes
  <2>2. Finds(queue'[s], content'[b], Len(queue'[s]) + 1, b, w, version')
    BY <2>1, <1>types, FindsCopied
  <2>3. frame'.s = s /\ frame'.b = b /\ frame'.w = w
    BY <1>1
  <2> QED BY <1>1, <2>2, <2>3 DEF FrameFinds
<1>2. ASSUME NEW s \in Stream, NEW w \in Weight, NEW tokens \in Tokens,
             NEW b \in 1..Len(blocks), CloneReusing(s, w, tokens, b)
      PROVE  FrameFinds'
  <2>1. b \in 1..Len(blocks') /\ blocks'[b].stream = s
    BY <1>2, BusyChanged DEF CloneReusing, Reusable, StagingTypes
  <2> QED BY <1>1, <1>2, <2>1 DEF CloneReusing, Stages
<1>3. ASSUME NEW s \in Stream, NEW w \in Weight, NEW tokens \in Tokens,
             CloneFresh(s, w, tokens)
      PROVE  FrameFinds'
  <2> DEFINE b == Len(blocks) + 1
  <2>1. b \in 1..Len(blocks') /\ blocks'[b].stream = s /\ b \in Nat
    BY <1>3, <1>types DEF CloneFresh, StagingTypes
  <2> QED BY <1>1, <1>3, <2>1 DEF CloneFresh, Stages
<1>4. ASSUME frame' = <<>>
      PROVE  FrameFinds'
  BY <1>4 DEF FrameFinds
<1>5. ASSUME HostFree, UNCHANGED frame
      PROVE  FrameFinds'
  BY <1>5 DEF FrameFinds, HostFree
<1>6. ASSUME NEW s \in Stream, RunCopy(s) \/ RunGemm(s)
      PROVE  FrameFinds'
  <2> SUFFICES ASSUME frame # <<>>
               PROVE  FrameFinds'
    BY <1>4, <1>6 DEF RunCopy, RunGemm
  <2> DEFINE t == frame.s
             b == frame.b
             w == frame.w
             op == Head(queue[s])
  <2>1. /\ UNCHANGED <<frame, blocks, version, capturing>>
        /\ queue' = [queue EXCEPT ![s] = Tail(@)]
        /\ queue[s] # <<>>
    BY <1>6 DEF RunCopy, RunGemm
  <2>2. /\ b \in 1..Len(blocks) /\ blocks[b].stream = t /\ t \notin capturing
        /\ Finds(queue[t], content[b], Len(queue[t]) + 1, b, w, version)
    BY DEF FrameFinds
  <2>3. t \in Stream
    BY DEF StagingTypes
  <2>4. op = queue[s][1] /\ 1 \in 1..Len(queue[s])
    BY <2>1, <1>types
  <2>5. LocalOp(op, s, blocks)
    BY <2>4 DEF QueuesFind, QueueFinds
  <2>6. content'[b] = IF CopiesInto(op, b) THEN <<op.w, version>>
                      ELSE content[b]
    <3>1. CASE RunCopy(s)
      <4>1. op.op = "copy" /\ content' = [content EXCEPT ![op.src] = <<op.w, version>>]
        BY <3>1 DEF RunCopy
      <4> DEFINE bytes == <<op.w, version>>
      <4>2. b \in 1..Len(content) /\ content \in Seq((Weight \X Nat) \union {<<>>})
        BY <2>2 DEF StagingTypes
      <4> HIDE DEF bytes, op, b
      <4>3. content'[b] = IF b = op.src THEN bytes ELSE content[b]
        BY <4>1, <4>2 DEF bytes
      <4> QED BY <4>1, <4>3 DEF CopiesInto, bytes
    <3>2. CASE RunGemm(s)
      <4>1. op.op = "gemm" /\ content' = content
        BY <3>2 DEF RunGemm
      <4> QED BY <4>1 DEF CopiesInto
    <3> QED BY <3>1, <3>2, <1>6
  <2> HIDE DEF op
  <2>7. CASE t = s
    <3>1. queue'[t] = Tail(queue[t]) /\ queue[t] # <<>>
      BY <2>1, <2>3, <2>7 DEF StagingTypes
    <3>2. Len(queue'[t]) + 1 = Len(queue[t]) /\ Len(queue[t]) \in 1..Len(queue[t])
      BY <3>1, <2>3, <1>types
    <3>3. Finds(Tail(queue[t]), content'[b], Len(queue[t]), b, w, version)
      <4> DEFINE q == queue[t]
                 bytes == content[b]
      <4>1. q \in Seq(Op) /\ q # <<>> /\ Len(q) \in 1..Len(q)
        BY <1>types, <2>3, <3>1, <3>2
      <4>2. Finds(q, bytes, Len(q) + 1, b, w, version)
        BY <2>2
      <4>3. content'[b] = IF CopiesInto(Head(q), b) THEN <<Head(q).w, version>>
                          ELSE bytes
        BY <2>6, <2>7 DEF op
      <4> HIDE DEF q, bytes, b, w
      <4>4. Finds(Tail(q), content'[b], Len(q), b, w, version)
        BY <4>1, <4>2, <4>3, FindsAfterHead
      <4> QED BY <4>4 DEF q
    <3> QED BY <2>1, <2>2, <3>1, <3>2, <3>3 DEF FrameFinds
  <2>8. CASE t # s
    <3>1. queue'[t] = queue[t]
      BY <2>1, <2>3, <2>8 DEF StagingTypes
    <3>2. content'[b] = content[b]
      BY <2>2, <2>5, <2>6, <2>8 DEF LocalOp, CopiesInto
    <3> QED BY <2>1, <2>2, <3>1, <3>2 DEF FrameFinds
  <2> QED BY <2>7, <2>8
<1>7. CASE UNCHANGED stagingVars
  BY <1>7 DEF FrameFinds, stagingVars
<1> QED
  BY <1>2, <1>3, <1>4, <1>5, <1>6, <1>7
  DEF StagingNext, Call, DirectCall, CloneFails, BeginCapture, EndCapture,
      Replay, RewriteWeights, StagedGemm, MayCall

\* Every step keeps captured graphs free of copies.
LEMMA GraphKept ==
  ASSUME StagingInv, StagingTypes', [StagingNext]_stagingVars
  PROVE  GraphKeepsOwnStorage'
<1> USE DEF StagingInv
<1>1. ASSUME NEW s \in Stream, NEW op \in Op, Issue(s, <<op>>),
             s \in capturing => op.op = "gemm" /\ op.src = Own
      PROVE  GraphKeepsOwnStorage'
  <2>1. CASE s \in capturing
    <3>1. /\ Len(graph') = Len(graph) + 1
          /\ \A i \in 1..Len(graph) : graph'[i] = graph[i]
          /\ graph'[Len(graph) + 1] = op
      BY <1>1, <2>1 DEF Issue, StagingTypes
    <3>2. Len(graph) \in Nat
      BY DEF StagingTypes
    <3> QED BY <1>1, <2>1, <3>1, <3>2 DEF GraphKeepsOwnStorage
  <2>2. CASE s \notin capturing
    BY <1>1, <2>2 DEF Issue, GraphKeepsOwnStorage
  <2> QED BY <2>1, <2>2
<1>2. ASSUME NEW s \in Stream, NEW w \in Weight, NEW tokens \in Tokens,
             DirectCall(s, w, tokens) \/ CloneFails(s, w, tokens)
      PROVE  GraphKeepsOwnStorage'
  <2>1. Issue(s, <<Gemm(w, Own)>>)
    BY <1>2 DEF DirectCall, CloneFails
  <2> QED BY <1>1, <2>1, CopyGemmTypes DEF Own
<1>3. ASSUME NEW s \in Stream, NEW w \in Weight, NEW b \in Nat,
             s \notin capturing, Issue(s, <<Copy(w, b)>>)
      PROVE  GraphKeepsOwnStorage'
  BY <1>1, <1>3, CopyGemmTypes
<1>4. ASSUME NEW s \in Stream, NEW w \in Weight, NEW tokens \in Tokens,
             NEW b \in 1..Len(blocks), CloneReusing(s, w, tokens, b)
      PROVE  GraphKeepsOwnStorage'
  BY <1>3, <1>4 DEF CloneReusing, Stages
<1>5. ASSUME NEW s \in Stream, NEW w \in Weight, NEW tokens \in Tokens,
             CloneFresh(s, w, tokens)
      PROVE  GraphKeepsOwnStorage'
  <2>1. Len(blocks) + 1 \in Nat
    BY DEF StagingTypes
  <2> QED BY <1>3, <1>5, <2>1 DEF CloneFresh, Stages
<1>6. CASE StagedGemm
  <2>1. frame # <<>> /\ frame \in [s : Stream, w : Weight, b : Nat \ {0}]
    BY <1>6 DEF StagedGemm, HostFree, StagingTypes
  <2>2. frame.s \notin capturing
    BY <2>1 DEF FrameFinds
  <2>3. frame.s \in Stream /\ Gemm(frame.w, frame.b) \in Op
    BY <2>1, CopyGemmTypes
  <2> QED BY <1>1, <1>6, <2>2, <2>3 DEF StagedGemm
<1>7. ASSUME NEW s \in Stream, Replay(s)
      PROVE  GraphKeepsOwnStorage'
  BY <1>7 DEF Replay, Issue, GraphKeepsOwnStorage
<1>8. ASSUME UNCHANGED graph
      PROVE  GraphKeepsOwnStorage'
  BY <1>8 DEF GraphKeepsOwnStorage
<1> QED
  BY <1>2, <1>4, <1>5, <1>6, <1>7, <1>8
  DEF StagingNext, Call, BeginCapture, EndCapture, RewriteWeights, RunCopy,
      RunGemm, stagingVars

\* Every step keeps a stream's blocks of distinct sizes.
LEMMA SizesKept ==
  ASSUME StagingInv, StagingTypes', [StagingNext]_stagingVars
  PROVE  OneTemporaryPerSize'
<1> USE DEF StagingInv
<1>1. ASSUME Len(blocks') = Len(blocks),
             \A b \in 1..Len(blocks) : /\ blocks'[b].stream = blocks[b].stream
                                       /\ blocks'[b].size = blocks[b].size
      PROVE  OneTemporaryPerSize'
  BY <1>1 DEF OneTemporaryPerSize
<1>2. ASSUME NEW s \in Stream, NEW w \in Weight, NEW tokens \in Tokens,
             NEW b \in 1..Len(blocks), CloneReusing(s, w, tokens, b)
      PROVE  OneTemporaryPerSize'
  BY <1>1, <1>2, BusyChanged DEF CloneReusing, StagingTypes
<1>3. CASE StagedGemm
  <2>1. frame.b \in 1..Len(blocks)
    BY <1>3 DEF StagedGemm, HostFree, FrameFinds
  <2> QED BY <1>1, <1>3, <2>1, BusyChanged DEF StagedGemm, StagingTypes
<1>4. ASSUME NEW s \in Stream, NEW w \in Weight, NEW tokens \in Tokens,
             CloneFresh(s, w, tokens)
      PROVE  OneTemporaryPerSize'
  <2> DEFINE n == Len(blocks) + 1
  <2>1. \A b \in 1..Len(blocks) : ~blocks[b].busy
    BY <1>4, NoneBusy DEF CloneFresh, MayCall
  <2>2. Size[w] \in Nat /\ Len(blocks) \in Nat
    BY StagingAssumption DEF StagingTypes
  <2>3. \A b \in 1..Len(blocks) : blocks[b].size \in Nat
    <3>1. \A b \in 1..Len(blocks) : blocks[b] \in Block
      BY DEF StagingTypes
    <3> QED BY <3>1 DEF Block
  <2>4. \A b \in 1..Len(blocks) :
          blocks[b].stream = s => ~(blocks[b].size >= Size[w])
    BY <1>4, <2>1 DEF CloneFresh, Reusable
  <2>5. \A b \in 1..Len(blocks) :
          blocks[b].stream = s => blocks[b].size < Size[w]
    BY <2>2, <2>3, <2>4
  <2>6. /\ Len(blocks') = n
        /\ \A b \in 1..Len(blocks) : blocks'[b] = blocks[b]
        /\ blocks'[n].stream = s /\ blocks'[n].size = Size[w]
    BY <1>4 DEF CloneFresh, StagingTypes
  <2> SUFFICES ASSUME NEW b \in 1..n, NEW c \in 1..n,
                      b < c, blocks'[b].stream = blocks'[c].stream
               PROVE  blocks'[b].size < blocks'[c].size
    BY <2>6 DEF OneTemporaryPerSize
  <2>7. b \in 1..Len(blocks)
    BY <2>2
  <2>8. CASE c = n
    BY <2>5, <2>6, <2>7, <2>8
  <2>9. CASE c # n
    <3>1. c \in 1..Len(blocks)
      BY <2>2, <2>9
    <3> QED BY <2>6, <2>7, <3>1 DEF OneTemporaryPerSize
  <2> QED BY <2>8, <2>9
<1>5. ASSUME UNCHANGED blocks
      PROVE  OneTemporaryPerSize'
  BY <1>5 DEF OneTemporaryPerSize
<1> QED
  BY <1>2, <1>3, <1>4, <1>5
  DEF StagingNext, Call, DirectCall, CloneFails, BeginCapture, EndCapture,
      Replay, RewriteWeights, RunCopy, RunGemm, stagingVars

\* Every step keeps the invariant.
LEMMA StagingStepPreserves ==
  StagingInv /\ [StagingNext]_stagingVars => StagingInv'
<1> SUFFICES ASSUME StagingInv, [StagingNext]_stagingVars PROVE StagingInv'
  OBVIOUS
<1>1. StagingTypes'
  BY StagingTypesKept DEF StagingInv
<1> QED
  BY <1>1, QueuesFindKept, BusyIsFrameKept, FrameFindsKept, GraphKept,
     SizesKept DEF StagingInv

\* StagingInv holds in every state.
LEMMA StagingInvariance == StagingSpec => []StagingInv
BY StagingInitEstablishes, StagingStepPreserves, PTL DEF StagingSpec

\* Every variable of the staging keeps its type.
THEOREM StagingTypeCorrect == StagingSpec => []StagingTypeOK
<1>1. StagingInv => StagingTypeOK
  <2> SUFFICES ASSUME StagingTypes PROVE StagingTypeOK
    BY DEF StagingInv
  <2>1. content \in [1..Len(blocks) -> (Weight \X Nat) \union {<<>>}]
    <3> DEFINE Bytes == (Weight \X Nat) \union {<<>>}
    <3>1. content \in Seq(Bytes) /\ Len(content) = Len(blocks)
      BY DEF StagingTypes
    <3> HIDE DEF Bytes
    <3>2. content \in [1..Len(blocks) -> Bytes]
      BY <3>1
    <3> QED BY <3>2 DEF Bytes
  <2>2. capturing \subseteq Stream /\ Cardinality(capturing) <= 1
    <3>1. CASE capturing = {}
      BY <3>1, FS_EmptySet
    <3>2. CASE \E s \in Stream : capturing = {s}
      <4>1. PICK s \in Stream : capturing = {s}
        BY <3>2
      <4>2. Cardinality({s}) = 1
        BY FS_Singleton
      <4> QED BY <4>1, <4>2
    <3> QED BY <3>1, <3>2 DEF StagingTypes
  <2> QED BY <2>1, <2>2 DEF StagingTypes, StagingTypeOK
<1>2. QED BY <1>1, StagingInvariance, PTL

\* A staged GEMM about to run finds the present bytes of its own weight in its
\* temporary, for any number of streams, batches and queued operations: blocks
\* are reused on their own stream only, in the order of its queue.
THEOREM StagedOperands == StagingSpec => []StagedGemmReadsItsWeight
<1>1. StagingInv => StagedGemmReadsItsWeight
  <2> SUFFICES ASSUME StagingInv, NEW s \in Stream, queue[s] # <<>>,
                      Head(queue[s]).op = "gemm", Head(queue[s]).src # Own
               PROVE  content[Head(queue[s]).src] = <<Head(queue[s]).w, version>>
    BY DEF StagedGemmReadsItsWeight
  <2>1. Head(queue[s]) = queue[s][1] /\ 1 \in 1..Len(queue[s])
    BY DEF StagingInv, StagingTypes
  <2>2. GemmFinds(queue[s], 1, content, version)
    BY <2>1 DEF StagingInv, QueuesFind, QueueFinds
  <2> QED BY <2>1, <2>2, FindsFirst DEF GemmFinds
<1>2. QED BY <1>1, StagingInvariance, PTL

\* A captured graph holds GEMMs on the weights' own storage and nothing else.
THEOREM GraphsPinNothing == StagingSpec => []GraphKeepsOwnStorage
<1>1. StagingInv => GraphKeepsOwnStorage BY DEF StagingInv
<1>2. QED BY <1>1, StagingInvariance, PTL

\* A new temporary is larger than every other of its stream: none is in use
\* when one is taken, so each that could serve is reused.
THEOREM TemporariesDiffer == StagingSpec => []OneTemporaryPerSize
<1>1. StagingInv => OneTemporaryPerSize BY DEF StagingInv
<1>2. QED BY <1>1, StagingInvariance, PTL

=============================================================================
