---------------------------- MODULE PinnedMemory ----------------------------
(***************************************************************************)
(* Page-sized pinned host memory (vllm_dsv41_opt/pinned.py).               *)
(*                                                                         *)
(* empty_pinned() maps pages, registers them with CUDA, ties a finalizer   *)
(* to the ctypes buffer over them and hands out a CPU tensor.  CUDA views  *)
(* keep that tensor's storage, and the storage keeps the buffer, so the    *)
(* finalizer _release() runs when the last holder lets go: on whichever    *)
(* thread that happens, between any two steps of an allocation.            *)
(***************************************************************************)
EXTENDS Integers, FiniteSetsExt

CONSTANTS
    Buf,        \* weight buffers (a slot can be allocated again)
    Pages       \* Pages[b]: mapped size of a buffer

ASSUME PagesAssumption == Pages \in [Buf -> Nat \ {0}]

VARIABLES
    alive,          \* the interpreter has not reached shutdown
    at,             \* the step empty_pinned() has reached
    cur,            \* the buffer it is allocating
    mapped,         \* buffers with an open mmap
    registered,     \* buffers CUDA has page-locked
    armed,          \* buffers with a live weakref.finalize
    holders,        \* what keeps each buffer object alive
    reading,        \* buffers a queued GPU kernel reads
    rel,            \* progress of _release() per buffer
    kept,           \* _failed_releases
    live,           \* _live_bytes, in pages
    peak            \* _peak_bytes, in pages

vars == <<alive, at, cur, mapped, registered, armed, holders, reading, rel,
          kept, live, peak>>

\* "frame": the local variable of empty_pinned; "tensor": the CPU tensor;
\* "view": the CUDA view vLLM stores in the parameter.
Holder == {"frame", "tensor", "view"}

TypeOK ==
    /\ alive \in BOOLEAN
    /\ at \in {"idle", "mapped", "registered", "armed", "counted", "peaked"}
    /\ cur \in Buf
    /\ mapped \subseteq Buf
    /\ registered \subseteq Buf
    /\ armed \subseteq Buf
    /\ holders \in [Buf -> SUBSET Holder]
    /\ reading \subseteq Buf
    /\ rel \in [Buf -> {"none", "called", "unregistered", "closed"}]
    /\ kept \subseteq Buf
    /\ live \in Int
    /\ peak \in Nat

Init ==
    /\ alive = TRUE
    /\ at = "idle"
    /\ cur \in Buf
    /\ mapped = {}
    /\ registered = {}
    /\ armed = {}
    /\ holders = [b \in Buf |-> {}]
    /\ reading = {}
    /\ rel = [b \in Buf |-> "none"]
    /\ kept = {}
    /\ live = 0
    /\ peak = 0

-----------------------------------------------------------------------------
(***************************************************************************)
(* empty_pinned(), on the thread that loads the weights                    *)
(***************************************************************************)
\* mmap.mmap(-1, mapped_bytes)
MapPages(b) ==
    /\ at = "idle"
    /\ b \notin mapped
    /\ rel[b] = "none"
    /\ at' = "mapped"
    /\ cur' = b
    /\ mapped' = mapped \union {b}
    /\ UNCHANGED <<alive, registered, armed, holders, reading, rel, kept,
                   live, peak>>

RegisterPages ==
    /\ at = "mapped"
    /\ at' = "registered"
    /\ registered' = registered \union {cur}
    /\ UNCHANGED <<alive, cur, mapped, armed, holders, reading, rel, kept,
                   live, peak>>

\* Mutant: the mapping is left open when registration fails.
RegisterFailsLeaking ==
    /\ at = "mapped"
    /\ at' = "idle"
    /\ UNCHANGED <<alive, cur, mapped, registered, armed, holders, reading,
                   rel, kept, live, peak>>

\* cudaHostRegister fails: the mapping is closed and RuntimeError raised.
RegisterFails ==
    /\ at = "mapped"
    /\ at' = "idle"
    /\ mapped' = mapped \ {cur}
    /\ UNCHANGED <<alive, cur, registered, armed, holders, reading, rel, kept,
                   live, peak>>

\* The ctypes buffer and its weakref.finalize.
ArmFinalizer ==
    /\ at = "registered"
    /\ at' = "armed"
    /\ armed' = armed \union {cur}
    /\ holders' = [holders EXCEPT ![cur] = {"frame"}]
    /\ UNCHANGED <<alive, cur, mapped, registered, reading, rel, kept, live,
                   peak>>

\* Mutant: the peak is raised before the new pages are counted.
CountLiveLast ==
    /\ at = "armed"
    /\ at' = "peaked"
    /\ live' = live + Pages[cur]
    /\ peak' = IF live > peak THEN live ELSE peak
    /\ UNCHANGED <<alive, cur, mapped, registered, armed, holders, reading,
                   rel, kept>>

\* _live_bytes += mapped_bytes
CountLive ==
    /\ at = "armed"
    /\ at' = "counted"
    /\ live' = live + Pages[cur]
    /\ UNCHANGED <<alive, cur, mapped, registered, armed, holders, reading,
                   rel, kept, peak>>

\* _peak_bytes = max(_peak_bytes, _live_bytes)
RaisePeak ==
    /\ at = "counted"
    /\ at' = "peaked"
    /\ peak' = IF live > peak THEN live ELSE peak
    /\ UNCHANGED <<alive, cur, mapped, registered, armed, holders, reading,
                   rel, kept, live>>

\* torch.frombuffer(buffer): the storage takes over from the frame.
ReturnTensor ==
    /\ at = "peaked"
    /\ at' = "idle"
    /\ holders' = [holders EXCEPT ![cur] = {"tensor"}]
    /\ UNCHANGED <<alive, cur, mapped, registered, armed, reading, rel, kept,
                   live, peak>>

Allocate ==
    \/ \E b \in Buf : MapPages(b)
    \/ RegisterPages
    \/ RegisterFails
    \/ ArmFinalizer
    \/ CountLive
    \/ RaisePeak
    \/ ReturnTensor

-----------------------------------------------------------------------------
(***************************************************************************)
(* Users of the memory                                                     *)
(***************************************************************************)
\* get_accelerator_view_from_cpu_tensor
MakeView(b) ==
    /\ "tensor" \in holders[b]
    /\ holders' = [holders EXCEPT ![b] = @ \union {"view"}]
    /\ UNCHANGED <<alive, at, cur, mapped, registered, armed, reading, rel,
                   kept, live, peak>>

\* A name goes away.  The docstring's contract: whoever lets the last alias
\* go has waited for the GPU work on it.
Drop(b, h) ==
    /\ h \in holders[b] \ {"frame"}
    /\ holders[b] = {h} => b \notin reading
    /\ holders' = [holders EXCEPT ![b] = @ \ {h}]
    /\ UNCHANGED <<alive, at, cur, mapped, registered, armed, reading, rel,
                   kept, live, peak>>

LaunchKernel(b) ==
    /\ "view" \in holders[b]
    /\ reading' = reading \union {b}
    /\ UNCHANGED <<alive, at, cur, mapped, registered, armed, holders, rel,
                   kept, live, peak>>

KernelDone(b) ==
    /\ b \in reading
    /\ reading' = reading \ {b}
    /\ UNCHANGED <<alive, at, cur, mapped, registered, armed, holders, rel,
                   kept, live, peak>>

-----------------------------------------------------------------------------
(***************************************************************************)
(* _release(), called by the finalizer                                     *)
(***************************************************************************)
\* Mutant: the finalizer watches the CPU tensor, not the buffer its storage
\* shares with CUDA views.
CollectWithTensor(b) ==
    /\ b \in armed
    /\ holders[b] \cap {"frame", "tensor"} = {}
    /\ armed' = armed \ {b}
    /\ rel' = [rel EXCEPT ![b] = "called"]
    /\ UNCHANGED <<alive, at, cur, mapped, registered, holders, reading, kept,
                   live, peak>>

Collect(b) ==
    /\ b \in armed
    /\ holders[b] = {}
    /\ armed' = armed \ {b}
    /\ rel' = [rel EXCEPT ![b] = "called"]
    /\ UNCHANGED <<alive, at, cur, mapped, registered, holders, reading, kept,
                   live, peak>>

\* Mutant: _release() returns after a successful cudaHostUnregister.
UnregisterAndReturn(b) ==
    /\ rel[b] = "called"
    /\ registered' = registered \ {b}
    /\ rel' = [rel EXCEPT ![b] = "none"]
    /\ UNCHANGED <<alive, at, cur, mapped, armed, holders, reading, kept, live,
                   peak>>

Unregister(b) ==
    /\ rel[b] = "called"
    /\ registered' = registered \ {b}
    /\ rel' = [rel EXCEPT ![b] = "unregistered"]
    /\ UNCHANGED <<alive, at, cur, mapped, armed, holders, reading, kept, live,
                   peak>>

\* Mutant: a failed cudaHostUnregister is recorded, but nothing returns.
UnregisterFailsOnwards(b) ==
    /\ rel[b] = "called"
    /\ kept' = kept \union {b}
    /\ rel' = [rel EXCEPT ![b] = "unregistered"]
    /\ UNCHANGED <<alive, at, cur, mapped, registered, armed, holders, reading,
                   live, peak>>

\* cudaHostUnregister fails: the mapping is kept for ever.
UnregisterFails(b) ==
    /\ rel[b] = "called"
    /\ kept' = kept \union {b}
    /\ rel' = [rel EXCEPT ![b] = "none"]
    /\ UNCHANGED <<alive, at, cur, mapped, registered, armed, holders, reading,
                   live, peak>>

\* mapping.close()
CloseMapping(b) ==
    /\ rel[b] = "unregistered"
    /\ mapped' = mapped \ {b}
    /\ rel' = [rel EXCEPT ![b] = "closed"]
    /\ UNCHANGED <<alive, at, cur, registered, armed, holders, reading, kept,
                   live, peak>>

\* _live_bytes -= nbytes
DiscountLive(b) ==
    /\ rel[b] = "closed"
    /\ live' = live - Pages[b]
    /\ rel' = [rel EXCEPT ![b] = "none"]
    /\ UNCHANGED <<alive, at, cur, mapped, registered, armed, holders, reading,
                   kept, peak>>

Release(b) ==
    \/ Unregister(b)
    \/ UnregisterFails(b)
    \/ CloseMapping(b)
    \/ DiscountLive(b)

\* Interpreter shutdown: atexit is off for these finalizers, so nothing is
\* released any more and the operating system takes the mappings back.
Shutdown ==
    /\ at = "idle"
    /\ \A b \in Buf : rel[b] = "none"
    /\ alive' = FALSE
    /\ UNCHANGED <<at, cur, mapped, registered, armed, holders, reading, rel,
                   kept, live, peak>>

-----------------------------------------------------------------------------
Use(b) ==
    \/ MakeView(b)
    \/ \E h \in Holder : Drop(b, h)
    \/ LaunchKernel(b)
    \/ KernelDone(b)

Running ==
    /\ alive
    /\ \/ Allocate
       \/ \E b \in Buf : Use(b) \/ Collect(b) \/ Release(b)
       \/ Shutdown

Exited == ~alive /\ UNCHANGED vars

Next == Running \/ Exited

\* CPython runs a finalizer when the last reference goes, and _release() is
\* straight-line code: each buffer's release keeps going while alive.
Spec ==
    /\ Init
    /\ [][Next]_vars
    /\ \A b \in Buf : WF_vars(alive /\ (Collect(b) \/ Release(b)))

-----------------------------------------------------------------------------
(***************************************************************************)
(* Properties                                                              *)
(***************************************************************************)

\* Whoever can still reach a buffer, a CPU tensor, a CUDA view or a queued
\* kernel, finds its pages mapped and page-locked.
NoDangling ==
    \A b \in Buf :
        holders[b] # {} \/ b \in reading => b \in mapped \cap registered

\* "Never unmap memory that CUDA may still own" (_release): also after a
\* failed cudaHostUnregister, also when its slot is allocated again.
RegisteredStaysMapped == registered \subseteq mapped

\* allocation_stats() tells the truth whenever no allocation or release is
\* between two of its steps: live_bytes is what is mapped, failed releases
\* included.
LedgerMatchesMappings ==
    at = "idle" /\ (\A b \in Buf : rel[b] = "none") =>
        live = MapThenSumSet(LAMBDA b : Pages[b], mapped)

\* peak_bytes never lags live_bytes, whatever is released while an allocation
\* is between counting its pages and raising the peak.
PeakCoversLive == at # "counted" => live <= peak

\* A buffer whose release failed is never handed out or unmapped again.
KeptForGood ==
    [][\A b \in kept : b \in mapped' /\ b \in registered' /\ b \in kept']_vars

\* A buffer nobody holds any more is given back, or kept because CUDA refused
\* to let it go, unless the process ends first.
Abandoned(b) == b \in armed /\ holders[b] = {}

AbandonedIsReleased ==
    \A b \in Buf :
        Abandoned(b) ~> (b \notin mapped \/ b \in kept \/ ~alive)

=============================================================================
