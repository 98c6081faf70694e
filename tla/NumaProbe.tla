----------------------------- MODULE NumaProbe -----------------------------
(***************************************************************************)
(* scripts/bench/numa_bandwidth.py: main() starts one worker per GPU,      *)
(* releases them together through files once all are ready, collects their *)
(* rows and does so for two placements.  Workers fail, hang in the driver  *)
(* or are slow, and main() may be killed.                                  *)
(*                                                                         *)
(* A deadline (120 s for readiness on either side, 60 s and 10 s for an    *)
(* exit) is modelled as a step that may come at any time while the process *)
(* waits, and must come if it waits for ever.                              *)
(***************************************************************************)
EXTENDS Integers, Sequences, FiniteSets

CONSTANTS NumGpus

ASSUME GpuAssumption == NumGpus \in Nat \ {0}

Gpus == 1..NumGpus

Placements == <<"local", "remote">>

\* One process per GPU and placement.
Workers == {1, 2} \X Gpus

VARIABLES
    main,       \* where main() is
    round,      \* index of the placement
    next,       \* position in the loop over GPUs or processes
    failing,    \* an exception is on its way through finally
    worker,     \* state of each worker
    signal,     \* signals sent to it
    ready,      \* workers whose ready-<gpu> exists
    go,         \* placements whose go exists
    rows,       \* workers whose gpu-<n>.json exists
    report      \* results.json exists

numaVars == <<main, round, next, failing, worker, signal, ready, go, rows, report>>

files == <<ready, go, rows, report>>

\* "hung": in a driver call that SIGTERM does not end.
Alive == {"setup", "waiting", "measuring", "leaving", "hung"}

Ended == {"zero", "nonzero"}

Mine == { w \in Workers : w[1] = round }

NumaTypeOK ==
    /\ main \in {"spawn", "ready", "wait", "terminate", "reap",
                 "done", "failed", "killed"}
    /\ round \in {1, 2}
    /\ next \in 1..(NumGpus + 1)
    /\ failing \in BOOLEAN
    /\ worker \in [Workers -> Alive \union Ended \union {"none"}]
    /\ signal \in [Workers -> {"none", "term", "kill"}]
    /\ ready \subseteq Workers /\ rows \subseteq Workers
    /\ go \subseteq {1, 2}
    /\ report \in BOOLEAN

NumaInit ==
    /\ main = "spawn"
    /\ round = 1
    /\ next = 1
    /\ failing = FALSE
    /\ worker = [w \in Workers |-> "none"]
    /\ signal = [w \in Workers |-> "none"]
    /\ ready = {}
    /\ go = {}
    /\ rows = {}
    /\ report = FALSE

-----------------------------------------------------------------------------
(***************************************************************************)
(* worker()                                                                *)
(***************************************************************************)
WorkerGoes(w, from, to) ==
    /\ worker[w] = from
    /\ worker' = [worker EXCEPT ![w] = to]
    /\ UNCHANGED <<main, round, next, failing, signal>>

\* Buffer, views, warm-up and capture are done; the ready file is written.
WriteReady(w) ==
    /\ WorkerGoes(w, "setup", "waiting")
    /\ ready' = ready \union {w}
    /\ UNCHANGED <<go, rows, report>>

SeeGo(w) ==
    /\ WorkerGoes(w, "waiting", "measuring")
    /\ w[1] \in go
    /\ UNCHANGED files

\* Mutant: a worker waits for the go file without a deadline.
MissGoNever(w) ==
    /\ worker[w] = "waiting"
    /\ w[1] \notin go
    /\ UNCHANGED numaVars

\* "parent did not release the start barrier"
MissGo(w) ==
    /\ WorkerGoes(w, "waiting", "nonzero")
    /\ w[1] \notin go
    /\ UNCHANGED files

\* The rates are taken, the buffer's bytes verified, the row written.
WriteRow(w) ==
    /\ WorkerGoes(w, "measuring", "leaving")
    /\ rows' = rows \union {w}
    /\ UNCHANGED <<ready, go, report>>

WorkerExits(w) ==
    /\ WorkerGoes(w, "leaving", "zero")
    /\ UNCHANGED files

\* An exception: no memory on the node, a CUDA error, a failed assertion.
Fail(w) ==
    /\ worker[w] \in {"setup", "measuring", "leaving"}
    /\ WorkerGoes(w, worker[w], "nonzero")
    /\ UNCHANGED files

Hang(w) ==
    /\ worker[w] \in {"setup", "measuring", "leaving"}
    /\ WorkerGoes(w, worker[w], "hung")
    /\ UNCHANGED files

Die(w) ==
    /\ worker[w] \in Alive
    /\ signal[w] = "kill" \/ (signal[w] = "term" /\ worker[w] # "hung")
    /\ WorkerGoes(w, worker[w], "nonzero")
    /\ UNCHANGED files

-----------------------------------------------------------------------------
(***************************************************************************)
(* main()                                                                  *)
(***************************************************************************)
MainGoes(to) ==
    /\ main' = to
    /\ next' = 1
    /\ UNCHANGED round

\* An exception goes through finally.
Raise ==
    /\ MainGoes("terminate")
    /\ failing' = TRUE
    /\ UNCHANGED <<worker, signal>>
    /\ UNCHANGED files

Spawn ==
    /\ main = "spawn"
    /\ next <= NumGpus
    /\ worker' = [worker EXCEPT ![<<round, next>>] = "setup"]
    /\ next' = next + 1
    /\ UNCHANGED <<main, round, failing, signal>>
    /\ UNCHANGED files

\* Popen raises: no numactl, no more processes.
SpawnFails == main = "spawn" /\ next <= NumGpus /\ Raise

AllSpawned ==
    /\ main = "spawn"
    /\ next > NumGpus
    /\ MainGoes("ready")
    /\ UNCHANGED <<failing, worker, signal>>
    /\ UNCHANGED files

\* Mutant: whoever is ready first is released.
SomeReady == ready \intersect Mine # {}

AllReady == Mine \subseteq ready

\* The ready files are counted: one of their writers may be dead.
Release ==
    /\ main = "ready"
    /\ AllReady
    /\ go' = go \union {round}
    /\ MainGoes("wait")
    /\ UNCHANGED <<failing, worker, signal, ready, rows, report>>

\* A poll before all are ready: a worker has exited, or the deadline is over.
NotReady ==
    /\ main = "ready"
    /\ ~AllReady
    /\ Raise

Awaited == <<round, next>>

\* Mutant: an exit is an exit.
WaitAnyStatus ==
    /\ main = "wait"
    /\ next <= NumGpus
    /\ worker[Awaited] \in Ended
    /\ next' = next + 1
    /\ UNCHANGED <<main, round, failing, worker, signal>>
    /\ UNCHANGED files

WaitSucceeds ==
    /\ main = "wait"
    /\ next <= NumGpus
    /\ worker[Awaited] = "zero"
    /\ next' = next + 1
    /\ UNCHANGED <<main, round, failing, worker, signal>>
    /\ UNCHANGED files

\* A status other than 0, or no exit within the deadline.
WaitFails ==
    /\ main = "wait"
    /\ next <= NumGpus
    /\ worker[Awaited] # "zero"
    /\ Raise

\* The rows are read: a missing file raises.
ReadRows ==
    /\ main = "wait"
    /\ next > NumGpus
    /\ IF Mine \subseteq rows
         THEN /\ MainGoes("terminate")
              /\ UNCHANGED <<failing, worker, signal>>
              /\ UNCHANGED files
         ELSE Raise

\* finally: terminate() whoever still runs ...
Terminate ==
    /\ main = "terminate"
    /\ IF next <= NumGpus
         THEN /\ signal' = IF worker[Awaited] \in Alive
                           THEN [signal EXCEPT ![Awaited] = "term"] ELSE signal
              /\ next' = next + 1
              /\ UNCHANGED <<main, round>>
         ELSE MainGoes("reap") /\ UNCHANGED signal
    /\ UNCHANGED <<failing, worker>>
    /\ UNCHANGED files

\* ... wait for each, and kill() those that do not end, without waiting again.
Reap ==
    /\ main = "reap"
    /\ next <= NumGpus
    /\ signal' = IF worker[Awaited] \in Alive
                 THEN [signal EXCEPT ![Awaited] = "kill"] ELSE signal
    /\ next' = next + 1
    /\ UNCHANGED <<main, round, failing, worker>>
    /\ UNCHANGED files

\* The exception leaves main(), or the next placement begins, or the results
\* of both are written.
EndRound ==
    /\ main = "reap"
    /\ next > NumGpus
    /\ IF failing
         THEN MainGoes("failed") /\ UNCHANGED report
         ELSE IF round = 1
         THEN main' = "spawn" /\ next' = 1 /\ round' = 2 /\ UNCHANGED report
         ELSE MainGoes("done") /\ report' = TRUE
    /\ UNCHANGED <<failing, worker, signal, ready, go, rows>>

\* kill -9, or the session goes away: no finally.
MainKilled ==
    /\ main \notin {"done", "failed", "killed"}
    /\ MainGoes("killed")
    /\ UNCHANGED <<failing, worker, signal>>
    /\ UNCHANGED files

-----------------------------------------------------------------------------
WorkerStep(w) == WriteReady(w) \/ SeeGo(w) \/ MissGo(w) \/ WriteRow(w) \/ WorkerExits(w)

Trouble(w) == Fail(w) \/ Hang(w)

MainStep ==
    \/ Spawn
    \/ SpawnFails
    \/ AllSpawned
    \/ Release
    \/ NotReady
    \/ WaitSucceeds
    \/ WaitFails
    \/ ReadRows
    \/ Terminate
    \/ Reap
    \/ EndRound

Over ==
    /\ main \in {"done", "failed", "killed"}
    /\ \A w \in Workers : worker[w] \in Ended \union {"none", "hung"}
    /\ UNCHANGED numaVars

NumaNext ==
    \/ \E w \in Workers : WorkerStep(w) \/ Trouble(w) \/ Die(w)
    \/ MainStep
    \/ MainKilled
    \/ Over

\* Processes run, deadlines pass and signals arrive.  A hung driver call is
\* not assumed to return, nor main() to be killed.
Fairness ==
    /\ WF_numaVars(MainStep)
    /\ \A w \in Workers : WF_numaVars(WorkerStep(w)) /\ WF_numaVars(Die(w))

NumaSpec == NumaInit /\ [][NumaNext]_numaVars /\ Fairness

-----------------------------------------------------------------------------
(***************************************************************************)
(* Properties                                                              *)
(***************************************************************************)

\* "Measure simultaneous GPU reads": a worker measures only once the workers
\* of all GPUs of its placement have got as far as the barrier, and no worker
\* of the other placement is left, so nothing else reads the sockets' memory.
MeasuresAlone ==
    \A w \in Workers : worker[w] = "measuring" =>
        /\ \A g \in Gpus : <<w[1], g>> \in ready
        /\ \A g \in Gpus : worker[<<3 - w[1], g>>] \notin Alive

\* results.json holds complete measurements only: every worker of both
\* placements came through its barrier, wrote its verified row and ended
\* well, however many of them were ready and then failed.
ReportIsComplete ==
    report => \A w \in Workers : w[1] \in go /\ w \in rows /\ worker[w] = "zero"

\* No process is left behind: main() ends and every worker it has started
\* ends, be it that a worker fails before the start signal or main() is
\* killed before it gives it.  Only a worker that hangs in the driver while
\* nobody is there to kill it stays.
NobodyIsLeft ==
    <>[](/\ main \in {"done", "failed", "killed"}
         /\ \A w \in Workers :
              worker[w] \in Ended \union {"none"}
                \/ (worker[w] = "hung" /\ main = "killed"))

=============================================================================
