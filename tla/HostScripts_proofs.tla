------------------------ MODULE HostScripts_proofs ------------------------
(***************************************************************************)
(* Theorems about the scripts run on the host: the download, for any files *)
(* (what the script calls present is what verify_shards.py accepts, and a  *)
(* finished file is never touched); setup and launches, for any edits and  *)
(* any of them with a marker (what holds when setup.sh ends well and what  *)
(* a server launched afterwards runs); the NUMA probe's start barrier, for *)
(* any number of GPUs.                                                     *)
(***************************************************************************)
EXTENDS Download, Deployment, NumaProbe, TLAPS

-----------------------------------------------------------------------------
(***************************************************************************)
(* Setup and launches                                                      *)
(***************************************************************************)
\* What each step of setup has left for those that follow, undisturbed by
\* launches.
Progress ==
    /\ setup \in {"shadow", "preflight", "ok"} => vllm = VllmEdits
    /\ setup \in {"preflight", "ok"} => ~shadow
    /\ setup = "ok" /\ reached.verdict /\ importable => Accepted(flashinfer)
    /\ setup \in {"flashinfer", "drop", "vllm", "shadow", "preflight"} => ~reached.verdict
    /\ setup \in {"flashinfer", "drop"} => ~reached.dropped

SetupInv == TypeOK /\ Progress

\* Once the build was dropped where the launcher looks, whatever a launch
\* compiles is compiled from the edited sources.
Fresh ==
    setup \in {"vllm", "shadow", "preflight", "ok"} /\ reached.dropped
      /\ SetupWorkspace = LaunchWorkspace =>
        /\ server = "compiling" => importable /\ loaded.sources = flashinfer
        /\ cache[LaunchWorkspace].built => cache[LaunchWorkspace].sources = flashinfer

ServeInv == SetupInv /\ Fresh /\ ServesPatchedSources

\* A package as shipped is one of the sources a build can be made of.
LEMMA ShippedIsSource == AsShipped \in Sources /\ Shipped \subseteq Sources
BY DEF AsShipped, Shipped, Sources

\* A fresh machine is well typed.
LEMMA InitType == Init => TypeOK
BY ShippedIsSource, EditAssumption DEF Init, TypeOK, NoBuild, NoKernels

\* Every step of setup, launch and upgrade keeps the types.
LEMMA TypeStep == TypeOK /\ [Next]_vars => TypeOK'
<1> SUFFICES ASSUME TypeOK, [Next]_vars PROVE TypeOK'
  OBVIOUS
<1> USE ShippedIsSource, EditAssumption DEF TypeOK, Running
<1>1. CASE Install
  BY <1>1 DEF Install, stack, package, launch
<1>2. CASE Upgrade
  BY <1>2 DEF Upgrade, stack, package, launch
<1>3. CASE PatchFlashInfer
  BY <1>3 DEF PatchFlashInfer, stack, package, launch
<1>4. CASE DropBuild
  <2>1. NoBuild \in [built : BOOLEAN, sources : Sources]
    BY DEF NoBuild
  <2>2. SetupWorkspace \in {"home", "data", "common"}
    BY DEF SetupWorkspace
  <2>3. cache' \in [{"home", "data", "common"} ->
                       [built : BOOLEAN, sources : Sources]]
    BY <1>4, <2>1, <2>2 DEF DropBuild
  <2>4. server' \in {"down", "starting", "compiling", "serving"}
    BY <1>4 DEF DropBuild, Down, launch
  <2>6. loaded' \in [sources : Sources, stale : BOOLEAN, settled : BOOLEAN,
                      checked : BOOLEAN]
    <3>1. NoKernels \in [sources : Sources, stale : BOOLEAN, settled : BOOLEAN,
                         checked : BOOLEAN]
      BY DEF NoKernels
    <3>2. loaded' = NoKernels \/ loaded' = loaded
      BY <1>4 DEF DropBuild, Down, launch
    <3> QED
      BY <3>1, <3>2
  <2> QED
    BY <1>4, <2>3, <2>4, <2>6 DEF DropBuild, stack, package
<1>5. CASE PatchVllm
  BY <1>5 DEF PatchVllm, stack, package, launch
<1>6. CASE ClearShadow
  BY <1>6 DEF ClearShadow, stack, package, launch
<1>7. CASE SetupPreflight
  BY <1>7 DEF SetupPreflight, Blocks, stack, package, launch
<1>8. CASE Interrupted
  BY <1>8 DEF Interrupted, stack, package, launch
<1>9. ASSUME NEW v41 \in BOOLEAN, NEW textOnly \in BOOLEAN, CheckAndLaunch(v41, textOnly)
      PROVE  TypeOK'
  BY <1>9 DEF CheckAndLaunch, Blocks, stack, package
<1>10. CASE SkipPreflight
  BY <1>10 DEF SkipPreflight, stack, package, launch
<1>11. CASE LoadPrebuilt
  BY <1>11 DEF LoadPrebuilt, Serving, stack, package, launch
<1>12. CASE LoadCached
  BY <1>12 DEF LoadCached, Serving, LaunchWorkspace, stack, package, launch
<1>13. CASE Compile
  BY <1>13 DEF Compile, stack, package, launch
<1>14. CASE Compiled
  BY <1>14 DEF Compiled, Serving, Build, LaunchWorkspace, stack, package, launch
<1>15. CASE Exit
  BY <1>15 DEF Exit, Down, NoKernels, stack, package, launch
<1>16. CASE UNCHANGED vars
  BY <1>16 DEF vars
<1> QED
  BY <1>1, <1>2, <1>3, <1>4, <1>5, <1>6, <1>7, <1>8, <1>9, <1>10, <1>11,
     <1>12, <1>13, <1>14, <1>15, <1>16 DEF Next, Setup, Serve

\* Every variable keeps its type.
THEOREM TypeCorrect == Spec => []TypeOK
<1>1. Init => TypeOK
  BY InitType
<1>2. TypeOK /\ [Next]_vars => TypeOK'
  BY TypeStep
<1> QED
  BY <1>1, <1>2, PTL DEF Spec

\* Every step keeps what setup.sh has done so far.
LEMMA ProgressStep == SetupInv /\ [Next]_vars => Progress'
<1> SUFFICES ASSUME SetupInv, [Next]_vars PROVE Progress'
  OBVIOUS
<1> USE EditAssumption DEF SetupInv, TypeOK, Progress, Running
<1>1. CASE Install
  BY <1>1 DEF Install, stack, package, launch
<1>2. CASE Upgrade
  BY <1>2 DEF Upgrade, stack, package, launch
<1>3. CASE PatchFlashInfer
  BY <1>3 DEF PatchFlashInfer, stack, package, launch
<1>4. CASE DropBuild
  BY <1>4 DEF DropBuild, Down, NoKernels, NoBuild, SetupWorkspace, LaunchWorkspace, stack, package, launch
<1>5. CASE PatchVllm
  BY <1>5 DEF PatchVllm, stack, package, launch
<1>6. CASE ClearShadow
  BY <1>6 DEF ClearShadow, stack, package, launch
<1>7. CASE SetupPreflight
  BY <1>7 DEF SetupPreflight, Blocks, stack, package, launch
<1>8. CASE Interrupted
  BY <1>8 DEF Interrupted, stack, package, launch
<1>9. ASSUME NEW v41 \in BOOLEAN, NEW textOnly \in BOOLEAN, CheckAndLaunch(v41, textOnly)
      PROVE  Progress'
  BY <1>9 DEF CheckAndLaunch, Blocks, stack, package
<1>10. CASE SkipPreflight
  BY <1>10 DEF SkipPreflight, stack, package, launch
<1>11. CASE LoadPrebuilt
  BY <1>11 DEF LoadPrebuilt, Serving, stack, package, launch
<1>12. CASE LoadCached
  BY <1>12 DEF LoadCached, Serving, LaunchWorkspace, stack, package, launch
<1>13. CASE Compile
  BY <1>13 DEF Compile, stack, package, launch
<1>14. CASE Compiled
  BY <1>14 DEF Compiled, Serving, Build, LaunchWorkspace, stack, package, launch
<1>15. CASE Exit
  BY <1>15 DEF Exit, Down, NoKernels, stack, package, launch
<1>16. CASE UNCHANGED vars
  BY <1>16 DEF vars
<1> QED
  BY <1>1, <1>2, <1>3, <1>4, <1>5, <1>6, <1>7, <1>8, <1>9, <1>10, <1>11,
     <1>12, <1>13, <1>14, <1>15, <1>16 DEF Next, Setup, Serve

\* What setup.sh has done holds in every state.
LEMMA SetupInvariant == Spec => []SetupInv
<1>1. Init => SetupInv
  BY InitType DEF Init, SetupInv, Progress
<1>2. SetupInv /\ [Next]_vars => SetupInv'
  BY TypeStep, ProgressStep DEF SetupInv
<1> QED
  BY <1>1, <1>2, PTL DEF Spec

\* When setup.sh ends well every edit of vLLM's is in place and no prebuilt
\* kernel shadows the build; and FlashInfer's sources are as preflight wants
\* them, if it came to its verdict and could import FlashInfer.
THEOREM EndsPatched == Spec => []SetupOkMeansPatched
<1>1. SetupInv => SetupOkMeansPatched
  BY DEF SetupInv, Progress, SetupOkMeansPatched
<1> QED
  BY <1>1, SetupInvariant, PTL

\* Every step keeps the cached build no older than the sources.
LEMMA FreshStep == ServeInv /\ [Next]_vars => Fresh'
<1> SUFFICES ASSUME ServeInv, [Next]_vars PROVE Fresh'
  OBVIOUS
<1> USE EditAssumption DEF ServeInv, SetupInv, TypeOK, Progress, Fresh, Running,
                              SetupWorkspace, LaunchWorkspace
<1>1. CASE Install
  BY <1>1 DEF Install, stack, package, launch
<1>2. CASE Upgrade
  BY <1>2 DEF Upgrade, stack, package, launch
<1>3. CASE PatchFlashInfer
  BY <1>3 DEF PatchFlashInfer, stack, package, launch
<1>4. CASE DropBuild
  BY <1>4 DEF DropBuild, Down, NoKernels, NoBuild, SetupWorkspace, LaunchWorkspace, stack, package, launch
<1>5. CASE PatchVllm
  BY <1>5 DEF PatchVllm, stack, package, launch
<1>6. CASE ClearShadow
  BY <1>6 DEF ClearShadow, stack, package, launch
<1>7. CASE SetupPreflight
  BY <1>7 DEF SetupPreflight, Blocks, stack, package, launch
<1>8. CASE Interrupted
  BY <1>8 DEF Interrupted, stack, package, launch
<1>9. ASSUME NEW v41 \in BOOLEAN, NEW textOnly \in BOOLEAN, CheckAndLaunch(v41, textOnly)
      PROVE  Fresh'
  BY <1>9 DEF CheckAndLaunch, Blocks, stack, package
<1>10. CASE SkipPreflight
  BY <1>10 DEF SkipPreflight, stack, package, launch
<1>11. CASE LoadPrebuilt
  BY <1>11 DEF LoadPrebuilt, Serving, stack, package, launch
<1>12. CASE LoadCached
  BY <1>12 DEF LoadCached, Serving, LaunchWorkspace, stack, package, launch
<1>13. CASE Compile
  BY <1>13 DEF Compile, stack, package, launch
<1>14. CASE Compiled
  BY <1>14 DEF Compiled, Serving, Build, LaunchWorkspace, stack, package, launch
<1>15. CASE Exit
  BY <1>15 DEF Exit, Down, NoKernels, stack, package, launch
<1>16. CASE UNCHANGED vars
  BY <1>16 DEF vars
<1> QED
  BY <1>1, <1>2, <1>3, <1>4, <1>5, <1>6, <1>7, <1>8, <1>9, <1>10, <1>11,
     <1>12, <1>13, <1>14, <1>15, <1>16 DEF Next, Setup, Serve

\* Every step keeps a server's kernels those on disk.
LEMMA ServedStep == ServeInv /\ [Next]_vars => ServesPatchedSources'
<1> SUFFICES ASSUME ServeInv, [Next]_vars PROVE ServesPatchedSources'
  OBVIOUS
<1> USE EditAssumption
    DEF ServeInv, SetupInv, TypeOK, Progress, Fresh,
        ServesPatchedSources, Running, SetupWorkspace, LaunchWorkspace
<1>1. CASE Install
  BY <1>1 DEF Install, stack, package, launch
<1>2. CASE Upgrade
  BY <1>2 DEF Upgrade, stack, package, launch
<1>3. CASE PatchFlashInfer
  BY <1>3 DEF PatchFlashInfer, stack, package, launch
<1>4. CASE DropBuild
  BY <1>4 DEF DropBuild, Down, NoKernels, NoBuild, SetupWorkspace, LaunchWorkspace, stack, package, launch
<1>5. CASE PatchVllm
  BY <1>5 DEF PatchVllm, stack, package, launch
<1>6. CASE ClearShadow
  BY <1>6 DEF ClearShadow, stack, package, launch
<1>7. CASE SetupPreflight
  BY <1>7 DEF SetupPreflight, Blocks, stack, package, launch
<1>8. CASE Interrupted
  BY <1>8 DEF Interrupted, stack, package, launch
<1>9. ASSUME NEW v41 \in BOOLEAN, NEW textOnly \in BOOLEAN, CheckAndLaunch(v41, textOnly)
      PROVE  ServesPatchedSources'
  BY <1>9 DEF CheckAndLaunch, Blocks, stack, package
<1>10. CASE SkipPreflight
  BY <1>10 DEF SkipPreflight, stack, package, launch
<1>11. CASE LoadPrebuilt
  BY <1>11 DEF LoadPrebuilt, Serving, stack, package, launch
<1>12. CASE LoadCached
  <2> DEFINE cached == cache[LaunchWorkspace]
  <2> SUFFICES ASSUME setup = "ok", reached.dropped, SetupWorkspace = LaunchWorkspace
               PROVE  ~loaded'.stale /\ (loaded'.checked => Accepted(loaded'.sources))
    BY <1>12 DEF LoadCached, Serving, stack, package
  <2>1. cached.sources = flashinfer
    <3> HIDE DEF SetupWorkspace, LaunchWorkspace
    <3> QED BY <1>12 DEF LoadCached
  <2>2. loaded'.stale = (cached.sources # flashinfer) /\ loaded'.sources = cached.sources
        /\ loaded'.checked = reached.verdict
    BY <1>12 DEF LoadCached, Serving
  <2> QED
    BY <1>12, <2>1, <2>2 DEF LoadCached
<1>13. CASE Compile
  BY <1>13 DEF Compile, stack, package, launch
<1>14. CASE Compiled
  <2> SUFFICES ASSUME setup = "ok", reached.dropped, SetupWorkspace = LaunchWorkspace
               PROVE  ~loaded'.stale /\ (loaded'.checked => Accepted(loaded'.sources))
    BY <1>14 DEF Compiled, Serving, stack, package
  <2>1. importable /\ loaded.sources = flashinfer
    <3> HIDE DEF SetupWorkspace, LaunchWorkspace
    <3> QED BY <1>14 DEF Compiled
  <2>2. loaded'.stale = (loaded.sources # flashinfer) /\ loaded'.sources = loaded.sources
        /\ loaded'.checked = reached.verdict
    BY <1>14 DEF Compiled, Serving
  <2> QED
    BY <1>14, <2>1, <2>2 DEF Compiled
<1>15. CASE Exit
  BY <1>15 DEF Exit, Down, NoKernels, stack, package, launch
<1>16. CASE UNCHANGED vars
  BY <1>16 DEF vars
<1> QED
  BY <1>1, <1>2, <1>3, <1>4, <1>5, <1>6, <1>7, <1>8, <1>9, <1>10, <1>11,
     <1>12, <1>13, <1>14, <1>15, <1>16 DEF Next, Setup, Serve

\* A server launched after setup.sh ended well, its removal of the build
\* included, runs kernels built from the sources on disk, also when another
\* launch compiled them while setup was still running, and preflight has
\* nothing against them if it came to its verdict.
THEOREM ServesEditedKernels == Spec => []ServesPatchedSources
<1>1. Init => ServeInv
  BY InitType DEF Init, ServeInv, SetupInv, Progress, Fresh, ServesPatchedSources
<1>2. ServeInv /\ [Next]_vars => ServeInv'
  BY TypeStep, ProgressStep, FreshStep, ServedStep DEF ServeInv, SetupInv
<1>3. ServeInv => ServesPatchedSources
  BY DEF ServeInv
<1> QED
  BY <1>1, <1>2, <1>3, PTL DEF Spec

-----------------------------------------------------------------------------
(***************************************************************************)
(* Download and verification                                               *)
(***************************************************************************)
\* A file with a gap has a control file beside it, and only unfinished files
\* have one.  A small file is never renamed into place.
GapsMarked ==
    /\ \A f \in File : data[f] \in {"holes", "sparse"} => f \in control
    /\ \A f \in Small : data[f] = "prefix" => f \in control
    /\ \A f \in control : data[f] \in {"prefix", "holes", "sparse"}

\* Where the script is says what it has found or fetched so far.
Visited ==
    /\ aria # "none" => /\ step \in {"small", "shards"}
                        /\ target \in todo
                        /\ ~HasEveryByte(target)
    /\ step = "small" => /\ todo \subseteq Small
                         /\ \A f \in Small \ todo : data[f] # "none"
    /\ step \notin {"idle", "small"} => \A f \in Small : data[f] # "none"
    /\ step = "shards" => /\ todo \subseteq Shards
                          /\ \A f \in todo : ~HasEveryByte(f)
                          /\ \A f \in Shards \ todo : HasEveryByte(f)
    /\ step = "done" => \A f \in Shards : HasEveryByte(f)

DownloadInv == DownloadTypeOK /\ GapsMarked /\ Visited

\* An empty MODEL_DIR keeps the invariant.
LEMMA DownloadInitInv == DownloadInit => DownloadInv
BY FileAssumption
DEF DownloadInit, DownloadInv, DownloadTypeOK, GapsMarked, Visited, Content, File,
    HasEveryByte

\* The invariant typed well enough for the transfer under way.
LEMMA TargetIsFile == DownloadInv /\ aria # "none" => target \in File
BY DEF DownloadInv, DownloadTypeOK, Visited

\* Every step of a download keeps the types.
LEMMA DownloadTypeStep == DownloadInv /\ [DownloadNext]_downloadVars => DownloadTypeOK'
<1> SUFFICES ASSUME DownloadInv, [DownloadNext]_downloadVars PROVE DownloadTypeOK'
  OBVIOUS
<1> USE FileAssumption DEF DownloadInv, DownloadTypeOK, Content, File
<1>1. CASE Run
  BY <1>1 DEF Run
<1>2. ASSUME NEW f \in Small, SkipSmall(f) PROVE DownloadTypeOK'
  BY <1>2 DEF SkipSmall
<1>3. ASSUME NEW f \in Small, FetchSmall(f) PROVE DownloadTypeOK'
  BY <1>3 DEF FetchSmall
<1>4. CASE SmallDone
  BY <1>4 DEF SmallDone
<1>5. ASSUME NEW f \in File, Rename(f) PROVE DownloadTypeOK'
  BY <1>5 DEF Rename
<1>6. ASSUME NEW f \in File, RenameRefused(f) PROVE DownloadTypeOK'
  BY <1>6 DEF RenameRefused
<1>7. CASE RenameDone
  BY <1>7 DEF RenameDone
<1>8. CASE ListMissing
  BY <1>8 DEF ListMissing
<1>9. CASE IndexUnreadable
  BY <1>9 DEF IndexUnreadable
<1>10. ASSUME NEW f \in Shards, FetchShard(f) PROVE DownloadTypeOK'
  BY <1>10 DEF FetchShard
<1>11. CASE AllFetched
  BY <1>11 DEF AllFetched
<1>12. CASE Interrupt
  BY <1>12 DEF Interrupt
<1>13. CASE WriteSegments
  BY <1>13, TargetIsFile DEF WriteSegments, Ahead
<1>14. CASE TransferEnds
  BY <1>14, TargetIsFile DEF TransferEnds
<1>15. CASE TransferFails
  BY <1>15 DEF TransferFails
<1>16. CASE Retry
  BY <1>16 DEF Retry
<1>17. ASSUME NEW f \in File, ModelScopeStops(f) PROVE DownloadTypeOK'
  BY <1>17 DEF ModelScopeStops
<1>18. ASSUME NEW sha \in BOOLEAN, Verify(sha) PROVE DownloadTypeOK'
  BY <1>18 DEF Verify
<1>19. CASE UNCHANGED downloadVars
  BY <1>19 DEF downloadVars
<1> QED
  BY <1>1, <1>2, <1>3, <1>4, <1>5, <1>6, <1>7, <1>8, <1>9, <1>10,
     <1>11, <1>12, <1>13, <1>14, <1>15, <1>16, <1>17, <1>18, <1>19
     DEF DownloadNext, Script, Fetch

\* Every step keeps a control file beside each file with gaps.
LEMMA MarkedStep == DownloadInv /\ [DownloadNext]_downloadVars => GapsMarked'
<1> SUFFICES ASSUME DownloadInv, [DownloadNext]_downloadVars PROVE GapsMarked'
  OBVIOUS
<1> USE FileAssumption DEF DownloadInv, DownloadTypeOK, GapsMarked, File
<1>1. CASE Run
  BY <1>1 DEF Run
<1>2. ASSUME NEW f \in Small, SkipSmall(f) PROVE GapsMarked'
  BY <1>2 DEF SkipSmall
<1>3. ASSUME NEW f \in Small, FetchSmall(f) PROVE GapsMarked'
  BY <1>3 DEF FetchSmall
<1>4. CASE SmallDone
  BY <1>4 DEF SmallDone
<1>5. ASSUME NEW f \in File, Rename(f) PROVE GapsMarked'
  BY <1>5 DEF Rename, Visited
<1>6. ASSUME NEW f \in File, RenameRefused(f) PROVE GapsMarked'
  BY <1>6 DEF RenameRefused
<1>7. CASE RenameDone
  BY <1>7 DEF RenameDone
<1>8. CASE ListMissing
  BY <1>8 DEF ListMissing
<1>9. CASE IndexUnreadable
  BY <1>9 DEF IndexUnreadable
<1>10. ASSUME NEW f \in Shards, FetchShard(f) PROVE GapsMarked'
  BY <1>10 DEF FetchShard
<1>11. CASE AllFetched
  BY <1>11 DEF AllFetched
<1>12. CASE Interrupt
  BY <1>12 DEF Interrupt
<1>13. CASE WriteSegments
  BY <1>13, TargetIsFile DEF WriteSegments, Ahead
<1>14. CASE TransferEnds
  BY <1>14, TargetIsFile DEF TransferEnds
<1>15. CASE TransferFails
  BY <1>15 DEF TransferFails
<1>16. CASE Retry
  BY <1>16 DEF Retry
<1>17. ASSUME NEW f \in File, ModelScopeStops(f) PROVE GapsMarked'
  BY <1>17 DEF ModelScopeStops
<1>18. ASSUME NEW sha \in BOOLEAN, Verify(sha) PROVE GapsMarked'
  BY <1>18 DEF Verify
<1>19. CASE UNCHANGED downloadVars
  BY <1>19 DEF downloadVars
<1> QED
  BY <1>1, <1>2, <1>3, <1>4, <1>5, <1>6, <1>7, <1>8, <1>9, <1>10,
     <1>11, <1>12, <1>13, <1>14, <1>15, <1>16, <1>17, <1>18, <1>19
     DEF DownloadNext, Script, Fetch

\* Every step keeps the files that the script has passed complete.
LEMMA VisitedStep == DownloadInv /\ [DownloadNext]_downloadVars => Visited'
<1> SUFFICES ASSUME DownloadInv, [DownloadNext]_downloadVars PROVE Visited'
  OBVIOUS
<1> USE FileAssumption DEF DownloadInv, DownloadTypeOK, Visited, HasEveryByte, File
<1>1. CASE Run
  BY <1>1 DEF Run
<1>2. ASSUME NEW f \in Small, SkipSmall(f) PROVE Visited'
  BY <1>2 DEF SkipSmall
<1>3. ASSUME NEW f \in Small, FetchSmall(f) PROVE Visited'
  BY <1>3 DEF FetchSmall
<1>4. CASE SmallDone
  BY <1>4 DEF SmallDone
<1>5. ASSUME NEW f \in File, Rename(f) PROVE Visited'
  BY <1>5 DEF Rename
<1>6. ASSUME NEW f \in File, RenameRefused(f) PROVE Visited'
  BY <1>6 DEF RenameRefused
<1>7. CASE RenameDone
  BY <1>7 DEF RenameDone
<1>8. CASE ListMissing
  BY <1>8 DEF ListMissing, IsComplete, FullLength, GapsMarked, Content
<1>9. CASE IndexUnreadable
  BY <1>9 DEF IndexUnreadable
<1>10. ASSUME NEW f \in Shards, FetchShard(f) PROVE Visited'
  BY <1>10 DEF FetchShard
<1>11. CASE AllFetched
  BY <1>11 DEF AllFetched
<1>12. CASE Interrupt
  BY <1>12 DEF Interrupt
<1>13. CASE WriteSegments
  BY <1>13, TargetIsFile DEF WriteSegments, Ahead
<1>14. CASE TransferEnds
  BY <1>14, TargetIsFile DEF TransferEnds
<1>15. CASE TransferFails
  BY <1>15 DEF TransferFails
<1>16. CASE Retry
  BY <1>16 DEF Retry
<1>17. ASSUME NEW f \in File, ModelScopeStops(f) PROVE Visited'
  BY <1>17 DEF ModelScopeStops
<1>18. ASSUME NEW sha \in BOOLEAN, Verify(sha) PROVE Visited'
  BY <1>18 DEF Verify
<1>19. CASE UNCHANGED downloadVars
  BY <1>19 DEF downloadVars
<1> QED
  BY <1>1, <1>2, <1>3, <1>4, <1>5, <1>6, <1>7, <1>8, <1>9, <1>10,
     <1>11, <1>12, <1>13, <1>14, <1>15, <1>16, <1>17, <1>18, <1>19
     DEF DownloadNext, Script, Fetch

\* DownloadInv holds in every state of every download.
LEMMA DownloadInvariance == DownloadSpec => []DownloadInv
<1>1. DownloadInv /\ [DownloadNext]_downloadVars => DownloadInv'
  BY DownloadTypeStep, MarkedStep, VisitedStep DEF DownloadInv
<1> QED
  BY DownloadInitInv, <1>1, PTL DEF DownloadSpec

\* Every state of every run is well typed.
THEOREM DownloadTypeCorrect == DownloadSpec => []DownloadTypeOK
<1>1. DownloadInv => DownloadTypeOK
  BY DEF DownloadInv
<1> QED
  BY DownloadInvariance, <1>1, PTL

\* When the script ends, verify_shards.py would accept every shard, and a
\* small file that was left unfinished can be told by its control file.
THEOREM EndsWithEveryShard == DownloadSpec => []EndedMeansPresent
<1>1. DownloadInv => EndedMeansPresent
  BY FileAssumption
     DEF DownloadInv, DownloadTypeOK, GapsMarked, Visited, EndedMeansPresent, Passes, HasEveryByte,
         FullLength, Content, File
<1> QED
  BY DownloadInvariance, <1>1, PTL

-----------------------------------------------------------------------------
\* No step changes a file that has every byte.
LEMMA FinishedIsKept ==
    ASSUME DownloadInv, [DownloadNext]_downloadVars
    PROVE  \A f \in File : HasEveryByte(f) => data'[f] = data[f]
<1> USE FileAssumption DEF DownloadInv, DownloadTypeOK, HasEveryByte, File
<1>1. CASE Run
  BY <1>1 DEF Run
<1>2. ASSUME NEW f \in Small, SkipSmall(f) 
             PROVE \A g \in File : HasEveryByte(g) => data'[g] = data[g]
  BY <1>2 DEF SkipSmall
<1>3. ASSUME NEW f \in Small, FetchSmall(f) 
             PROVE \A g \in File : HasEveryByte(g) => data'[g] = data[g]
  BY <1>3 DEF FetchSmall
<1>4. CASE SmallDone
  BY <1>4 DEF SmallDone
<1>5. ASSUME NEW f \in File, Rename(f) 
             PROVE \A g \in File : HasEveryByte(g) => data'[g] = data[g]
  BY <1>5 DEF Rename
<1>6. ASSUME NEW f \in File, RenameRefused(f)
             PROVE \A g \in File : HasEveryByte(g) => data'[g] = data[g]
  BY <1>6 DEF RenameRefused
<1>7. CASE RenameDone
  BY <1>7 DEF RenameDone
<1>8. CASE ListMissing
  BY <1>8 DEF ListMissing
<1>9. CASE IndexUnreadable
  BY <1>9 DEF IndexUnreadable
<1>10. ASSUME NEW f \in Shards, FetchShard(f) 
             PROVE \A g \in File : HasEveryByte(g) => data'[g] = data[g]
  BY <1>10 DEF FetchShard
<1>11. CASE AllFetched
  BY <1>11 DEF AllFetched
<1>12. CASE Interrupt
  BY <1>12 DEF Interrupt
<1>13. CASE WriteSegments
  BY <1>13, TargetIsFile DEF WriteSegments, Visited
<1>14. CASE TransferEnds
  BY <1>14, TargetIsFile DEF TransferEnds, Visited
<1>15. CASE TransferFails
  BY <1>15 DEF TransferFails
<1>16. CASE Retry
  BY <1>16 DEF Retry
<1>17. ASSUME NEW f \in File, ModelScopeStops(f) 
             PROVE \A g \in File : HasEveryByte(g) => data'[g] = data[g]
  BY <1>17 DEF ModelScopeStops
<1>18. ASSUME NEW sha \in BOOLEAN, Verify(sha) 
             PROVE \A g \in File : HasEveryByte(g) => data'[g] = data[g]
  BY <1>18 DEF Verify
<1>19. CASE UNCHANGED downloadVars
  BY <1>19 DEF downloadVars
<1> QED
  BY <1>1, <1>2, <1>3, <1>4, <1>5, <1>6, <1>7, <1>8, <1>9, <1>10,
     <1>11, <1>12, <1>13, <1>14, <1>15, <1>16, <1>17, <1>18, <1>19
     DEF DownloadNext, Script, Fetch

\* No run, transfer or leftover of another client changes a finished file.
THEOREM FinishedIsSkipped == DownloadSpec => CompleteIsSkipped
<1>1. DownloadInv /\ [DownloadNext]_downloadVars =>
        [\A f \in File : HasEveryByte(f) => data'[f] = data[f]]_downloadVars
  BY FinishedIsKept
<1> QED
  BY DownloadInvariance, <1>1, PTL DEF DownloadSpec, CompleteIsSkipped

\* Every step keeps what was verified good.
LEMMA VerifiedStep ==
    ASSUME DownloadInv, VerifiedStaysGood, [DownloadNext]_downloadVars
    PROVE  VerifiedStaysGood'
<1>1. \A f \in File : HasEveryByte(f) => data'[f] = data[f]
  BY FinishedIsKept
<1>2. CASE verified' = verified
  BY <1>1, <1>2 DEF VerifiedStaysGood, HasEveryByte, File
<1>3. ASSUME NEW sha \in BOOLEAN, Verify(sha) PROVE VerifiedStaysGood'
  <2>1. \A f \in Shards : Passes(f) => HasEveryByte(f)
    BY DEF DownloadInv, DownloadTypeOK, GapsMarked, Passes, HasEveryByte, FullLength, File
  <2>2. data' = data
    BY <1>3 DEF Verify
  <2>3. CASE ~Accepts(sha)
    BY <1>3, <2>3 DEF Verify, VerifiedStaysGood
  <2>4. CASE Accepts(sha) /\ sha
    BY <1>3, <2>1, <2>2, <2>4
       DEF Verify, Accepts, HashAccepted, VerifiedStaysGood, HasEveryByte
  <2>5. CASE Accepts(sha) /\ ~sha
    BY <1>3, <2>1, <2>2, <2>5 DEF Verify, Accepts, VerifiedStaysGood, HasEveryByte
  <2> QED
    BY <2>3, <2>4, <2>5
<1> QED
  BY <1>2, <1>3
     DEF DownloadNext, Script, Fetch, downloadVars, Run, SkipSmall, FetchSmall, SmallDone, Rename,
         RenameRefused, RenameDone, ListMissing, IndexUnreadable, FetchShard, AllFetched, Interrupt,
         WriteSegments, TransferEnds, TransferFails, Retry, ModelScopeStops

\* What verify_shards.py accepted is complete, and of one upload where hashes
\* were compared and known, and stays so whatever is run afterwards.
THEOREM VerifiedIsComplete == DownloadSpec => []VerifiedStaysGood
<1>1. DownloadInit => VerifiedStaysGood
  BY DEF DownloadInit, VerifiedStaysGood
<1>2. DownloadInv /\ VerifiedStaysGood /\ [DownloadNext]_downloadVars => VerifiedStaysGood'
  BY VerifiedStep
<1> QED
  BY DownloadInvariance, <1>1, <1>2, PTL DEF DownloadSpec

-----------------------------------------------------------------------------
(***************************************************************************)
(* NUMA bandwidth probe                                                    *)
(***************************************************************************)
Worker(r, g) == <<r, g>>

\* A placement's workers are started only in its round.
NotYetStarted == \A g \in Gpus : round = 1 => worker[Worker(2, g)] = "none"

\* What main() knows of a placement it is done with.
Complete(r) ==
    /\ r \in go
    /\ \A g \in Gpus : worker[Worker(r, g)] = "zero" /\ Worker(r, g) \in rows

\* The second round begins only after a complete first one.
FirstIsComplete == round = 2 => Complete(1)

\* What main() knows of the placement it is working on.
Waited ==
    main = "wait" =>
        /\ round \in go
        /\ \A g \in Gpus : g < next => worker[Worker(round, g)] = "zero"

Collected == main \in {"terminate", "reap"} /\ ~failing => Complete(round)

\* A placement is released when all its workers are ready, and a worker
\* measures only after that.
Barrier ==
    /\ \A r \in go : \A g \in Gpus : Worker(r, g) \in ready
    /\ \A w \in Workers : worker[w] = "measuring" => w[1] \in go

Reported == report => main = "done" /\ Complete(1) /\ Complete(2)

NumaInv ==
    /\ NumaTypeOK
    /\ NotYetStarted
    /\ FirstIsComplete
    /\ Waited
    /\ Collected
    /\ Barrier
    /\ Reported

-----------------------------------------------------------------------------
\* A worker is a placement and a GPU.
LEMMA WorkerIsPair ==
    /\ \A w \in Workers : w[1] \in {1, 2} /\ w[2] \in Gpus /\ w = Worker(w[1], w[2])
    /\ \A r \in {1, 2}, g \in Gpus : Worker(r, g) \in Workers /\ Worker(r, g)[1] = r
  BY DEF Workers, Worker

\* A worker's step moves a worker that is alive, never lets it measure before
\* the release, adds files and leaves main() where it is.
LEMMA WorkerMoves ==
    ASSUME NumaInv, NEW w \in Workers, WorkerStep(w) \/ Trouble(w) \/ Die(w)
    PROVE  /\ worker[w] \in Alive
           /\ \E to \in (Alive \union Ended) \ {"setup"} :
                /\ worker' = [worker EXCEPT ![w] = to]
                /\ to = "measuring" => w[1] \in go
           /\ UNCHANGED <<main, round, next, failing, signal, go, report>>
           /\ ready \subseteq ready' /\ rows \subseteq rows'
           /\ ready' \subseteq Workers /\ rows' \subseteq Workers
  BY DEF NumaInv, NumaTypeOK, WorkerStep, Trouble, Die, WriteReady, SeeGo, MissGo, WriteRow,
     WorkerExits, Fail, Hang, WorkerGoes, files, Alive, Ended

\* Workers' steps keep the invariant.
LEMMA WorkerKeeps ==
    ASSUME NumaInv, NEW w \in Workers, WorkerStep(w) \/ Trouble(w) \/ Die(w)
    PROVE  NumaInv'
<1>1. PICK to \in (Alive \union Ended) \ {"setup"} :
        /\ worker' = [worker EXCEPT ![w] = to]
        /\ to = "measuring" => w[1] \in go
  BY WorkerMoves
<1>2. /\ worker[w] \in Alive
      /\ UNCHANGED <<main, round, next, failing, signal, go, report>>
      /\ ready \subseteq ready' /\ rows \subseteq rows'
      /\ ready' \subseteq Workers /\ rows' \subseteq Workers
  BY WorkerMoves
<1>3. NumaTypeOK' BY <1>1, <1>2 DEF NumaInv, NumaTypeOK
<1>4. \A v \in Workers : worker[v] \in {"zero", "none"} => worker'[v] = worker[v]
  BY <1>1, <1>2 DEF NumaInv, NumaTypeOK, Alive
<1>5. ASSUME NEW r \in {1, 2}, Complete(r) PROVE Complete(r)'
  BY <1>2, <1>4, <1>5, WorkerIsPair DEF Complete
<1>6. NotYetStarted' BY <1>2, <1>4, WorkerIsPair DEF NumaInv, NotYetStarted
<1>7. FirstIsComplete' BY <1>2, <1>5 DEF NumaInv, FirstIsComplete
<1>8. Waited' BY <1>2, <1>4, WorkerIsPair DEF NumaInv, NumaTypeOK, Waited
<1>9. Collected' BY <1>2, <1>5 DEF NumaInv, NumaTypeOK, Collected
<1>10. Barrier'
  <2>1. \A r \in go' : \A g \in Gpus : Worker(r, g) \in ready'
    BY <1>2 DEF NumaInv, Barrier
  <2>2. \A v \in Workers : worker'[v] = "measuring" => v[1] \in go'
    BY <1>1, <1>2 DEF NumaInv, NumaTypeOK, Barrier
  <2>3. QED BY <2>1, <2>2 DEF Barrier
<1>11. Reported' BY <1>2, <1>5 DEF NumaInv, Reported
<1>12. QED BY <1>3, <1>6, <1>7, <1>8, <1>9, <1>10, <1>11 DEF NumaInv

-----------------------------------------------------------------------------
\* An exception keeps the invariant: from then on main() claims nothing.
LEMMA RaiseKeeps == ASSUME NumaInv, main # "done", Raise PROVE NumaInv'
<1>1. ~report BY DEF NumaInv, Reported
<1>2. /\ main' = "terminate" /\ next' = 1 /\ failing'
      /\ UNCHANGED <<round, worker, signal, ready, go, rows, report>>
  BY DEF Raise, MainGoes, files
<1>3. NumaTypeOK' BY <1>2, GpuAssumption DEF NumaInv, NumaTypeOK
<1>4. NotYetStarted' BY <1>2 DEF NumaInv, NotYetStarted
<1>5. FirstIsComplete' BY <1>2 DEF NumaInv, FirstIsComplete, Complete
<1>6. Waited' /\ Collected' BY <1>2 DEF Waited, Collected
<1>7. Barrier' BY <1>2 DEF NumaInv, Barrier
<1>8. Reported' BY <1>1, <1>2 DEF Reported
<1>9. QED BY <1>3, <1>4, <1>5, <1>6, <1>7, <1>8 DEF NumaInv

\* main() keeps the invariant.
LEMMA MainKeeps == ASSUME NumaInv, MainStep PROVE NumaInv'
<1> USE GpuAssumption DEF NumaInv
<1>1. CASE Spawn
  <2>1. /\ main = "spawn" /\ next \in Gpus
        /\ worker' = [worker EXCEPT ![Worker(round, next)] = "setup"]
        /\ next' = next + 1
        /\ UNCHANGED <<main, round, failing, signal, ready, go, rows, report>>
    BY <1>1 DEF Spawn, NumaTypeOK, Gpus, Worker, files
  <2>2. NumaTypeOK'
    <3>1. next' \in 1..(NumGpus + 1) BY <2>1 DEF Gpus
    <3>2. worker' \in [Workers -> Alive \union Ended \union {"none"}]
      BY <2>1 DEF NumaTypeOK, Alive
    <3>3. QED BY <2>1, <3>1, <3>2 DEF NumaTypeOK
  <2>3. \A v \in Workers : v[1] # round => worker'[v] = worker[v]
    BY <2>1, WorkerIsPair DEF NumaTypeOK
  <2>4. NotYetStarted' BY <2>1, <2>3, WorkerIsPair DEF NumaTypeOK, NotYetStarted
  <2>5. FirstIsComplete'
    BY <2>1, <2>3, WorkerIsPair DEF NumaTypeOK, FirstIsComplete, Complete
  <2>6. Waited' /\ Collected' BY <2>1 DEF Waited, Collected
  <2>7. \A v \in Workers : worker'[v] = "measuring" => worker[v] = "measuring"
    BY <2>1 DEF NumaTypeOK
  <2>8. Barrier' BY <2>1, <2>7 DEF Barrier
  <2>9. Reported' BY <2>1 DEF Reported
  <2>10. QED BY <2>2, <2>4, <2>5, <2>6, <2>8, <2>9
<1>2. CASE SpawnFails \/ NotReady \/ WaitFails
  BY <1>2, RaiseKeeps DEF SpawnFails, NotReady, WaitFails
<1>3. CASE AllSpawned
  <2>1. /\ main = "spawn" /\ main' = "ready" /\ next' = 1
        /\ UNCHANGED <<round, failing, worker, signal, ready, go, rows, report>>
    BY <1>3 DEF AllSpawned, MainGoes, files
  <2>2. NumaTypeOK' BY <2>1 DEF NumaTypeOK
  <2>3. NotYetStarted' /\ FirstIsComplete'
    BY <2>1 DEF NotYetStarted, FirstIsComplete, Complete
  <2>4. Waited' /\ Collected' BY <2>1 DEF Waited, Collected
  <2>5. Barrier' /\ Reported' BY <2>1 DEF Barrier, Reported
  <2>6. QED BY <2>2, <2>3, <2>4, <2>5
<1>4. CASE Release
  <2>1. /\ main = "ready" /\ main' = "wait" /\ next' = 1
        /\ Mine \subseteq ready /\ go' = go \union {round}
        /\ UNCHANGED <<round, failing, worker, signal, ready, rows, report>>
    BY <1>4 DEF Release, AllReady, MainGoes
  <2>2. NumaTypeOK' BY <2>1 DEF NumaTypeOK
  <2>3. NotYetStarted' BY <2>1 DEF NotYetStarted
  <2>4. FirstIsComplete' BY <2>1 DEF FirstIsComplete, Complete
  <2>5. Waited' BY <2>1 DEF Waited, Gpus
  <2>6. Collected' BY <2>1 DEF Collected
  <2>7. \A g \in Gpus : Worker(round, g) \in ready
    BY <2>1, WorkerIsPair DEF NumaTypeOK, Mine
  <2>8. Barrier' BY <2>1, <2>7 DEF Barrier
  <2>9. Reported' BY <2>1 DEF Reported
  <2>10. QED BY <2>2, <2>3, <2>4, <2>5, <2>6, <2>8, <2>9
<1>5. CASE WaitSucceeds
  <2>1. /\ main = "wait" /\ next \in Gpus
        /\ worker[Worker(round, next)] = "zero" /\ next' = next + 1
        /\ UNCHANGED <<main, round, failing, worker, signal, ready, go, rows, report>>
    BY <1>5 DEF WaitSucceeds, Awaited, Worker, NumaTypeOK, Gpus, files
  <2>2. NumaTypeOK' BY <2>1 DEF NumaTypeOK, Gpus
  <2>3. NotYetStarted' /\ FirstIsComplete'
    BY <2>1 DEF NotYetStarted, FirstIsComplete, Complete
  <2>4. \A g \in Gpus : g < next + 1 => g < next \/ g = next
    BY <2>1 DEF Gpus
  <2>5. Waited' BY <2>1, <2>4 DEF Waited
  <2>6. Collected' BY <2>1 DEF Collected
  <2>7. Barrier' /\ Reported' BY <2>1 DEF Barrier, Reported
  <2>8. QED BY <2>2, <2>3, <2>5, <2>6, <2>7
<1>6. CASE ReadRows
  <2>1. main = "wait" /\ next > NumGpus BY <1>6 DEF ReadRows
  <2>2. CASE ~(Mine \subseteq rows) BY <1>6, <2>1, <2>2, RaiseKeeps DEF ReadRows
  <2>3. CASE Mine \subseteq rows
    <3>1. /\ main' = "terminate" /\ next' = 1
          /\ UNCHANGED <<round, failing, worker, signal, ready, go, rows, report>>
      BY <1>6, <2>3 DEF ReadRows, MainGoes, files
    <3>2. \A g \in Gpus : g < next BY <2>1 DEF NumaTypeOK, Gpus
    <3>3. Complete(round)
      BY <2>1, <2>3, <3>2, WorkerIsPair DEF NumaTypeOK, Waited, Complete, Mine
    <3>4. NumaTypeOK' BY <3>1 DEF NumaTypeOK
    <3>5. NotYetStarted' /\ FirstIsComplete'
      BY <3>1 DEF NotYetStarted, FirstIsComplete, Complete
    <3>6. Waited' BY <3>1 DEF Waited
    <3>7. Collected' BY <3>1, <3>3 DEF Collected, Complete
    <3>8. Barrier' /\ Reported' BY <2>1, <3>1 DEF Barrier, Reported
    <3>9. QED BY <3>4, <3>5, <3>6, <3>7, <3>8
  <2>4. QED BY <2>2, <2>3
<1>7. CASE Terminate \/ Reap
  <2>1. /\ main \in {"terminate", "reap"} /\ main' \in {"terminate", "reap"}
        /\ next' \in 1..(NumGpus + 1)
        /\ signal' \in [Workers -> {"none", "term", "kill"}]
        /\ UNCHANGED <<round, failing, worker, ready, go, rows, report>>
    BY <1>7, WorkerIsPair
    DEF Terminate, Reap, MainGoes, NumaTypeOK, Awaited, Worker, Gpus, files
  <2>2. NumaTypeOK' BY <2>1 DEF NumaTypeOK
  <2>3. NotYetStarted' /\ FirstIsComplete'
    BY <2>1 DEF NotYetStarted, FirstIsComplete, Complete
  <2>4. Waited' /\ Collected' BY <2>1 DEF Waited, Collected, Complete
  <2>5. Barrier' /\ Reported' BY <2>1 DEF Barrier, Reported
  <2>6. QED BY <2>2, <2>3, <2>4, <2>5
<1>8. CASE EndRound
  <2>1. /\ main = "reap" /\ next' = 1
        /\ UNCHANGED <<failing, worker, signal, ready, go, rows>>
        /\ \/ main' = "failed" /\ UNCHANGED <<round, report>>
           \/ ~failing /\ round = 1 /\ main' = "spawn" /\ round' = 2 /\ UNCHANGED report
           \/ ~failing /\ round = 2 /\ main' = "done" /\ UNCHANGED round /\ report' = TRUE
    BY <1>8 DEF EndRound, MainGoes, NumaTypeOK
  <2>2. NumaTypeOK'
    <3>1. next' \in 1..(NumGpus + 1) BY <2>1
    <3>2. main' \in {"failed", "spawn", "done"} /\ round' \in {1, 2} BY <2>1 DEF NumaTypeOK
    <3>3. report' \in BOOLEAN BY <2>1, Zenon DEF NumaTypeOK
    <3>4. QED BY <2>1, <3>1, <3>2, <3>3 DEF NumaTypeOK
  <2>3. NotYetStarted' BY <2>1 DEF NotYetStarted
  <2>4. ~failing => Complete(round) BY <2>1 DEF Collected
  <2>5. FirstIsComplete'
    BY <2>1, <2>4 DEF FirstIsComplete, Complete
  <2>6. Waited' /\ Collected' BY <2>1 DEF Waited, Collected
  <2>7. Barrier' BY <2>1 DEF Barrier
  <2>8. Reported' BY <2>1, <2>4 DEF Reported, FirstIsComplete, Complete
  <2>9. QED BY <2>2, <2>3, <2>5, <2>6, <2>7, <2>8
<1>9. QED BY <1>1, <1>2, <1>3, <1>4, <1>5, <1>6, <1>7, <1>8 DEF MainStep

-----------------------------------------------------------------------------
\* main() before its first group keeps the invariant.
LEMMA NumaInitHolds == NumaInit => NumaInv
<1>1. NumaInit => NumaTypeOK
  <2>1. NumaInit => next \in 1..(NumGpus + 1) BY GpuAssumption DEF NumaInit
  <2>2. NumaInit => /\ worker \in [Workers -> Alive \union Ended \union {"none"}]
                /\ signal \in [Workers -> {"none", "term", "kill"}]
    BY DEF NumaInit
  <2>3. QED BY <2>1, <2>2 DEF NumaInit, NumaTypeOK
<1>2. NumaInit => NotYetStarted BY WorkerIsPair DEF NumaInit, NotYetStarted
<1>3. NumaInit => FirstIsComplete /\ Waited /\ Collected /\ Barrier /\ Reported
  BY DEF NumaInit, FirstIsComplete, Waited, Collected, Barrier, Reported
<1>4. QED BY <1>1, <1>2, <1>3 DEF NumaInv

\* So does every step of main() and of its workers.
LEMMA NumaStepKeeps == NumaInv /\ [NumaNext]_numaVars => NumaInv'
<1> SUFFICES ASSUME NumaInv, [NumaNext]_numaVars PROVE NumaInv'
  OBVIOUS
<1>1. CASE \E w \in Workers : WorkerStep(w) \/ Trouble(w) \/ Die(w)
  BY <1>1, WorkerKeeps
<1>2. CASE MainStep BY <1>2, MainKeeps
<1>3. CASE MainKilled
  <2>1. /\ main # "done" /\ main' = "killed" /\ next' = 1
        /\ UNCHANGED <<round, failing, worker, signal, ready, go, rows, report>>
    BY <1>3 DEF MainKilled, MainGoes, files
  <2>2. NumaTypeOK' BY <2>1, GpuAssumption DEF NumaInv, NumaTypeOK
  <2>3. NotYetStarted' /\ FirstIsComplete'
    BY <2>1 DEF NumaInv, NotYetStarted, FirstIsComplete, Complete
  <2>4. Waited' /\ Collected' BY <2>1 DEF Waited, Collected
  <2>5. Barrier' /\ Reported' BY <2>1 DEF NumaInv, Barrier, Reported
  <2>6. QED BY <2>2, <2>3, <2>4, <2>5 DEF NumaInv
<1>4. CASE Over \/ UNCHANGED numaVars
  <2>1. UNCHANGED numaVars BY <1>4 DEF Over
  <2>2. NumaTypeOK' BY <2>1 DEF NumaInv, NumaTypeOK, numaVars
  <2>3. NotYetStarted' /\ FirstIsComplete'
    BY <2>1 DEF NumaInv, NotYetStarted, FirstIsComplete, Complete, numaVars
  <2>4. Waited' /\ Collected'
    BY <2>1 DEF NumaInv, Waited, Collected, Complete, numaVars
  <2>5. Barrier' /\ Reported'
    BY <2>1 DEF NumaInv, Barrier, Reported, Complete, numaVars
  <2>6. QED BY <2>2, <2>3, <2>4, <2>5 DEF NumaInv
<1>5. QED BY <1>1, <1>2, <1>3, <1>4 DEF NumaNext

\* NumaInv holds in every state of the probe.
LEMMA NumaInvariance == NumaSpec => []NumaInv
  BY NumaInitHolds, NumaStepKeeps, PTL DEF NumaSpec

-----------------------------------------------------------------------------
\* Every state of main() and its workers is well typed, for any number of
\* GPUs.
THEOREM NumaTypeCorrect == NumaSpec => []NumaTypeOK
  BY NumaInvariance, PTL DEF NumaInv

\* Whoever measures does so behind a barrier that all GPUs of its placement
\* have reached, while no process of the other placement is alive.
THEOREM MeasuredTogether == NumaSpec => []MeasuresAlone
<1>1. NumaInv => MeasuresAlone
  <2> SUFFICES ASSUME NumaInv, NEW w \in Workers, worker[w] = "measuring"
               PROVE  /\ \A g \in Gpus : Worker(w[1], g) \in ready
                      /\ \A g \in Gpus : worker[Worker(3 - w[1], g)] \notin Alive
    BY DEF MeasuresAlone, Worker
  <2>1. w[1] \in {1, 2} /\ w[2] \in Gpus /\ w = Worker(w[1], w[2])
    BY WorkerIsPair
  <2>2. \A g \in Gpus : Worker(w[1], g) \in ready BY <2>1 DEF NumaInv, Barrier
  <2>3. CASE w[1] = 1
    <3>1. round = 1
      BY <2>1, <2>3 DEF NumaInv, NumaTypeOK, FirstIsComplete, Complete
    <3>2. \A g \in Gpus : worker[Worker(2, g)] = "none"
      BY <3>1 DEF NumaInv, NotYetStarted
    <3>3. QED BY <2>2, <2>3, <3>2 DEF Alive
  <2>4. CASE w[1] = 2
    <3>1. round = 2 BY <2>1, <2>4 DEF NumaInv, NumaTypeOK, NotYetStarted
    <3>2. \A g \in Gpus : worker[Worker(1, g)] = "zero"
      BY <3>1 DEF NumaInv, FirstIsComplete, Complete
    <3>3. QED BY <2>2, <2>4, <3>2 DEF Alive
  <2>5. QED BY <2>1, <2>3, <2>4
<1>2. QED BY <1>1, NumaInvariance, PTL

\* results.json is written only from rows of workers that were released
\* together and all ended well.
THEOREM ResultsAreComplete == NumaSpec => []ReportIsComplete
<1>1. NumaInv => ReportIsComplete
  BY WorkerIsPair DEF NumaInv, Reported, Complete, ReportIsComplete
<1>2. QED BY <1>1, NumaInvariance, PTL

=============================================================================
