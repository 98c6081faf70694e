----------------------------- MODULE Deployment -----------------------------
(***************************************************************************)
(* Getting a patched stack up: scripts/env/setup.sh step by step, what     *)
(* deploy/preflight.py sees of the patches, the gate in deploy/serve.sh,   *)
(* and the FlashInfer kernels the launched server ends up with.  Launches  *)
(* (by hand, or by systemd after a failure) happen between any two steps   *)
(* of setup; setup can stop anywhere.                                      *)
(*                                                                         *)
(* An edit is a unit a patch script applies or not.  What preflight looks  *)
(* for is a constant: new text of vLLM's files, where anything else stops  *)
(* a launch, but of FlashInfer's one stock text, which it refuses, and new *)
(* texts, which it asks for only where the file is there.  The packages    *)
(* and FlashInfer's JIT build are external.                                *)
(***************************************************************************)
EXTENDS Naturals, FiniteSets

CONSTANTS
    VllmEdits, FlashInferEdits,
    Marked,         \* edits of vLLM's whose new text preflight asks for
    Refused,        \* FI-001: preflight refuses their stock text
    Required,       \* FI-004: preflight asks for their new text
    Wide,           \* FI-003: asked for only where images are served
    Exported        \* may FLASHINFER_WORKSPACE_BASE be exported to both?

ASSUME EditAssumption ==
    /\ Marked \subseteq VllmEdits
    /\ Refused \union Required \union {Wide} \subseteq FlashInferEdits
    /\ Exported \subseteq BOOLEAN

VARIABLES
    exported,
    vllm,               \* edits of vLLM's whose new text is in place
    flashinfer,         \* what stands at the site of each edit of FlashInfer's
    importable,         \* can FlashInfer be imported?
    shadow,             \* prebuilt kernels in flashinfer_jit_cache
    cache,              \* JIT builds, per workspace
    setup,              \* next step of setup.sh, or how it ended
    reached,            \* what setup.sh passes over: did its removal of the
                        \* build succeed, did preflight come to a verdict
    server,
    loaded              \* what the server's kernels were built from

vars == <<exported, vllm, flashinfer, importable, shadow, cache, setup, reached,
          server, loaded>>

package == <<flashinfer, importable>>
stack == <<vllm, package, shadow>>
launch == <<server, loaded>>

-----------------------------------------------------------------------------
\* setup.sh falls back on $HOME, serve.sh on /data/cache/flashinfer.
SetupWorkspace == IF exported THEN "common" ELSE "home"
LaunchWorkspace == IF exported THEN "common" ELSE "data"

\* The text of an edit: as shipped, replaced, lost in a file that a kill cut
\* short, or in a file this release does not have.
Sources == [FlashInferEdits -> {"stock", "edited", "cut", "missing"}]

Shipped == [FlashInferEdits -> {"stock", "missing"}]

AsShipped == [e \in FlashInferEdits |-> "stock"]

NoBuild == [built |-> FALSE, sources |-> AsShipped]

Build(sources) == [built |-> TRUE, sources |-> sources]

NoKernels == [sources |-> AsShipped, stale |-> FALSE, settled |-> FALSE, checked |-> FALSE]

Down == server' = "down" /\ loaded' = NoKernels

\* What preflight has nothing against in FlashInfer's sources.
Accepted(sources) ==
    /\ \A e \in Refused : sources[e] # "stock"
    /\ \A e \in Required : sources[e] \in {"edited", "missing"}

\* Exit status 1 of preflight.  Only a warning: a FlashInfer that cannot be
\* imported, unless images are served.
Blocks(v41, textOnly) ==
    /\ v41
    /\ \/ ~(Marked \subseteq vllm)
       \/ shadow
       \/ importable /\ ~Accepted(flashinfer)
       \/ ~textOnly /\ ~(importable /\ flashinfer[Wide] = "edited")

Init ==
    /\ exported \in Exported
    /\ vllm = {}
    /\ flashinfer \in Shipped
    /\ importable \in BOOLEAN
    /\ shadow = TRUE
    /\ cache = [w \in {"home", "data", "common"} |-> NoBuild]
    /\ setup = "due"
    /\ reached = [dropped |-> FALSE, verdict |-> FALSE]
    /\ server = "down"
    /\ loaded = NoKernels

-----------------------------------------------------------------------------
(***************************************************************************)
(* setup.sh                                                                *)
(***************************************************************************)
Running(step) == setup = step

\* A new environment, or the one there is (SKIP_INSTALL=1).
Install ==
    /\ setup \in {"due", "ok", "failed"}
    /\ setup' = "flashinfer"
    /\ reached' = [dropped |-> FALSE, verdict |-> FALSE]
    /\ \/ /\ vllm' = {} /\ shadow' = TRUE
          /\ flashinfer' \in Shipped /\ importable' \in BOOLEAN
       \/ UNCHANGED stack
    /\ UNCHANGED <<exported, cache, launch>>

\* A package upgraded by hand is as shipped; setup has not seen it.
Upgrade ==
    /\ setup \in {"due", "ok", "failed"}
    /\ setup' = "due"
    /\ \/ vllm' = {} /\ UNCHANGED <<package, shadow>>
       \/ /\ flashinfer' \in Shipped /\ importable' \in BOOLEAN
          /\ UNCHANGED <<vllm, shadow>>
       \/ shadow' = TRUE /\ UNCHANGED <<vllm, package>>
    /\ UNCHANGED <<exported, cache, reached, launch>>

\* What the patch script can make of a site, killed while it writes or not.
MayBecome(site) ==
    CASE site = "stock"   -> {"stock", "edited", "cut"}
      [] site = "edited"  -> {"edited", "cut"}
      [] OTHER            -> {site}

\* Whatever the script's exit status, setup goes on; a FlashInfer that cannot
\* be imported is skipped.
PatchFlashInfer ==
    /\ Running("flashinfer")
    /\ \/ /\ importable
          /\ flashinfer' \in Sources
          /\ \A e \in FlashInferEdits : flashinfer'[e] \in MayBecome(flashinfer[e])
       \/ ~importable /\ UNCHANGED flashinfer
    /\ setup' = "drop"
    /\ UNCHANGED <<exported, vllm, importable, shadow, cache, reached, launch>>

\* Mutant: the pattern that is removed matches nothing.
DropNothing ==
    /\ Running("drop")
    /\ reached' = [reached EXCEPT !.dropped = TRUE]
    /\ setup' = "vllm"
    /\ UNCHANGED <<exported, stack, cache, launch>>

\* A compilation that is under way there loses its directory.  The status of
\* rm is dropped: a build setup's user may not remove stays.
DropBuild ==
    /\ Running("drop")
    /\ setup' = "vllm"
    /\ \/ /\ cache' = [cache EXCEPT ![SetupWorkspace] = NoBuild]
          /\ reached' = [reached EXCEPT !.dropped = TRUE]
          /\ IF server = "compiling" /\ SetupWorkspace = LaunchWorkspace
             THEN Down
             ELSE UNCHANGED launch
       \/ UNCHANGED <<cache, reached, launch>>
    /\ UNCHANGED <<exported, stack>>

\* Mutant: a failure is passed over, as FlashInfer's is.
PatchVllmRegardless ==
    /\ Running("vllm")
    /\ vllm' \in SUBSET VllmEdits
    /\ setup' = "shadow"
    /\ UNCHANGED <<exported, package, shadow, cache, reached, launch>>

\* Exit status 0 means that no edit's new text is missing (PatchTool); a
\* script that is killed may have lost some that were there.
PatchVllm ==
    /\ Running("vllm")
    /\ vllm' \in SUBSET VllmEdits
    /\ setup' = IF vllm' = VllmEdits THEN "shadow" ELSE "failed"
    /\ UNCHANGED <<exported, package, shadow, cache, reached, launch>>

ClearShadow ==
    /\ Running("shadow")
    /\ shadow' = FALSE
    /\ setup' = "preflight"
    /\ UNCHANGED <<exported, vllm, package, cache, reached, launch>>

\* Run with --v41 --text-only; other checks of preflight may block too.  Any
\* status but 1 ends setup well, also that of a preflight that was killed.
SetupPreflight ==
    /\ Running("preflight")
    /\ \/ /\ ~Blocks(TRUE, TRUE)
          /\ setup' = "ok"
          /\ reached' = [reached EXCEPT !.verdict = TRUE]
       \/ setup' \in {"ok", "failed"} /\ UNCHANGED reached
    /\ UNCHANGED <<exported, stack, cache, launch>>

Interrupted ==
    /\ setup \notin {"due", "ok", "failed"}
    /\ setup' = "failed"
    /\ UNCHANGED <<exported, stack, cache, reached, launch>>

-----------------------------------------------------------------------------
(***************************************************************************)
(* serve.sh                                                                *)
(***************************************************************************)
\* v41 is decided by the preset's tokenizer mode.
CheckAndLaunch(v41, textOnly) ==
    /\ server = "down"
    /\ ~Blocks(v41, textOnly)
    /\ server' = "starting"
    /\ UNCHANGED <<exported, stack, cache, setup, reached, loaded>>

\* SKIP_PREFLIGHT=1, or a preflight that was killed or could not be run: only
\* status 1 stops a launch.
SkipPreflight ==
    /\ server = "down"
    /\ server' = "starting"
    /\ UNCHANGED <<exported, stack, cache, setup, reached, loaded>>

Serving(sources) ==
    /\ server' = "serving"
    /\ loaded' = [sources |-> sources,
                  stale   |-> sources # flashinfer,
                  settled |-> setup = "ok" /\ reached.dropped,
                  checked |-> reached.verdict]

\* The prebuilt module wins over any build.
LoadPrebuilt ==
    /\ server = "starting"
    /\ importable /\ shadow
    /\ Serving(AsShipped)
    /\ UNCHANGED <<exported, stack, cache, setup, reached>>

\* A build may be taken up as it is, however old (or Compile: ninja may notice).
LoadCached ==
    /\ server = "starting"
    /\ importable /\ ~shadow
    /\ cache[LaunchWorkspace].built
    /\ Serving(cache[LaunchWorkspace].sources)
    /\ UNCHANGED <<exported, stack, cache, setup, reached>>

\* Minutes pass between reading the sources and having the kernels.
Compile ==
    /\ server = "starting"
    /\ importable /\ ~shadow
    /\ server' = "compiling"
    /\ loaded' = [loaded EXCEPT !.sources = flashinfer]
    /\ UNCHANGED <<exported, stack, cache, setup, reached>>

Compiled ==
    /\ server = "compiling"
    /\ Serving(loaded.sources)
    /\ cache' = [cache EXCEPT ![LaunchWorkspace] = Build(loaded.sources)]
    /\ UNCHANGED <<exported, stack, setup, reached>>

\* Stopped, failed on the way, or dead: systemd or the operator may retry.
Exit ==
    /\ server # "down"
    /\ Down
    /\ UNCHANGED <<exported, stack, cache, setup, reached>>

Setup ==
    \/ Install
    \/ Upgrade
    \/ PatchFlashInfer
    \/ DropBuild
    \/ PatchVllm
    \/ ClearShadow
    \/ SetupPreflight
    \/ Interrupted

Serve ==
    \/ \E v41, textOnly \in BOOLEAN : CheckAndLaunch(v41, textOnly)
    \/ SkipPreflight
    \/ LoadPrebuilt
    \/ LoadCached
    \/ Compile
    \/ Compiled
    \/ Exit

Next == Setup \/ Serve

Spec == Init /\ [][Next]_vars

-----------------------------------------------------------------------------
(***************************************************************************)
(* Properties                                                              *)
(***************************************************************************)
TypeOK ==
    /\ exported \in BOOLEAN
    /\ vllm \subseteq VllmEdits
    /\ flashinfer \in Sources /\ importable \in BOOLEAN
    /\ shadow \in BOOLEAN
    /\ cache \in [{"home", "data", "common"} -> [built : BOOLEAN, sources : Sources]]
    /\ setup \in {"due", "flashinfer", "drop", "vllm", "shadow", "preflight", "ok", "failed"}
    /\ reached \in [dropped : BOOLEAN, verdict : BOOLEAN]
    /\ server \in {"down", "starting", "compiling", "serving"}
    /\ loaded \in [sources : Sources, stale : BOOLEAN, settled : BOOLEAN, checked : BOOLEAN]

\* When setup ends well every edit of vLLM's is in place, also where preflight
\* does not look for it, and no prebuilt module shadows the build; and if
\* preflight came to its verdict on a FlashInfer that can be imported, a patch
\* script that failed there and was passed over has been noticed.
SetupOkMeansPatched ==
    setup = "ok" =>
        /\ vllm = VllmEdits /\ ~shadow
        /\ reached.verdict /\ importable => Accepted(flashinfer)

\* What setup drops the build for: whatever was launched, compiled, upgraded
\* or set up again meanwhile, a server that loads its kernels after a setup
\* that ended well runs the sources as they are, if the removal did succeed in
\* the directory the launcher uses; and if preflight came to its verdict it
\* has nothing against those very kernels.
ServesPatchedSources ==
    server = "serving" /\ loaded.settled /\ SetupWorkspace = LaunchWorkspace =>
        /\ ~loaded.stale
        /\ loaded.checked => Accepted(loaded.sources)

\* When setup ends well and its removal succeeded, no build the launcher could
\* take up differs from the edited sources, also none that a server launched
\* during setup compiled.
SetupLeavesNoStaleBuild ==
    setup = "ok" /\ reached.dropped =>
        LET cached == cache[LaunchWorkspace] IN cached.built => cached.sources = flashinfer

=============================================================================
