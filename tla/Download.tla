------------------------------ MODULE Download ------------------------------
(***************************************************************************)
(* Downloading the checkpoint: scripts/download/download_model.sh run as   *)
(* often as it takes, interrupted anywhere, and verify_shards.py run       *)
(* beside or after it.                                                     *)
(*                                                                         *)
(* What a file holds is all that is kept of it.  aria2c is external: it    *)
(* writes the segments of a file in any order, keeps a control file beside *)
(* it from the first byte to the last, and with -c takes up whatever is    *)
(* there.  ModelScope's own client leaves contiguous prefixes behind.  The *)
(* order of the files in the script's two loops is left open.              *)
(***************************************************************************)
EXTENDS Naturals

CONSTANTS
    Small,          \* configuration, tokenizer, index
    Index,          \* model.safetensors.index.json
    Shards,         \* the shards the index names
    Diverging,      \* files of which the two mirrors serve different uploads
    Listed,         \* files whose SHA-256 ModelScope lists
    NoFile

File == Small \union Shards

ASSUME FileAssumption ==
    /\ Index \in Small
    /\ Small \intersect Shards = {}
    /\ NoFile \notin File
    /\ Diverging \subseteq File \ {Index}
    /\ Listed \subseteq File

\* Nothing, the first bytes, some segments, all of them but one in the
\* middle, every byte but of two uploads, the file.
Content == {"none", "prefix", "holes", "sparse", "mixed", "whole"}

FullLength == {"sparse", "mixed", "whole"}

VARIABLES
    data,       \* what each file holds
    control,    \* files with an .aria2 file beside them
    partial,    \* what <file>.incomplete holds
    step,       \* where the script is, "idle" when none runs
    todo,       \* files its current loop has yet to visit
    target,     \* the file aria2 is called for
    aria,       \* "none", "running", "waiting" to be called again
    verified    \* what the last verify_shards.py said

downloadVars == <<data, control, partial, step, todo, target, aria, verified>>

DownloadInit ==
    /\ data = [f \in File |-> "none"]
    /\ control = {}
    /\ partial = [f \in File |-> "none"]
    /\ step = "idle"
    /\ todo = {}
    /\ target = NoFile
    /\ aria = "none"
    /\ verified = "never"

-----------------------------------------------------------------------------
(***************************************************************************)
(* download_model.sh                                                       *)
(***************************************************************************)
Run ==
    /\ step \in {"idle", "done"}
    /\ step' = "small"
    /\ todo' = Small
    /\ UNCHANGED <<data, control, partial, target, aria, verified>>

\* [ -s "$f" ]: a file that is not empty is not fetched.
SkipSmall(f) ==
    /\ step = "small" /\ aria = "none"
    /\ f \in todo
    /\ data[f] # "none"
    /\ todo' = todo \ {f}
    /\ UNCHANGED <<data, control, partial, step, target, aria, verified>>

FetchSmall(f) ==
    /\ step = "small" /\ aria = "none"
    /\ f \in todo
    /\ data[f] = "none"
    /\ target' = f
    /\ aria' = "running"
    /\ UNCHANGED <<data, control, partial, step, todo, verified>>

SmallDone ==
    /\ step = "small"
    /\ todo = {}
    /\ step' = "rename"
    /\ UNCHANGED <<data, control, partial, todo, target, aria, verified>>

\* Mutant: mv without -n.
RenameOver(f) ==
    /\ step = "rename"
    /\ partial[f] # "none"
    /\ data' = [data EXCEPT ![f] = partial[f]]
    /\ partial' = [partial EXCEPT ![f] = "none"]
    /\ UNCHANGED <<control, step, todo, target, aria, verified>>

\* mv -n: a file that is already there stays, and so does the partial one.
Rename(f) ==
    /\ step = "rename"
    /\ partial[f] # "none"
    /\ data[f] = "none"
    /\ data' = [data EXCEPT ![f] = partial[f]]
    /\ partial' = [partial EXCEPT ![f] = "none"]
    /\ UNCHANGED <<control, step, todo, target, aria, verified>>

\* Some releases of mv -n fail when the file is there: set -e.
RenameRefused(f) ==
    /\ step = "rename"
    /\ partial[f] # "none"
    /\ data[f] # "none"
    /\ step' = "idle"
    /\ UNCHANGED <<data, control, partial, todo, target, aria, verified>>

RenameDone ==
    /\ step = "rename"
    /\ \A f \in File : partial[f] # "none" => data[f] # "none"
    /\ step' = "list"
    /\ UNCHANGED <<data, control, partial, todo, target, aria, verified>>

\* Mutant: the control file is not looked for.
IsCompleteBySize(f) == data[f] \in FullLength

\* The shard is there, without a control file, as long as its header says.
IsComplete(f) == f \notin control /\ data[f] \in FullLength

Readable(f) == data[f] = "whole"

\* dsv41_missing.txt
ListMissing ==
    /\ step = "list"
    /\ Readable(Index)
    /\ todo' = { f \in Shards : ~IsComplete(f) }
    /\ step' = "shards"
    /\ UNCHANGED <<data, control, partial, target, aria, verified>>

\* json.load raises, set -e.
IndexUnreadable ==
    /\ step = "list"
    /\ ~Readable(Index)
    /\ step' = "idle"
    /\ UNCHANGED <<data, control, partial, todo, target, aria, verified>>

FetchShard(f) ==
    /\ step = "shards" /\ aria = "none"
    /\ f \in todo
    /\ target' = f
    /\ aria' = "running"
    /\ UNCHANGED <<data, control, partial, step, todo, verified>>

AllFetched ==
    /\ step = "shards"
    /\ todo = {}
    /\ step' = "done"
    /\ UNCHANGED <<data, control, partial, todo, target, aria, verified>>

\* ^C, a lost terminal, a reboot.
Interrupt ==
    /\ step \notin {"idle", "done"}
    /\ step' = "idle"
    /\ target' = NoFile
    /\ aria' = "none"
    /\ UNCHANGED <<data, control, partial, todo, verified>>

-----------------------------------------------------------------------------
(***************************************************************************)
(* fetch(): until aria2c -c ...; do sleep 15; done                         *)
(***************************************************************************)
\* What a file may hold once more of it has been written.
Ahead(content) ==
    IF content \in {"none", "prefix"} THEN {"prefix", "holes", "sparse"}
                                      ELSE {"holes", "sparse"}

WriteSegments ==
    /\ aria = "running"
    /\ \E content \in Ahead(data[target]) : data' = [data EXCEPT ![target] = content]
    /\ control' = control \union {target}
    /\ UNCHANGED <<partial, step, todo, target, aria, verified>>

\* Segments of two uploads leave a file of the right length.  The script
\* goes on with its next file.
TransferEnds ==
    /\ aria = "running"
    /\ \E content \in {"whole"} \union (IF target \in Diverging THEN {"mixed"} ELSE {}) :
         data' = [data EXCEPT ![target] = content]
    /\ control' = control \ {target}
    /\ todo' = todo \ {target}
    /\ target' = NoFile
    /\ aria' = "none"
    /\ UNCHANGED <<partial, step, verified>>

TransferFails ==
    /\ aria = "running"
    /\ aria' = "waiting"
    /\ UNCHANGED <<data, control, partial, step, todo, target, verified>>

Retry ==
    /\ aria = "waiting"
    /\ aria' = "running"
    /\ UNCHANGED <<data, control, partial, step, todo, target, verified>>

Fetch == WriteSegments \/ TransferEnds \/ TransferFails \/ Retry

-----------------------------------------------------------------------------
(***************************************************************************)
(* ModelScope's client and verify_shards.py                                *)
(***************************************************************************)
\* It is not run beside the script; a prefix may be all of the file.
ModelScopeStops(f) ==
    /\ step = "idle"
    /\ partial[f] = "none"
    /\ \E content \in {"prefix", "whole"} : partial' = [partial EXCEPT ![f] = content]
    /\ UNCHANGED <<data, control, step, todo, target, aria, verified>>

\* Mutant: an unfinished download is told by its length alone.
PassesByLength(f) == data[f] \in FullLength

\* It exists, without a control file, and header_ok.
Passes(f) == f \notin control /\ data[f] \in FullLength

\* status: OK or NO-REF, not MISMATCH.
HashAccepted(f) == f \in Listed => data[f] = "whole"

\* Exit status 0 of verify_shards.py.
Accepts(sha) ==
    /\ Readable(Index)
    /\ \A f \in Shards : Passes(f)
    /\ sha => \A f \in Shards : HashAccepted(f)

Verify(sha) ==
    /\ verified' = IF ~Accepts(sha) THEN "bad" ELSE IF sha THEN "sha256" ELSE "structure"
    /\ UNCHANGED <<data, control, partial, step, todo, target, aria>>

-----------------------------------------------------------------------------
Script ==
    \/ Run
    \/ \E f \in Small : SkipSmall(f)
    \/ \E f \in Small : FetchSmall(f)
    \/ SmallDone
    \/ \E f \in File : Rename(f)
    \/ \E f \in File : RenameRefused(f)
    \/ RenameDone
    \/ ListMissing
    \/ IndexUnreadable
    \/ \E f \in Shards : FetchShard(f)
    \/ AllFetched
    \/ Interrupt

DownloadNext ==
    \/ Script
    \/ Fetch
    \/ \E f \in File : ModelScopeStops(f)
    \/ \E sha \in BOOLEAN : Verify(sha)

DownloadSpec == DownloadInit /\ [][DownloadNext]_downloadVars

-----------------------------------------------------------------------------
(***************************************************************************)
(* Properties                                                              *)
(***************************************************************************)
DownloadTypeOK ==
    /\ data \in [File -> Content]
    /\ control \subseteq File
    /\ partial \in [File -> {"none", "prefix", "whole"}]
    /\ step \in {"idle", "small", "rename", "list", "shards", "done"}
    /\ todo \subseteq File
    /\ target \in File \union {NoFile}
    /\ aria \in {"none", "running", "waiting"}
    /\ verified \in {"never", "bad", "structure", "sha256"}

HasEveryByte(f) == data[f] \in {"mixed", "whole"}

\* "all shards present": when the script ends, every shard would pass
\* verify_shards.py, however often it was interrupted and whatever it found.
\* A small file it skipped unfinished still has its control file.
EndedMeansPresent ==
    step = "done" =>
        /\ \A f \in Shards : Passes(f)
        /\ \A f \in Small : HasEveryByte(f) \/ f \in control

\* A directory that verified has every byte of every shard, of one upload
\* where hashes were compared and known, and keeps them through later runs.
VerifiedStaysGood ==
    /\ verified \in {"structure", "sha256"} => \A f \in Shards : HasEveryByte(f)
    /\ verified = "sha256" => \A f \in Shards \intersect Listed : data[f] = "whole"

\* Complete files are skipped: nothing a later run, a transfer or another
\* client's leftover does changes a finished file.
CompleteIsSkipped ==
    [][\A f \in File : HasEveryByte(f) => data'[f] = data[f]]_downloadVars

=============================================================================
