----------------------------- MODULE PatchTool -----------------------------
(***************************************************************************)
(* upstream/{vllm,flashinfer}/apply_patch.py: string edits applied to an   *)
(* installed package, file by file, with --revert and --check.             *)
(*                                                                         *)
(* A file's text is abstracted to what the edits can tell apart: for each  *)
(* edit site, how many times the text the script calls old and the text it *)
(* calls new occur, and whether its end is missing.  Most edits replace    *)
(* disjoint texts.  A "cut" edit's new text is the beginning of its old    *)
(* text (FlashInfer's removal of the pbs constant): new counts the         *)
(* beginnings, old how often the line to remove follows one.               *)
(* The two scripts differ in which text they look for first.               *)
(***************************************************************************)
EXTENDS Integers, Sequences, FiniteSets

CONSTANTS
    NumFiles,       \* files of the EDITS table, in order
    Kind,           \* per site: "replace" or "cut"
    Scripts,        \* edits: per file, the sites in table order (one may recur)
                    \* oldFirst: FlashInfer looks for old first, vLLM for new
                    \* modes: the flags it is invoked with
    NoText,         \* no file, or no .orig
    MaxRuns,        \* bound: invocations of the script
    MaxCrashes,     \* bound: interrupted invocations
    MaxUpgrades     \* bound: reinstallations of the package

File == 1..NumFiles

ASSUME TableAssumption ==
    /\ NumFiles \in Nat \ {0}
    /\ Kind \in [DOMAIN Kind -> {"replace", "cut"}]
    /\ \A s \in Scripts :
         /\ s.oldFirst \in BOOLEAN
         /\ s.modes \subseteq {"apply", "revert", "check"}
         /\ s.edits \in [File -> Seq(DOMAIN Kind)]

\* What is no text is not taken for one.
ASSUME TextAssumption ==
    \A s \in SUBSET DOMAIN Kind :
        NoText \notin [at : [s -> [old : Nat, new : Nat]], cut : BOOLEAN]

ASSUME BoundAssumption == {MaxRuns, MaxCrashes, MaxUpgrades} \subseteq Nat

VARIABLES
    script,         \* the script of this package
    text,           \* the package's files
    orig,           \* their .orig backups
    phase,          \* where the running invocation is
    mode,           \* "apply", "revert" or "check"
    file, edit,     \* loop positions
    out,            \* the edited text of the current file
    rc,             \* exit status so far
    count           \* how many runs, crashes and upgrades there have been

Edits(f) == script.edits[f]

Site(f) == { Edits(f)[i] : i \in 1..Len(Edits(f)) }

\* How often site k occurs in file f as shipped.
Shipped(f, k) == Cardinality({ i \in 1..Len(Edits(f)) : Edits(f)[i] = k })

Stock(f) ==
    [k \in Site(f) |->
        [old |-> Shipped(f, k), new |-> IF Kind[k] = "cut" THEN Shipped(f, k) ELSE 0]]

Patched(f) == [k \in Site(f) |-> [old |-> 0, new |-> Shipped(f, k)]]

Counts(f) == [Site(f) -> [old : Nat, new : Nat]]

\* A file: what occurs in it, and whether it was cut short.
Text(f) == [at : Counts(f), cut : BOOLEAN] \union {NoText}

Whole(t) == t # NoText /\ ~t.cut

Intact(a) == [at |-> a, cut |-> FALSE]

TypeOK ==
    /\ script \in Scripts
    /\ \A f \in File : text[f] \in Text(f) /\ orig[f] \in Text(f)
    /\ phase \in {"idle", "open", "edit", "backup", "backed", "write", "ended"}
    /\ mode \in {"apply", "revert", "check"}
    /\ file \in File
    /\ edit \in 1..(Len(Edits(file)) + 1) \/ phase # "edit"
    /\ \E f \in File : out \in Text(f)
    /\ rc \in {0, 1}
    /\ count \in [runs : 0..MaxRuns, crashes : 0..MaxCrashes,
                  upgrades : 0..MaxUpgrades]

vars == <<script, text, orig, phase, mode, file, edit, out, rc, count>>

disk == <<text, orig>>

Init ==
    /\ script \in Scripts
    /\ text = [f \in File |-> Intact(Stock(f))]
    /\ orig = [f \in File |-> NoText]
    /\ phase = "idle"
    /\ mode = "apply"
    /\ file = 1
    /\ edit = 1
    /\ out = NoText
    /\ rc = 0
    /\ count = [runs |-> 0, crashes |-> 0, upgrades |-> 0]

-----------------------------------------------------------------------------
(***************************************************************************)
(* One edit.  With --revert the pair is swapped.                           *)
(***************************************************************************)
\* Mutant: --revert does not swap the pair.
SideAsListed(which) == which

Side(which) == IF mode = "revert"
               THEN (IF which = "old" THEN "new" ELSE "old") ELSE which

\* Mutant: a cut edit's beginning is taken for either text.
OccursByAnchor(which, k) ==
    IF Kind[k] = "cut" THEN out.at[k].new > 0 ELSE out.at[k][Side(which)] > 0

\* `which in out`
Occurs(which, k) == out.at[k][Side(which)] > 0

\* out.replace(old, new, 1)
Replace(k) ==
    LET less == Side("old") more == Side("new") IN
    [out.at EXCEPT
        ![k][less] = IF Kind[k] = "cut" /\ less = "new" THEN @ ELSE @ - 1,
        ![k][more] = IF Kind[k] = "cut" /\ more = "new" THEN @ ELSE @ + 1]

Here == Edits(file)[edit]

Applies == Occurs("old", Here) /\ (script.oldFirst \/ ~Occurs("new", Here))

-----------------------------------------------------------------------------
(***************************************************************************)
(* An invocation                                                           *)
(***************************************************************************)
Start(m) ==
    /\ phase = "idle"
    /\ count.runs < MaxRuns
    /\ phase' = "open"
    /\ mode' = m
    /\ file' = 1
    /\ rc' = 0
    /\ count' = [count EXCEPT !.runs = @ + 1]
    /\ UNCHANGED <<script, disk, edit, out>>

NextFile ==
    /\ phase' = IF file = NumFiles THEN "ended" ELSE "open"
    /\ file' = IF file = NumFiles THEN file ELSE file + 1

MissingFile ==
    /\ phase = "open"
    /\ text[file] = NoText
    /\ rc' = 1
    /\ NextFile
    /\ UNCHANGED <<script, disk, mode, edit, out, count>>

ReadFile ==
    /\ phase = "open"
    /\ text[file] # NoText
    /\ out' = text[file]
    /\ edit' = 1
    /\ phase' = "edit"
    /\ UNCHANGED <<script, disk, mode, file, rc, count>>

InTable == phase = "edit" /\ edit <= Len(Edits(file))

ApplyEdit ==
    /\ InTable
    /\ Applies
    /\ out' = [out EXCEPT !.at = Replace(Here)]
    /\ edit' = edit + 1
    /\ UNCHANGED <<script, disk, phase, mode, file, rc, count>>

AlreadyDone ==
    /\ InTable
    /\ ~Applies
    /\ Occurs("new", Here)
    /\ edit' = edit + 1
    /\ UNCHANGED <<script, disk, phase, mode, file, out, rc, count>>

\* Mutant: a missing anchor is reported but not in the exit status.
AnchorNotFoundIgnored ==
    /\ InTable
    /\ ~Applies
    /\ ~Occurs("new", Here)
    /\ edit' = edit + 1
    /\ UNCHANGED <<script, disk, phase, mode, file, out, rc, count>>

AnchorNotFound ==
    /\ InTable
    /\ ~Applies
    /\ ~Occurs("new", Here)
    /\ rc' = 1
    /\ edit' = edit + 1
    /\ UNCHANGED <<script, disk, phase, mode, file, out, count>>

EditsDone == phase = "edit" /\ edit > Len(Edits(file))

\* --check, or nothing to write.
LeaveFile ==
    /\ EditsDone
    /\ mode = "check" \/ out = text[file]
    /\ NextFile
    /\ UNCHANGED <<script, disk, mode, edit, out, rc, count>>

\* write_text truncates the file before it fills it: two steps.
Emptied(f) ==
    [at |-> [k \in Site(f) |-> [old |-> 0, new |-> 0]], cut |-> TRUE]

OpenBackup ==
    /\ EditsDone
    /\ mode # "check" /\ out # text[file]
    /\ orig[file] = NoText
    /\ orig' = [orig EXCEPT ![file] = Emptied(file)]
    /\ phase' = "backup"
    /\ UNCHANGED <<script, text, mode, file, edit, out, rc, count>>

FillBackup ==
    /\ phase = "backup"
    /\ orig' = [orig EXCEPT ![file] = text[file]]
    /\ phase' = "backed"
    /\ UNCHANGED <<script, text, mode, file, edit, out, rc, count>>

\* Mutant: the file may be written before its backup.
OpenFileFirst ==
    /\ \/ phase = "backed"
       \/ EditsDone /\ mode # "check" /\ out # text[file]
    /\ text' = [text EXCEPT ![file] = Emptied(file)]
    /\ phase' = "write"
    /\ UNCHANGED <<script, orig, mode, file, edit, out, rc, count>>

OpenFile ==
    /\ \/ phase = "backed"
       \/ /\ EditsDone
          /\ mode # "check" /\ out # text[file]
          /\ orig[file] # NoText
    /\ text' = [text EXCEPT ![file] = Emptied(file)]
    /\ phase' = "write"
    /\ UNCHANGED <<script, orig, mode, file, edit, out, rc, count>>

FillFile ==
    /\ phase = "write"
    /\ text' = [text EXCEPT ![file] = out]
    /\ NextFile
    /\ UNCHANGED <<script, orig, mode, edit, out, rc, count>>

Report ==
    /\ phase = "ended"
    /\ phase' = "idle"
    /\ UNCHANGED <<script, disk, mode, file, edit, out, rc, count>>

-----------------------------------------------------------------------------
(***************************************************************************)
(* What happens around it                                                  *)
(***************************************************************************)
\* What may be left of n occurrences at site k of a file whose end is lost.
Fewer(k, n) ==
    { m \in [old : 0..n.old, new : 0..n.new] :
        Kind[k] = "cut" /\ m.old > 0 => m.new > 0 }

\* A beginning of text t: any of the sites may lie behind its end, or none.
CutShort(t) ==
    { [at |-> a, cut |-> TRUE] :
        a \in { b \in [DOMAIN t.at -> UNION { Fewer(k, t.at[k]) : k \in DOMAIN t.at }] :
                \A k \in DOMAIN t.at : b[k] \in Fewer(k, t.at[k]) } }

\* The invocation is killed, or a full disk ends it: what it was writing keeps
\* the beginning that reached the disk.
Crash ==
    /\ phase \notin {"idle", "ended"}
    /\ count.crashes < MaxCrashes
    /\ count' = [count EXCEPT !.crashes = @ + 1]
    /\ phase' = "idle"
    /\ rc' = 1
    /\ text' \in IF phase = "write"
                THEN { [text EXCEPT ![file] = t] : t \in CutShort(out) }
                ELSE {text}
    /\ orig' \in IF phase = "backup"
                THEN { [orig EXCEPT ![file] = t] : t \in CutShort(text[file]) }
                ELSE {orig}
    /\ UNCHANGED <<script, mode, file, edit, out>>

\* A reinstalled package replaces a file: as shipped, with one occurrence of
\* an anchor reworded, or without the file.  A .orig is left where it was.
Reworded(f) ==
    UNION { { [Stock(f) EXCEPT ![k] = n] :
                n \in { m \in Fewer(k, Stock(f)[k]) : m.old = Shipped(f, k) - 1 } } :
            k \in Site(f) }

Upgrade(f) ==
    /\ phase = "idle"
    /\ count.upgrades < MaxUpgrades
    /\ count' = [count EXCEPT !.upgrades = @ + 1]
    /\ \E t \in {NoText} \union { Intact(a) : a \in {Stock(f)} \union Reworded(f) } :
          text' = [text EXCEPT ![f] = t]
    /\ UNCHANGED <<script, orig, phase, mode, file, edit, out, rc>>

Invocation ==
    \/ \E m \in script.modes : Start(m)
    \/ MissingFile
    \/ ReadFile
    \/ ApplyEdit
    \/ AlreadyDone
    \/ AnchorNotFound
    \/ LeaveFile
    \/ OpenBackup
    \/ FillBackup
    \/ OpenFile
    \/ FillFile
    \/ Report

Next ==
    \/ Invocation
    \/ Crash
    \/ \E f \in File : Upgrade(f)

Spec == Init /\ [][Next]_vars

-----------------------------------------------------------------------------
(***************************************************************************)
(* Properties                                                              *)
(***************************************************************************)
Done(f, m) ==
    LET gone == IF m = "apply" THEN "old" ELSE "new"
        here == IF m = "apply" THEN "new" ELSE "old" IN
    /\ text[f] # NoText
    /\ \A k \in Site(f) :
        /\ text[f].at[k][here] > 0
        /\ text[f].at[k][gone] = 0 \/ (Kind[k] = "cut" /\ gone = "new")
    /\ text[f].cut => count.crashes > 0

\* Exit status 0 can be trusted as far as the edits go: whatever was
\* interrupted, reinstalled or reverted before, every file is there, with the
\* new and no stock text at every site after an apply, and the reverse after a
\* --revert.  It does not tell a file that an earlier crash cut behind its last
\* site from a whole one.
ZeroExitMeansDone ==
    phase = "ended" /\ mode \in {"apply", "revert"} /\ rc = 0 =>
        \A f \in File : Done(f, mode)

\* Applying where every edit is in changes nothing, before and after a crash.
ApplyIdempotent ==
    phase = "edit" /\ mode = "apply" /\ text[file].at = Patched(file) =>
        out = text[file]

\* Reverting a file that is as shipped changes nothing: upstream/README.md,
\* "Both scripts are idempotent, ... and support --check and --revert".
RevertIdempotent ==
    phase = "edit" /\ mode = "revert" /\ text[file].at = Stock(file) =>
        out = text[file]

\* A single killed invocation never costs a file: if it was cut short while it
\* was written, a whole earlier text of it is in .orig, whatever later runs
\* made of what was left.
OneCrashIsRecoverable ==
    phase = "idle" /\ count.crashes <= 1 =>
        \A f \in File : text[f] # NoText /\ text[f].cut => Whole(orig[f])

=============================================================================
