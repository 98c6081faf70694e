-------------------------- MODULE PatchTool_proofs --------------------------
(***************************************************************************)
(* Proofs about the patch scripts, for any table of edits.                 *)
(***************************************************************************)
EXTENDS PatchTool, FiniteSetTheorems, TLAPS

Texts(f) == [at : Counts(f), cut : BOOLEAN]

Busy == {"edit", "backup", "backed", "write"}

IsFunctions ==
    /\ text = [f \in File |-> text[f]]
    /\ orig = [f \in File |-> orig[f]]

\* What is being edited is the text of the current file, cut short where that is.
Reading ==
    phase \in Busy =>
        /\ out \in Texts(file)
        /\ text[file] # NoText
        /\ phase # "write" => out.cut = text[file].cut

\* A file is opened for writing behind its backup.
Backing ==
    /\ phase = "backup" /\ count.crashes <= 1 => ~out.cut
    /\ phase = "backed" /\ count.crashes <= 1 => Whole(orig[file])
    /\ phase = "write" /\ count.crashes <= 1 /\ out.cut => Whole(orig[file])
    /\ phase \in {"backed", "write"} => orig[file] # NoText

\* Before the first crash only what is being written is cut short.
Unharmed ==
    count.crashes = 0 =>
        /\ phase \in Busy => ~out.cut
        /\ \A f \in File :
            /\ ~Whole(orig[f]) => orig[f] = NoText \/ (phase = "backup" /\ f = file)
            /\ ~Whole(text[f]) => text[f] = NoText \/ (phase = "write" /\ f = file)

\* After one crash a file that is cut short has a whole backup, unless it is
\* being written over a backup that the crash cut short.
Recoverable ==
    count.crashes <= 1 =>
        \A f \in File : text[f] # NoText /\ text[f].cut =>
            \/ Whole(orig[f])
            \/ phase = "write" /\ f = file /\ count.crashes = 1

IInv ==
    /\ TypeOK
    /\ IsFunctions
    /\ Reading
    /\ Backing
    /\ Unharmed
    /\ Recoverable

-----------------------------------------------------------------------------
(***************************************************************************)
(* Texts                                                                   *)
(***************************************************************************)
\* The sites of a file are edits of the table.
LEMMA SitesAreEdits ==
    ASSUME script \in Scripts, NEW f \in File
    PROVE  /\ Edits(f) \in Seq(DOMAIN Kind)
           /\ Len(Edits(f)) \in Nat
           /\ \A i \in 1..Len(Edits(f)) : Edits(f)[i] \in Site(f)
           /\ Site(f) \subseteq DOMAIN Kind
<1>1. Edits(f) \in Seq(DOMAIN Kind) BY TableAssumption DEF Edits
<1>2. Len(Edits(f)) \in Nat BY <1>1
<1>3. \A i \in 1..Len(Edits(f)) : Edits(f)[i] \in DOMAIN Kind BY <1>1
<1>4. QED BY <1>1, <1>2, <1>3 DEF Site

\* What is no text is no text of a file.
LEMMA CountsAreText ==
    ASSUME script \in Scripts, NEW f \in File, NEW t \in Texts(f)
    PROVE  t \in Text(f) /\ t # NoText /\ t.at \in Counts(f) /\ t.cut \in BOOLEAN
<1>1. Site(f) \in SUBSET DOMAIN Kind BY SitesAreEdits
<1>2. NoText \notin Texts(f) BY <1>1, TextAssumption DEF Texts, Counts
<1>3. QED BY <1>2 DEF Texts, Text

\* Every site is shipped at least once.
LEMMA ShippedIsPositive ==
    ASSUME script \in Scripts, NEW f \in File, NEW k \in Site(f)
    PROVE  Shipped(f, k) \in Nat \ {0}
<1> DEFINE Places(j) == { i \in 1..Len(Edits(f)) : Edits(f)[i] = j }
<1>1. IsFiniteSet(1..Len(Edits(f))) BY SitesAreEdits, FS_Interval
<1>2. IsFiniteSet(Places(k)) BY <1>1, FS_Subset
<1>3. Places(k) # {} BY DEF Site
<1>4. Cardinality(Places(k)) \in Nat BY <1>2, FS_CardinalityType
<1>5. Cardinality(Places(k)) # 0 BY <1>2, <1>3, FS_EmptySet
<1>6. QED BY <1>4, <1>5 DEF Shipped

\* What a package ships, and what a reworded release of it does, are texts.
LEMMA ReleasesAreTexts ==
    ASSUME script \in Scripts, NEW f \in File, NEW a \in {Stock(f)} \union Reworded(f)
    PROVE  /\ a \in Counts(f)
           /\ Intact(a) \in Texts(f) /\ Intact(a).at = a /\ Whole(Intact(a))
<1>1. \A k \in Site(f) : Shipped(f, k) \in Nat \ {0} BY ShippedIsPositive
<1>2. Stock(f) \in Counts(f) BY <1>1 DEF Stock, Counts
<1>3. ASSUME a \in Reworded(f) PROVE a \in Counts(f)
  <2>1. PICK k \in Site(f) : \E n \in Fewer(k, Stock(f)[k]) :
                                a = [Stock(f) EXCEPT ![k] = n]
    BY <1>3 DEF Reworded
  <2>2. PICK n \in Fewer(k, Stock(f)[k]) : a = [Stock(f) EXCEPT ![k] = n]
    BY <2>1
  <2>3. n \in [old : Nat, new : Nat]
    BY <1>2, <2>2 DEF Fewer, Counts
  <2>4. QED BY <1>2, <2>2, <2>3 DEF Counts
<1>4. a \in Counts(f) BY <1>2, <1>3
<1>5. Intact(a) \in Texts(f) /\ Intact(a).at = a /\ ~Intact(a).cut
  BY <1>4 DEF Intact, Texts
<1>6. QED BY <1>4, <1>5, CountsAreText DEF Whole

\* An emptied file, and what a crash leaves of one, are texts, and are cut.
LEMMA CutsAreTexts ==
    ASSUME script \in Scripts, NEW f \in File
    PROVE  /\ Emptied(f) \in Texts(f) /\ Emptied(f).cut
           /\ \A t \in Texts(f) : \A c \in CutShort(t) : c \in Texts(f) /\ c.cut
<1>1. Emptied(f) \in Texts(f) /\ Emptied(f).cut BY DEF Emptied, Texts, Counts
<1>2. ASSUME NEW t \in Texts(f), NEW c \in CutShort(t)
      PROVE  c \in Texts(f) /\ c.cut
  <2>1. t.at \in Counts(f) /\ DOMAIN t.at = Site(f) BY DEF Texts, Counts
  <2>2. PICK a \in [Site(f) -> UNION { Fewer(k, t.at[k]) : k \in Site(f) }] :
           c = [at |-> a, cut |-> TRUE] /\ \A k \in Site(f) : a[k] \in Fewer(k, t.at[k])
    BY <2>1 DEF CutShort
  <2>3. \A k \in Site(f) : a[k] \in [old : Nat, new : Nat]
    BY <2>1, <2>2 DEF Fewer, Counts
  <2>4. a \in Counts(f) BY <2>2, <2>3 DEF Counts
  <2>5. QED BY <2>2, <2>4 DEF Texts
<1>3. QED BY <1>1, <1>2

\* Replacing one occurrence of a text that occurs leaves a text.
LEMMA ReplaceIsText ==
    ASSUME script \in Scripts, file \in File, out.at \in Counts(file),
           mode \in {"apply", "revert", "check"},
           NEW k \in Site(file), Occurs("old", k)
    PROVE  Replace(k) \in Counts(file)
<1>1. out.at[k] \in [old : Nat, new : Nat] BY DEF Counts
<1>3. CASE mode = "revert"
  <2>1. Side("old") = "new" /\ Side("new") = "old" BY <1>3 DEF Side
  <2>2. out.at[k].new > 0 BY <2>1 DEF Occurs
  <2>3. QED BY <1>1, <2>1, <2>2 DEF Replace, Counts
<1>4. CASE mode # "revert"
  <2>1. Side("old") = "old" /\ Side("new") = "new" BY <1>4 DEF Side
  <2>2. out.at[k].old > 0 BY <2>1 DEF Occurs
  <2>3. QED BY <1>1, <2>1, <2>2 DEF Replace, Counts
<1>5. QED BY <1>3, <1>4

\* One edit leaves a text as whole or cut as it was.
LEMMA EditIsText ==
    ASSUME script \in Scripts, file \in File, out \in Texts(file),
           mode \in {"apply", "revert", "check"},
           NEW k \in Site(file), Occurs("old", k),
           NEW d, d = [out EXCEPT !.at = Replace(k)]
    PROVE  d \in Texts(file) /\ d.at = Replace(k) /\ d.cut = out.cut
<1>1. out.at \in Counts(file) BY DEF Texts
<1>2. Replace(k) \in Counts(file) BY <1>1, ReplaceIsText
<1>3. QED BY <1>2 DEF Texts

-----------------------------------------------------------------------------
(***************************************************************************)
(* The invariant                                                           *)
(***************************************************************************)
\* The script of a package does not change, nor do the sites it edits.
LEMMA SameTable ==
    ASSUME [Next]_vars
    PROVE  /\ script' = script
           /\ \A f : /\ Text(f)' = Text(f) /\ Texts(f)' = Texts(f)
                  /\ Edits(f)' = Edits(f)
<1>1. script' = script
  BY DEF Next, Invocation, vars, disk, Start, MissingFile, ReadFile,
         ApplyEdit, AlreadyDone, AnchorNotFound, LeaveFile, OpenBackup,
         FillBackup, OpenFile, FillFile, Report, Crash, Upgrade
<1>2. \A f : Edits(f)' = Edits(f) BY <1>1 DEF Edits
<1>3. \A f : Site(f)' = Site(f) BY <1>2 DEF Site
<1>4. QED BY <1>1, <1>2, <1>3 DEF Text, Texts, Counts

\* A package starts as shipped, without backups.
LEMMA Starts == Init => IInv
<1> SUFFICES ASSUME Init PROVE IInv OBVIOUS
<1>1. script \in Scripts BY DEF Init
<1>2. \A f \in File : /\ Intact(Stock(f)) \in Text(f)
                       /\ Whole(Intact(Stock(f))) /\ ~Intact(Stock(f)).cut
  BY <1>1, ReleasesAreTexts, CountsAreText DEF Whole
<1>3. \A f \in File : NoText \in Text(f) BY DEF Text
<1>4. 1 \in File BY TableAssumption DEF File
<1>5. {0} \subseteq 0..MaxRuns \intersect 0..MaxCrashes \intersect 0..MaxUpgrades
  BY BoundAssumption
<1>6. TypeOK BY <1>1, <1>2, <1>3, <1>4, <1>5 DEF Init, TypeOK
<1>7. IsFunctions BY DEF Init, IsFunctions
<1>8. Reading /\ Backing BY DEF Init, Reading, Backing, Busy
<1>9. Unharmed BY <1>2 DEF Init, Unharmed, Busy
<1>10. Recoverable BY <1>2 DEF Init, Recoverable, Whole
<1>11. QED BY <1>6, <1>7, <1>8, <1>9, <1>10 DEF IInv

\* Every step keeps the invariant: one part of the proof per action.
LEMMA Inductive == IInv /\ [Next]_vars => IInv'
<1> SUFFICES ASSUME IInv, [Next]_vars PROVE IInv' OBVIOUS
<1> USE DEF IInv
<1>s. /\ script' = script
      /\ \A f : /\ Text(f)' = Text(f) /\ Texts(f)' = Texts(f)
                /\ Edits(f)' = Edits(f)
  BY SameTable
<1>f. NumFiles \in Nat \ {0} /\ File = 1..NumFiles
  BY TableAssumption DEF File
<1>b. MaxRuns \in Nat /\ MaxCrashes \in Nat /\ MaxUpgrades \in Nat
  BY BoundAssumption
<1>l. \A f \in File : Len(Edits(f)) \in Nat BY SitesAreEdits DEF TypeOK
<1>t. \A f \in File : Texts(f) \subseteq Text(f) /\ NoText \in Text(f)
  BY DEF Text, Texts
<1>n. ASSUME NextFile
      PROVE  file' \in File /\ phase' \in {"open", "ended"}
  BY <1>f, <1>n DEF NextFile, TypeOK
<1>1. ASSUME NEW m \in script.modes, Start(m) PROVE IInv'
  <2>1. TypeOK'
    BY <1>1, <1>s, <1>f, <1>b, TableAssumption DEF TypeOK, Start, disk
  <2>2. IsFunctions' BY <1>1 DEF IsFunctions, Start, disk
  <2>3. Reading' /\ Backing' BY <1>1 DEF Reading, Backing, Start, Busy
  <2>4. Unharmed' BY <1>1 DEF Unharmed, Start, disk, TypeOK, Busy, Whole
  <2>5. Recoverable' BY <1>1 DEF Recoverable, Whole, Start, disk, TypeOK
  <2>6. QED BY <2>1, <2>2, <2>3, <2>4, <2>5
<1>2. CASE MissingFile
  <2>1. TypeOK' BY <1>2, <1>s, <1>n DEF TypeOK, MissingFile, disk
  <2>2. IsFunctions' BY <1>2 DEF IsFunctions, MissingFile, disk
  <2>3. Reading' /\ Backing'
    BY <1>2, <1>n DEF Reading, Backing, MissingFile, Busy
  <2>4. Unharmed' BY <1>2, <1>n DEF Unharmed, MissingFile, disk, Busy, Whole
  <2>5. Recoverable' BY <1>2 DEF Recoverable, Whole, MissingFile, disk
  <2>6. QED BY <2>1, <2>2, <2>3, <2>4, <2>5
<1>3. CASE ReadFile
  <2>1. TypeOK' BY <1>3, <1>s, <1>l DEF TypeOK, ReadFile, disk
  <2>2. IsFunctions' BY <1>3 DEF IsFunctions, ReadFile, disk
  <2>3. Reading'
    BY <1>3, <1>s DEF Reading, ReadFile, disk, Busy, TypeOK, Text, Texts
  <2>4. Backing' BY <1>3 DEF Backing, ReadFile
  <2>5. Unharmed' BY <1>3 DEF Unharmed, ReadFile, disk, Whole, Busy, TypeOK
  <2>6. Recoverable' BY <1>3 DEF Recoverable, Whole, ReadFile, disk
  <2>7. QED BY <2>1, <2>2, <2>3, <2>4, <2>5, <2>6
<1>4. CASE ApplyEdit
  <2>1. /\ InTable /\ Applies /\ edit' = edit + 1 /\ phase = "edit"
        /\ out' = [out EXCEPT !.at = Replace(Here)]
        /\ UNCHANGED <<script, text, orig, phase, mode, file, rc, count>>
    BY <1>4 DEF ApplyEdit, InTable, disk
  <2>2. file \in File /\ edit \in 1..Len(Edits(file)) /\ Here \in Site(file)
    BY <2>1, <1>l, SitesAreEdits DEF InTable, TypeOK, Here
  <2>3. Occurs("old", Here) BY <2>1 DEF Applies
  <2>4. out \in Texts(file) BY <2>1 DEF Reading, Busy
  <2>5. out' \in Texts(file) /\ out'.cut = out.cut
    BY <2>1, <2>2, <2>3, <2>4, EditIsText DEF TypeOK
  <2>8. TypeOK' BY <1>s, <1>l, <1>t, <2>1, <2>2, <2>5 DEF TypeOK
  <2>9. IsFunctions' BY <2>1 DEF IsFunctions
  <2>10. Reading' BY <1>s, <2>1, <2>5 DEF Reading, Busy
  <2>11. Backing' BY <2>1 DEF Backing
  <2>12. Unharmed' BY <2>1, <2>5 DEF Unharmed, Whole, Busy
  <2>13. Recoverable' BY <2>1 DEF Recoverable, Whole
  <2>14. QED BY <2>8, <2>9, <2>10, <2>11, <2>12, <2>13
<1>5. ASSUME AlreadyDone \/ AnchorNotFound PROVE IInv'
  <2>1. /\ InTable /\ edit' = edit + 1 /\ rc' \in {0, 1}
        /\ UNCHANGED <<script, disk, phase, mode, file, out, count>>
    BY <1>5 DEF AlreadyDone, AnchorNotFound, TypeOK
  <2>2. TypeOK' BY <2>1, <1>s, <1>l DEF TypeOK, InTable, disk
  <2>3. IsFunctions' BY <2>1 DEF IsFunctions, disk
  <2>4. Reading' BY <2>1, <1>s DEF Reading, disk, Busy
  <2>5. Backing' BY <2>1 DEF Backing, Whole, disk
  <2>6. Unharmed' BY <2>1 DEF Unharmed, disk, Whole, Busy
  <2>7. Recoverable' BY <2>1 DEF Recoverable, Whole, disk
  <2>8. QED BY <2>2, <2>3, <2>4, <2>5, <2>6, <2>7
<1>6. CASE LeaveFile
  <2>1. TypeOK' BY <1>6, <1>s, <1>n DEF TypeOK, LeaveFile, disk
  <2>2. IsFunctions' BY <1>6 DEF IsFunctions, LeaveFile, disk
  <2>3. Reading' /\ Backing'
    BY <1>6, <1>n DEF Reading, Backing, LeaveFile, Busy
  <2>4. Unharmed' BY <1>6, <1>n DEF Unharmed, LeaveFile, EditsDone, disk, Whole, Busy
  <2>5. Recoverable' BY <1>6 DEF Recoverable, Whole, LeaveFile, EditsDone, disk
  <2>6. QED BY <2>1, <2>2, <2>3, <2>4, <2>5
<1>7. CASE OpenBackup
  <2>1. /\ phase = "edit" /\ phase' = "backup" /\ file \in File
        /\ out # text[file] /\ orig[file] = NoText
        /\ UNCHANGED <<script, text, mode, file, edit, out, rc, count>>
    BY <1>7 DEF OpenBackup, EditsDone, TypeOK
  <2>2. orig' = [f \in File |-> IF f = file THEN Emptied(file) ELSE orig[f]]
    BY <1>7 DEF OpenBackup, IsFunctions
  <2>3. Emptied(file) \in Text(file)
    BY <2>1, <1>t, CutsAreTexts DEF TypeOK
  <2>4. TypeOK' BY <2>1, <2>2, <2>3, <1>s DEF TypeOK
  <2>5. IsFunctions' BY <2>1, <2>2 DEF IsFunctions
  <2>6. Reading' BY <2>1, <1>s DEF Reading, Busy
  <2>7. Backing' BY <2>1 DEF Backing, Recoverable, Reading, Busy, Whole
  <2>8. Unharmed' BY <2>1, <2>2 DEF Unharmed, Whole, Busy
  <2>9. count.crashes <= 1 => ~text[file].cut
    BY <2>1 DEF Recoverable, Reading, Busy, Whole
  <2>10. Recoverable' BY <2>1, <2>2, <2>9 DEF Recoverable, Whole
  <2>11. QED BY <2>4, <2>5, <2>6, <2>7, <2>8, <2>10
<1>8. CASE FillBackup
  <2>1. /\ phase = "backup" /\ phase' = "backed" /\ file \in File
        /\ UNCHANGED <<script, text, mode, file, edit, out, rc, count>>
    BY <1>8 DEF FillBackup, TypeOK
  <2>2. orig' = [f \in File |-> IF f = file THEN text[file] ELSE orig[f]]
    BY <1>8 DEF FillBackup, IsFunctions
  <2>3. text[file] # NoText BY <2>1 DEF Reading, Busy
  <2>4. TypeOK' BY <2>1, <2>2, <1>s DEF TypeOK
  <2>5. IsFunctions' BY <2>1, <2>2 DEF IsFunctions
  <2>6. Reading' BY <2>1, <1>s DEF Reading, Busy
  <2>7. count.crashes <= 1 => Whole(text[file])
    BY <2>1, <2>3 DEF Backing, Reading, Busy, Whole
  <2>8. Backing' BY <2>1, <2>2, <2>3, <2>7 DEF Backing, Whole
  <2>9. Unharmed' BY <2>1, <2>2, <2>7 DEF Unharmed, Busy, Whole, TypeOK
  <2>10. Recoverable' BY <2>1, <2>2, <2>7 DEF Recoverable, Whole
  <2>11. QED BY <2>4, <2>5, <2>6, <2>8, <2>9, <2>10
<1>9. CASE OpenFile
  <2>1. /\ phase' = "write" /\ file \in File
        /\ UNCHANGED <<script, orig, mode, file, edit, out, rc, count>>
    BY <1>9 DEF OpenFile, TypeOK
  <2>2. text' = [f \in File |-> IF f = file THEN Emptied(file) ELSE text[f]]
    BY <1>9 DEF OpenFile, IsFunctions
  <2>3. /\ out \in Texts(file) /\ text[file] # NoText /\ out.cut = text[file].cut
        /\ phase \in {"edit", "backed"}
    BY <1>9 DEF OpenFile, EditsDone, Reading, Busy
  <2>4. orig[file] # NoText /\ (count.crashes = 0 => Whole(orig[file]))
    BY <1>9 DEF OpenFile, EditsDone, Backing, Unharmed, TypeOK
  <2>5. count.crashes <= 1 /\ out.cut => Whole(orig[file])
    BY <1>9, <2>3, <2>1 DEF OpenFile, EditsDone, Backing, Recoverable
  <2>6. Emptied(file) \in Text(file) /\ Emptied(file) # NoText
    BY <2>1, <1>t, CutsAreTexts, CountsAreText DEF TypeOK
  <2>7. TypeOK' BY <2>1, <2>2, <2>6, <1>s DEF TypeOK
  <2>8. IsFunctions' BY <2>1, <2>2 DEF IsFunctions
  <2>9. Reading' BY <2>1, <2>2, <2>3, <2>6, <1>s DEF Reading, Busy
  <2>10. Backing' BY <2>1, <2>4, <2>5 DEF Backing, Whole
  <2>11. Unharmed' BY <2>1, <2>2, <2>3, <2>4 DEF Unharmed, Whole, Busy
  <2>12. count.crashes <= 1 => count.crashes = 0 \/ count.crashes = 1
    BY DEF TypeOK
  <2>13. Recoverable'
    BY <2>1, <2>2, <2>3, <2>4, <2>12 DEF Recoverable, Whole
  <2>14. QED BY <2>7, <2>8, <2>9, <2>10, <2>11, <2>13
<1>10. CASE FillFile
  <2>1. /\ phase = "write" /\ phase' \in {"open", "ended"} /\ file \in File
        /\ file' \in File
        /\ UNCHANGED <<script, orig, mode, edit, out, rc, count>>
    BY <1>10, <1>n DEF FillFile, TypeOK
  <2>2. text' = [f \in File |-> IF f = file THEN out ELSE text[f]]
    BY <1>10 DEF FillFile, IsFunctions
  <2>3. /\ out \in Texts(file) /\ out \in Text(file) /\ out # NoText
        /\ out.cut \in BOOLEAN
    BY <2>1, CountsAreText DEF Reading, Busy, TypeOK
  <2>4. TypeOK' BY <2>1, <2>2, <2>3, <1>s DEF TypeOK
  <2>5. IsFunctions' BY <2>1, <2>2 DEF IsFunctions
  <2>6. Reading' /\ Backing' BY <2>1 DEF Reading, Backing, Busy
  <2>7. Unharmed' BY <2>1, <2>2, <2>3 DEF Unharmed, Whole, Busy
  <2>8. count.crashes <= 1 /\ out.cut => Whole(orig[file]) BY <2>1 DEF Backing
  <2>9. Recoverable' BY <2>1, <2>2, <2>3, <2>8 DEF Recoverable, Whole
  <2>10. QED BY <2>4, <2>5, <2>6, <2>7, <2>9
<1>11. CASE Report
  <2>1. TypeOK' BY <1>11, <1>s DEF TypeOK, Report, disk
  <2>2. IsFunctions' BY <1>11 DEF IsFunctions, Report, disk
  <2>3. Reading' /\ Backing' BY <1>11 DEF Reading, Backing, Report, Busy
  <2>4. Unharmed' BY <1>11 DEF Unharmed, Report, disk, Whole, Busy
  <2>5. Recoverable' BY <1>11 DEF Recoverable, Whole, Report, disk
  <2>6. QED BY <2>1, <2>2, <2>3, <2>4, <2>5
<1>12. CASE Crash
  <2>1. /\ phase' = "idle" /\ rc' = 1 /\ file \in File
        /\ count.crashes' = count.crashes + 1
        /\ UNCHANGED <<script, mode, file, edit, out>>
    BY <1>12 DEF Crash, TypeOK
  <2>2. count.crashes \in Nat BY DEF TypeOK
  <2>3. phase \in {"backup", "write"} =>
           out \in Texts(file) /\ (phase = "backup" => text[file] \in Texts(file))
    BY <2>1 DEF Reading, Busy, TypeOK, Text, Texts
  <2>4. \E t : /\ text' = [f \in File |-> IF f = file THEN t ELSE text[f]]
               /\ t \in Text(file)
               /\ phase # "write" => t = text[file]
    <3>1. CASE phase = "write"
      <4>1. PICK t \in CutShort(out) : text' = [text EXCEPT ![file] = t]
        BY <1>12, <3>1 DEF Crash
      <4>2. t \in Text(file) BY <1>t, <2>1, <2>3, <3>1, CutsAreTexts DEF TypeOK
      <4>3. QED BY <3>1, <4>1, <4>2 DEF IsFunctions
    <3>2. CASE phase # "write"
      <4>1. text' = text BY <1>12, <3>2 DEF Crash
      <4>2. QED BY <2>1, <4>1 DEF IsFunctions, TypeOK
    <3>3. QED BY <3>1, <3>2
  <2>5. \E t : /\ orig' = [f \in File |-> IF f = file THEN t ELSE orig[f]]
               /\ t \in Text(file)
               /\ phase # "backup" => t = orig[file]
    <3>1. CASE phase = "backup"
      <4>1. PICK t \in CutShort(text[file]) : orig' = [orig EXCEPT ![file] = t]
        BY <1>12, <3>1 DEF Crash
      <4>2. t \in Text(file) BY <1>t, <2>1, <2>3, <3>1, CutsAreTexts DEF TypeOK
      <4>3. QED BY <3>1, <4>1, <4>2 DEF IsFunctions
    <3>2. CASE phase # "backup"
      <4>1. orig' = orig BY <1>12, <3>2 DEF Crash
      <4>2. QED BY <2>1, <4>1 DEF IsFunctions, TypeOK
    <3>3. QED BY <3>1, <3>2
  <2>6. TypeOK' BY <1>12, <1>s, <1>b, <2>1, <2>4, <2>5 DEF TypeOK, Crash
  <2>7. IsFunctions' BY <2>4, <2>5 DEF IsFunctions
  <2>8. Reading' /\ Backing' BY <2>1 DEF Reading, Backing, Busy
  <2>9. Unharmed' BY <2>1, <2>2 DEF Unharmed
  <2>10. ASSUME count.crashes = 0, NEW f \in File, text'[f] # NoText, text'[f].cut
         PROVE  Whole(orig'[f])
    <3>1. f = file /\ phase = "write"
      BY <2>4, <2>10 DEF Unharmed, Whole
    <3>2. orig[file] # NoText BY <3>1 DEF Backing
    <3>3. Whole(orig[file]) BY <2>1, <2>10, <3>1, <3>2 DEF Unharmed
    <3>4. orig'[f] = orig[f] BY <2>5, <3>1
    <3>5. QED BY <3>1, <3>3, <3>4
  <2>11. Recoverable'
    BY <2>1, <2>2, <2>10 DEF Recoverable, Whole
  <2>12. QED BY <2>6, <2>7, <2>8, <2>9, <2>11
<1>13. ASSUME NEW f \in File, Upgrade(f) PROVE IInv'
  <2>1. /\ phase = "idle" /\ count.crashes' = count.crashes
        /\ UNCHANGED <<script, orig, phase, mode, file, edit, out, rc>>
    BY <1>13 DEF Upgrade, TypeOK
  <2>2. PICK t \in {NoText} \union { Intact(a) : a \in {Stock(f)} \union Reworded(f) } :
           text' = [g \in File |-> IF g = f THEN t ELSE text[g]]
    BY <1>13 DEF Upgrade, IsFunctions
  <2>3. t \in Text(f) /\ (t = NoText \/ Whole(t))
    BY <1>t, <2>2, ReleasesAreTexts DEF TypeOK
  <2>4. TypeOK' BY <1>13, <1>s, <1>b, <2>1, <2>2, <2>3 DEF TypeOK, Upgrade
  <2>5. IsFunctions' BY <2>1, <2>2 DEF IsFunctions
  <2>6. Reading' /\ Backing' BY <2>1 DEF Reading, Backing, Busy
  <2>7. Unharmed' BY <2>1, <2>2, <2>3 DEF Unharmed, Whole, Busy
  <2>8. Recoverable' BY <2>1, <2>2, <2>3 DEF Recoverable, Whole
  <2>9. QED BY <2>4, <2>5, <2>6, <2>7, <2>8
<1>14. CASE UNCHANGED vars
  <2>1. UNCHANGED <<script, text, orig, phase, mode, file, edit, out, rc, count>>
    BY <1>14 DEF vars
  <2>2. TypeOK' BY <2>1, <1>s DEF TypeOK
  <2>3. IsFunctions' BY <2>1 DEF IsFunctions
  <2>4. Reading' BY <2>1, <1>s DEF Reading
  <2>5. Backing' /\ Unharmed' /\ Recoverable'
    BY <2>1 DEF Backing, Unharmed, Recoverable, Whole
  <2>6. QED BY <2>2, <2>3, <2>4, <2>5
<1>15. QED
  BY <1>1, <1>2, <1>3, <1>4, <1>5, <1>6, <1>7, <1>8, <1>9, <1>10, <1>11,
     <1>12, <1>13, <1>14 DEF Next, Invocation

-----------------------------------------------------------------------------
(***************************************************************************)
(* Theorems                                                                *)
(***************************************************************************)
\* IInv holds in every state.
LEMMA Always == Spec => []IInv
<1>1. Init => IInv BY Starts
<1>2. IInv /\ [Next]_vars => IInv' BY Inductive
<1>3. QED BY <1>1, <1>2, PTL DEF Spec

\* The scripts' variables keep their types: an edited text never counts an
\* occurrence below zero.
THEOREM TypeCorrect == Spec => []TypeOK
<1>1. IInv => TypeOK BY DEF IInv
<1>2. QED BY <1>1, Always, PTL

\* Wherever one invocation of main() is killed, and however often the package
\* is reinstalled, a file that is cut short has a whole text in its .orig.
THEOREM OneCrashCostsNoFile == Spec => []OneCrashIsRecoverable
<1>1. IInv => OneCrashIsRecoverable
  BY DEF IInv, Recoverable, OneCrashIsRecoverable
<1>2. QED BY <1>1, Always, PTL

\* main() leaves a file with every edit in as it is, for any table of edits.
THEOREM PatchedIsLeftAlone == Spec => []ApplyIdempotent
<1>1. Init => ApplyIdempotent BY DEF Init, ApplyIdempotent
<1>2. ASSUME IInv, ApplyIdempotent, [Next]_vars PROVE ApplyIdempotent'
  <2> SUFFICES ASSUME phase' = "edit", mode' = "apply",
                      text'[file'].at = Patched(file)'
               PROVE  out' = text'[file']
    BY DEF ApplyIdempotent
  <2>1. script' = script BY <1>2, SameTable
  <2>2. \A f : Patched(f)' = Patched(f) BY <2>1 DEF Patched, Shipped, Site, Edits
  <2>3. CASE ReadFile BY <2>3 DEF ReadFile, disk
  <2>4. CASE ApplyEdit
    <3>1. /\ InTable /\ mode = "apply" /\ UNCHANGED <<text, file>>
          /\ Occurs("old", Here)
      BY <2>4 DEF ApplyEdit, Applies, disk
    <3>2. out.at = Patched(file)
      BY <1>2, <2>2, <2>4, <3>1 DEF ApplyIdempotent, InTable
    <3>3. Here \in Site(file)
      <4>1. file \in File /\ script \in Scripts BY <1>2 DEF IInv, TypeOK
      <4>2. edit \in 1..Len(Edits(file))
        BY <1>2, <3>1, <4>1, SitesAreEdits DEF IInv, TypeOK, InTable
      <4>3. QED BY <4>1, <4>2, SitesAreEdits DEF Here
    <3>4. out.at[Here].old = 0 BY <3>2, <3>3 DEF Patched
    <3>5. Side("old") = "old" BY <3>1 DEF Side
    <3>6. QED BY <3>1, <3>4, <3>5 DEF Occurs
  <2>5. CASE ~ReadFile /\ ~ApplyEdit
    <3>1. phase = "edit" /\ UNCHANGED <<text, mode, file, out>>
      BY <1>2, <2>5 DEF Next, Invocation, vars, disk, Start, MissingFile,
         NextFile, AlreadyDone, AnchorNotFound, LeaveFile, OpenBackup,
         FillBackup, OpenFile, FillFile, Report, Crash, Upgrade
    <3>2. QED BY <1>2, <2>2, <3>1 DEF ApplyIdempotent
  <2>6. QED BY <2>3, <2>4, <2>5
<1>3. QED BY <1>1, <1>2, Always, PTL DEF Spec

\* No edit that only cuts is in the table of a script that looks for the old
\* text first.
CutsLookNewFirst ==
    \A s \in Scripts : s.oldFirst =>
        \A f \in File : \A i \in 1..Len(s.edits[f]) :
            Kind[s.edits[f][i]] = "replace"

\* Where main() looks for the new text first, or no edit only cuts, --revert
\* leaves a stock file as it is.  FlashInfer's table is the exception.
THEOREM StockIsLeftAlone == CutsLookNewFirst => (Spec => []RevertIdempotent)
<1> SUFFICES ASSUME CutsLookNewFirst PROVE Spec => []RevertIdempotent OBVIOUS
<1>1. Init => RevertIdempotent BY DEF Init, RevertIdempotent
<1>2. ASSUME IInv, RevertIdempotent, [Next]_vars PROVE RevertIdempotent'
  <2> SUFFICES ASSUME phase' = "edit", mode' = "revert",
                      text'[file'].at = Stock(file)'
               PROVE  out' = text'[file']
    BY DEF RevertIdempotent
  <2>1. script' = script BY <1>2, SameTable
  <2>2. \A f : Stock(f)' = Stock(f) BY <2>1 DEF Stock, Shipped, Site, Edits
  <2>3. CASE ReadFile BY <2>3 DEF ReadFile, disk
  <2>4. CASE ApplyEdit
    <3>1. /\ InTable /\ mode = "revert" /\ UNCHANGED <<text, file>>
          /\ script.oldFirst \/ ~Occurs("new", Here)
      BY <2>4 DEF ApplyEdit, Applies, disk
    <3>2. out.at = Stock(file)
      BY <1>2, <2>2, <2>4, <3>1 DEF RevertIdempotent, InTable
    <3>o. Occurs("old", Here)
      BY <2>4 DEF ApplyEdit, Applies
    <3>3. file \in File /\ script \in Scripts BY <1>2 DEF IInv, TypeOK
    <3>4. edit \in 1..Len(Edits(file))
      BY <1>2, <3>1, <3>3, SitesAreEdits DEF IInv, TypeOK, InTable
    <3>5. Here \in Site(file) BY <3>3, <3>4, SitesAreEdits DEF Here
    <3>6. /\ Kind[Here] # "cut" => out.at[Here].new = 0
          /\ out.at[Here].old > 0
      BY <3>2, <3>3, <3>5, ShippedIsPositive DEF Stock
    <3>7. Side("old") = "new" /\ Side("new") = "old" BY <3>1 DEF Side
    <3>8. Occurs("new", Here) BY <3>6, <3>7 DEF Occurs
    <3>9. Kind[Here] = "replace"
      BY <3>1, <3>3, <3>4, <3>8 DEF CutsLookNewFirst, Here, Edits
    <3>10. ~Occurs("old", Here) BY <3>6, <3>7, <3>9 DEF Occurs
    <3>11. QED BY <3>o, <3>10
  <2>5. CASE ~ReadFile /\ ~ApplyEdit
    <3>1. phase = "edit" /\ UNCHANGED <<text, mode, file, out>>
      BY <1>2, <2>5 DEF Next, Invocation, vars, disk, Start, MissingFile,
         NextFile, AlreadyDone, AnchorNotFound, LeaveFile, OpenBackup,
         FillBackup, OpenFile, FillFile, Report, Crash, Upgrade
    <3>2. QED BY <1>2, <2>2, <3>1 DEF RevertIdempotent
  <2>6. QED BY <2>3, <2>4, <2>5
<1>3. QED BY <1>1, <1>2, Always, PTL DEF Spec

-----------------------------------------------------------------------------
(***************************************************************************)
(* The exit status                                                         *)
(***************************************************************************)
\* Every edit replaces a text by another one, in which it does not occur.
OnlyReplaces(s) ==
    \A f \in File : \A i \in 1..Len(s.edits[f]) : Kind[s.edits[f][i]] = "replace"

\* No pair is listed twice for a file.
NoPairTwice(s) ==
    \A f \in File : \A i, j \in 1..Len(s.edits[f]) :
        s.edits[f][i] = s.edits[f][j] => i = j

\* Every file has an edit.  A script that looks for the new text first has
\* neither a pair twice nor an edit that only cuts: vLLM's.  One that looks for
\* the old text first may have both, but with the latter no --revert:
\* FlashInfer's.
Trusted(s) ==
    /\ \A f \in File : Len(s.edits[f]) > 0
    /\ OnlyReplaces(s) \/ (s.oldFirst /\ "revert" \notin s.modes)
    /\ NoPairTwice(s) \/ s.oldFirst

TrustedTables == \A s \in Scripts : Trusted(s)

\* How often a table lists site k from place n on.
Left(e, n, k) == Cardinality({ i \in n..Len(e) : e[i] = k })

\* What an invocation looks for at a site, and what it puts there.
Gone(m, a, k) == IF m = "revert" THEN a[k].new ELSE a[k].old

Put(m, a, k) == IF m = "revert" THEN a[k].old > 0 ELSE a[k].new > 0

FileDone(m, t) ==
    /\ t # NoText
    /\ \A k \in DOMAIN t.at : Gone(m, t.at, k) = 0 /\ Put(m, t.at, k)

\* No text occurs more often than the table lists its site, and what is to be
\* removed follows what is to stay.
Bounded(e, a) ==
    \A k \in DOMAIN a :
        /\ a[k].old <= Left(e, 1, k)
        /\ Kind[k] = "replace" => a[k].old + a[k].new <= Left(e, 1, k)
        /\ Kind[k] = "cut" /\ a[k].old > 0 => a[k].new > 0

Counted ==
    /\ mode = "revert" => "revert" \in script.modes
    /\ \A f \in File : text[f] # NoText => Bounded(Edits(f), text[f].at)
    /\ phase \in Busy => Bounded(Edits(file), out.at)

Writes == mode \in {"apply", "revert"} /\ rc = 0

\* As long as the exit status is 0, what has been gone through is done, and
\* what is left of a site's text has a place in the rest of the table.
Progress ==
    Writes =>
        /\ phase \in Busy \union {"open"} =>
             \A f \in 1..(file - 1) : FileDone(mode, text[f])
        /\ phase = "edit" =>
             /\ \A k \in Site(file) :
                  Gone(mode, out.at, k) <= Left(Edits(file), edit, k)
             /\ \A i \in 1..(edit - 1) : Put(mode, out.at, Edits(file)[i])
        /\ phase \in {"backup", "backed", "write"} => FileDone(mode, out)
        /\ phase = "ended" => \A f \in File : FileDone(mode, text[f])

\* A site is left once more at its own place than behind it.
LEMMA LeftNext ==
    ASSUME NEW e, Len(e) \in Nat, NEW n \in 1..Len(e), NEW k
    PROVE  /\ Left(e, n + 1, k) \in Nat
           /\ Left(e, n, k) = Left(e, n + 1, k) + IF e[n] = k THEN 1 ELSE 0
<1> DEFINE S(m) == { i \in m..Len(e) : e[i] = k }
<1>1. IsFiniteSet((n + 1)..Len(e)) BY FS_Interval
<1>2. IsFiniteSet(S(n + 1)) BY <1>1, FS_Subset
<1>3. n \notin S(n + 1) OBVIOUS
<1>4. Cardinality(S(n + 1)) \in Nat BY <1>2, FS_CardinalityType
<1>5. CASE e[n] = k
  <2>1. S(n) = S(n + 1) \union {n} BY <1>5
  <2>2. Cardinality(S(n)) = Cardinality(S(n + 1)) + 1
    BY <1>2, <1>3, <2>1, FS_AddElement
  <2>3. QED BY <1>4, <1>5, <2>2 DEF Left
<1>6. CASE e[n] # k
  <2>1. S(n) = S(n + 1)
    <3>1. ASSUME NEW i \in n..Len(e), e[i] = k PROVE i \in (n + 1)..Len(e)
      BY <1>6, <3>1
    <3>2. (n + 1)..Len(e) \subseteq n..Len(e) OBVIOUS
    <3>3. QED BY <3>1, <3>2
  <2>2. Cardinality(S(n)) = Cardinality(S(n + 1)) BY <2>1
  <2>3. QED BY <1>4, <1>6, <2>2 DEF Left
<1>7. QED BY <1>5, <1>6

\* Nothing is left behind the table.
LEMMA LeftNone ==
    ASSUME NEW e, Len(e) \in Nat, NEW k
    PROVE  Left(e, Len(e) + 1, k) = 0
<1>1. { i \in (Len(e) + 1)..Len(e) : e[i] = k } = {} OBVIOUS
<1>2. QED BY <1>1, FS_EmptySet DEF Left

\* What the kinds of a script's edits say of the script.
LEMMA KindsAre ==
    ASSUME TrustedTables, script \in Scripts, NEW f \in File, NEW k \in Site(f)
    PROVE  /\ Kind[k] \in {"replace", "cut"}
           /\ Kind[k] = "cut" => script.oldFirst /\ "revert" \notin script.modes
           /\ Shipped(f, k) = Left(Edits(f), 1, k)
           /\ Left(Edits(f), 1, k) \in Nat \ {0}
<1>1. PICK i \in 1..Len(Edits(f)) : Edits(f)[i] = k BY DEF Site
<1>2. Kind[k] \in {"replace", "cut"} BY SitesAreEdits, TableAssumption
<1>3. Kind[k] = "cut" => script.oldFirst /\ "revert" \notin script.modes
  BY <1>1 DEF TrustedTables, Trusted, OnlyReplaces, Edits
<1>4. Shipped(f, k) = Left(Edits(f), 1, k) BY DEF Shipped, Left
<1>5. QED BY <1>2, <1>3, <1>4, ShippedIsPositive

\* A site that is listed once is shipped once.
LEMMA ShippedOnce ==
    ASSUME TrustedTables, script \in Scripts, ~script.oldFirst,
           NEW f \in File, NEW k \in Site(f)
    PROVE  Left(Edits(f), 1, k) = 1
<1>1. PICK i \in 1..Len(Edits(f)) : Edits(f)[i] = k BY DEF Site
<1>2. NoPairTwice(script) BY DEF TrustedTables, Trusted
<1>3. { j \in 1..Len(Edits(f)) : Edits(f)[j] = k } = {i}
  BY <1>1, <1>2 DEF NoPairTwice, Edits
<1>4. QED BY <1>3, FS_Singleton DEF Left

\* No release has a text more often than the table lists it.
LEMMA ReleasesCount ==
    ASSUME TrustedTables, script \in Scripts, NEW f \in File,
           NEW a \in {Stock(f)} \union Reworded(f)
    PROVE  Bounded(Edits(f), a)
<1>1. \A k \in Site(f) : /\ Shipped(f, k) = Left(Edits(f), 1, k)
                         /\ Left(Edits(f), 1, k) \in Nat \ {0}
                         /\ Kind[k] \in {"replace", "cut"}
  BY KindsAre
<1>2. Bounded(Edits(f), Stock(f)) BY <1>1 DEF Bounded, Stock
<1>3. ASSUME NEW k \in Site(f), NEW n \in Fewer(k, Stock(f)[k]),
             a = [Stock(f) EXCEPT ![k] = n]
      PROVE  Bounded(Edits(f), a)
  <2>1. /\ Stock(f)[k].old \in Nat /\ Stock(f)[k].new \in Nat
        /\ DOMAIN Stock(f) = Site(f)
    BY <1>1 DEF Stock
  <2>2. /\ n.old \in 0..Stock(f)[k].old /\ n.new \in 0..Stock(f)[k].new
        /\ Kind[k] = "cut" /\ n.old > 0 => n.new > 0
    BY <2>1 DEF Fewer
  <2>3. a[k] = n /\ DOMAIN a = Site(f)
        /\ \A j \in Site(f) \ {k} : a[j] = Stock(f)[j]
    BY <1>3, <2>1
  <2>4. QED BY <1>1, <1>2, <2>1, <2>2, <2>3 DEF Bounded
<1>4. ASSUME a \in Reworded(f) PROVE Bounded(Edits(f), a)
  <2>1. PICK k \in Site(f) :
           a \in { [Stock(f) EXCEPT ![k] = n] :
                   n \in { m \in Fewer(k, Stock(f)[k]) : m.old = Shipped(f, k) - 1 } }
    BY <1>4 DEF Reworded
  <2>2. QED BY <1>3, <2>1
<1>5. QED BY <1>2, <1>4

\* Nor has what a crash leaves of a text.
LEMMA CutsCount ==
    ASSUME TrustedTables, script \in Scripts, NEW f \in File,
           NEW t \in Texts(f), Bounded(Edits(f), t.at), NEW c \in CutShort(t)
    PROVE  Bounded(Edits(f), c.at)
<1>1. t.at \in Counts(f) /\ DOMAIN t.at = Site(f) BY DEF Texts, Counts
<1>2. PICK a \in [Site(f) -> UNION { Fewer(k, t.at[k]) : k \in Site(f) }] :
         c = [at |-> a, cut |-> TRUE] /\ \A k \in Site(f) : a[k] \in Fewer(k, t.at[k])
  BY <1>1 DEF CutShort
<1>3. ASSUME NEW k \in Site(f)
      PROVE  /\ a[k].old <= Left(Edits(f), 1, k)
             /\ Kind[k] = "replace" => a[k].old + a[k].new <= Left(Edits(f), 1, k)
             /\ Kind[k] = "cut" /\ a[k].old > 0 => a[k].new > 0
  <2>1. t.at[k].old \in Nat /\ t.at[k].new \in Nat BY <1>1 DEF Counts
  <2>2. /\ a[k].old \in 0..t.at[k].old /\ a[k].new \in 0..t.at[k].new
        /\ Kind[k] = "cut" /\ a[k].old > 0 => a[k].new > 0
    BY <1>2, <2>1 DEF Fewer
  <2>3. /\ t.at[k].old <= Left(Edits(f), 1, k)
        /\ Kind[k] = "replace" => t.at[k].old + t.at[k].new <= Left(Edits(f), 1, k)
        /\ Left(Edits(f), 1, k) \in Nat
    BY <1>1, KindsAre DEF Bounded
  <2>4. QED BY <2>1, <2>2, <2>3
<1>4. c.at = a /\ DOMAIN a = Site(f) BY <1>2
<1>5. QED BY <1>3, <1>4 DEF Bounded

\* Counting the new text of a site down and the old one up.
LEMMA MovedBack ==
    ASSUME file \in File, NEW t \in Counts(file), NEW k \in Site(file),
           NEW d, d = [t EXCEPT ![k].new = @ - 1, ![k].old = @ + 1]
    PROVE  d[k].old = t[k].old + 1 /\ d[k].new = t[k].new - 1
<1>1. d[k].old = t[k].old + 1 BY DEF Counts
<1>2. d[k].new = t[k].new - 1 BY DEF Counts
<1>3. QED BY <1>1, <1>2

\* One replacement takes one occurrence of the text looked for away and leaves
\* the other text.
LEMMA ReplaceDoes ==
    ASSUME TrustedTables, script \in Scripts, file \in File, out.at \in Counts(file),
           mode \in {"apply", "revert", "check"},
           mode = "revert" => "revert" \in script.modes,
           Bounded(Edits(file), out.at), NEW k \in Site(file), Occurs("old", k)
    PROVE  /\ Put(mode, Replace(k), k)
           /\ Gone(mode, Replace(k), k) = Gone(mode, out.at, k) - 1
           /\ Bounded(Edits(file), Replace(k))
           /\ \A j \in Site(file) \ {k} : Replace(k)[j] = out.at[j]
<1>1. Kind[k] \in {"replace", "cut"} BY KindsAre
<1>2. \A j \in Site(file) : out.at[j] \in [old : Nat, new : Nat] BY DEF Counts
<1>4. \A j \in Site(file) :
        /\ Left(Edits(file), 1, j) \in Nat
        /\ out.at[j].old <= Left(Edits(file), 1, j)
        /\ Kind[j] = "replace" => out.at[j].old + out.at[j].new <= Left(Edits(file), 1, j)
        /\ Kind[j] = "cut" /\ out.at[j].old > 0 => out.at[j].new > 0
  BY KindsAre DEF Bounded, Counts
<1>5. out.at = [j \in Site(file) |-> out.at[j]] BY DEF Counts
<1>d. DOMAIN Replace(k) = Site(file) BY <1>5 DEF Replace
<1>6. CASE mode = "revert"
  <2>1. Side("old") = "new" /\ Side("new") = "old" BY <1>6 DEF Side
  <2>k. Kind[k] = "replace" BY <1>1, <1>6, KindsAre
  <2>2. out.at[k].new > 0 BY <1>1, <2>1, <2>k DEF Occurs
  <2>3. Replace(k) = [out.at EXCEPT ![k].new = @ - 1, ![k].old = @ + 1]
    BY <2>1, <2>k DEF Replace
  <2>4. Replace(k)[k].old = out.at[k].old + 1 /\ Replace(k)[k].new = out.at[k].new - 1
    BY <2>3, MovedBack
  <2>5. \A j \in Site(file) \ {k} : Replace(k)[j] = out.at[j] BY <1>5, <2>3
  <2>6. Put(mode, Replace(k), k) /\ Gone(mode, Replace(k), k) = Gone(mode, out.at, k) - 1
    BY <1>2, <1>6, <2>4 DEF Put, Gone
  <2>7. /\ Replace(k)[k].old <= Left(Edits(file), 1, k)
        /\ Replace(k)[k].old + Replace(k)[k].new <= Left(Edits(file), 1, k)
    BY <1>2, <1>4, <2>2, <2>4, <2>k
  <2>8. Bounded(Edits(file), Replace(k))
    BY <1>4, <1>d, <2>5, <2>7, <2>k DEF Bounded
  <2>9. QED BY <2>5, <2>6, <2>8
<1>7. CASE mode # "revert"
  <2> DEFINE n == IF Kind[k] = "cut" THEN out.at[k].new ELSE out.at[k].new + 1
  <2>1. Side("old") = "old" /\ Side("new") = "new" BY <1>7 DEF Side
  <2>2. out.at[k].old > 0 BY <1>1, <2>1 DEF Occurs
  <2>n. n \in Nat BY <1>2
  <2>3. Replace(k) = [out.at EXCEPT ![k].old = @ - 1, ![k].new = n]
    BY <1>1, <1>2, <1>5, <2>1 DEF Replace
  <2> HIDE DEF n
  <2>4. Replace(k)[k].old = out.at[k].old - 1 /\ Replace(k)[k].new = n
    <3>1. out.at = [j \in Site(file) |-> out.at[j]] BY <1>5
    <3>2. Replace(k)[k] = [[out.at[k] EXCEPT !.old = @ - 1] EXCEPT !.new = n]
      BY <2>3, <3>1
    <3>3. QED BY <1>2, <3>2
  <2>5. \A j \in Site(file) \ {k} : Replace(k)[j] = out.at[j] BY <1>5, <2>3
  <2>6. Put(mode, Replace(k), k) /\ Gone(mode, Replace(k), k) = Gone(mode, out.at, k) - 1
    BY <1>1, <1>2, <1>4, <1>7, <2>2, <2>4 DEF Put, Gone, n
  <2>7. /\ Replace(k)[k].old <= Left(Edits(file), 1, k)
        /\ Kind[k] = "cut" => Replace(k)[k].new > 0
        /\ Kind[k] = "replace" =>
             Replace(k)[k].old + Replace(k)[k].new <= Left(Edits(file), 1, k)
    BY <1>2, <1>4, <2>2, <2>4 DEF n
  <2>8. Bounded(Edits(file), Replace(k))
    BY <1>4, <1>d, <2>5, <2>7 DEF Bounded
  <2>9. QED BY <2>5, <2>6, <2>8
<1>8. QED BY <1>6, <1>7

\* Every step keeps what the exit status will be told from.
LEMMA StatusInductive ==
    ASSUME TrustedTables, IInv, Counted, Progress, [Next]_vars
    PROVE  Counted' /\ Progress'
<1> USE DEF IInv
<1>s. script' = script /\ \A f : Edits(f)' = Edits(f) BY SameTable
<1>f. /\ NumFiles \in Nat \ {0} /\ File = 1..NumFiles
      /\ script \in Scripts /\ file \in File /\ IsFunctions
      /\ mode \in {"apply", "revert", "check"}
  BY TableAssumption DEF File, TypeOK
<1>l. /\ Len(Edits(file)) \in Nat \ {0}
      /\ \A i \in 1..Len(Edits(file)) : Edits(file)[i] \in Site(file)
  <2>1. Trusted(script) BY <1>f DEF TrustedTables
  <2>2. /\ Len(Edits(file)) \in Nat
        /\ \A i \in 1..Len(Edits(file)) : Edits(file)[i] \in Site(file)
    BY <1>f, SitesAreEdits
  <2>3. QED BY <1>f, <2>1, <2>2 DEF Trusted, Edits
<1>t. \A f : Site(f)' = Site(f) BY <1>s DEF Site
<1>o. phase \in Busy =>
         out \in Texts(file) /\ out.at \in Counts(file) /\ out # NoText
  BY <1>f, CountsAreText DEF Reading
<1>e. ASSUME EditsDone, Writes PROVE FileDone(mode, out)
  <2>1. phase = "edit" /\ edit = Len(Edits(file)) + 1
    BY <1>e, <1>l DEF EditsDone, TypeOK
  <2>2. /\ \A i \in 1..Len(Edits(file)) : Put(mode, out.at, Edits(file)[i])
        /\ \A k \in Site(file) :
             Gone(mode, out.at, k) <= Left(Edits(file), Len(Edits(file)) + 1, k)
    BY <1>e, <1>l, <2>1 DEF Progress
  <2>3. out.at \in Counts(file) /\ out # NoText BY <1>o, <2>1 DEF Busy
  <2>5. \A k \in Site(file) : Put(mode, out.at, k) BY <2>2 DEF Site
  <2>6. \A k \in Site(file) : Gone(mode, out.at, k) \in Nat
    BY <2>3 DEF Gone, Counts
  <2>7. \A k \in Site(file) : Gone(mode, out.at, k) = 0
    BY <1>l, <2>2, <2>6, LeftNone
  <2>8. DOMAIN out.at = Site(file) BY <2>3 DEF Counts
  <2>9. QED BY <2>3, <2>5, <2>7, <2>8 DEF FileDone
<1>n. ASSUME NextFile, phase \in Busy \union {"open"}, mode' = mode, rc' = rc,
             \A f \in File \ {file} : text'[f] = text[f],
             Writes => FileDone(mode, text'[file])
      PROVE  Progress'
  <2>1. SUFFICES ASSUME Writes
                 PROVE  Progress'
    BY <1>n DEF Progress, Writes
  <2>2. \A f \in 1..file : FileDone(mode, text'[f])
    BY <1>f, <1>n, <2>1 DEF Progress
  <2>3. \/ phase' = "open" /\ file' = file + 1
        \/ phase' = "ended" /\ file = NumFiles
    BY <1>n DEF NextFile
  <2>4. CASE phase' = "open" /\ file' = file + 1
    BY <1>f, <1>n, <2>2, <2>4 DEF Progress, Busy
  <2>5. CASE phase' = "ended" /\ file = NumFiles
    BY <1>f, <1>n, <2>2, <2>5 DEF Progress, Busy
  <2>6. QED BY <2>3, <2>4, <2>5
<1>1. ASSUME NEW m \in script.modes, Start(m) PROVE Counted' /\ Progress'
  <2>1. phase' = "open" /\ file' = 1 /\ text' = text /\ mode' = m
    BY <1>1 DEF Start, disk
  <2>2. QED BY <1>s, <2>1 DEF Counted, Progress, Busy
<1>2. CASE MissingFile
  <2>1. rc' = 1 /\ text' = text /\ mode' = mode /\ phase' \notin Busy
    BY <1>2 DEF MissingFile, NextFile, disk, Busy
  <2>2. QED BY <1>s, <2>1 DEF Counted, Progress, Writes
<1>3. CASE ReadFile
  <2>1. /\ phase' = "edit" /\ edit' = 1 /\ out' = text[file]
        /\ phase = "open" /\ text[file] # NoText
        /\ UNCHANGED <<script, text, orig, mode, file, rc, count>>
    BY <1>3 DEF ReadFile, disk
  <2>2. Counted' BY <1>f, <1>s, <2>1 DEF Counted
  <2>3. ASSUME NEW k \in Site(file)
        PROVE  Gone(mode, text[file].at, k) <= Left(Edits(file), 1, k)
    <3>1. text[file].at \in Counts(file) BY <1>f, <2>1 DEF TypeOK, Text
    <3>2. Bounded(Edits(file), text[file].at) BY <1>f, <2>1 DEF Counted
    <3>3. /\ text[file].at[k].old \in Nat /\ text[file].at[k].new \in Nat
          /\ text[file].at[k].old <= Left(Edits(file), 1, k)
          /\ Kind[k] = "replace" =>
               text[file].at[k].old + text[file].at[k].new <= Left(Edits(file), 1, k)
      BY <3>1, <3>2 DEF Bounded, Counts
    <3>4. Left(Edits(file), 1, k) \in Nat /\ (mode = "revert" => Kind[k] = "replace")
      BY <1>f, KindsAre DEF Counted
    <3>5. QED BY <3>3, <3>4 DEF Gone
  <2>4. Progress' BY <1>s, <1>t, <2>1, <2>3 DEF Progress, Writes, Busy
  <2>5. QED BY <2>2, <2>4
<1>m. ASSUME phase = "edit", edit \in 1..Len(Edits(file)), edit' = edit + 1,
             Here \in Site(file),
             UNCHANGED <<script, text, mode, file, rc, phase>>,
             Writes =>
               /\ Put(mode, out'.at, Here)
               /\ Gone(mode, out'.at, Here) <= Left(Edits(file), edit + 1, Here),
             \A j \in Site(file) \ {Here} : out'.at[j] = out.at[j]
      PROVE  Progress'
  <2>1. SUFFICES ASSUME Writes
                 PROVE  Progress'
    BY <1>m DEF Progress, Writes
  <2>2. ASSUME NEW k \in Site(file)
        PROVE  Gone(mode, out'.at, k) <= Left(Edits(file), edit + 1, k)
    <3>1. CASE k = Here BY <1>m, <2>1, <3>1
    <3>2. CASE k # Here
      <4>1. Gone(mode, out'.at, k) = Gone(mode, out.at, k) BY <1>m, <3>2 DEF Gone
      <4>2. Gone(mode, out.at, k) <= Left(Edits(file), edit, k)
        BY <1>m, <2>1 DEF Progress
      <4>3. Left(Edits(file), edit, k) = Left(Edits(file), edit + 1, k)
            /\ Left(Edits(file), edit + 1, k) \in Nat
        <5>1. edit \in 1..Len(Edits(file)) /\ Edits(file)[edit] # k
          BY <1>m, <3>2 DEF Here
        <5>2. QED BY <1>l, <5>1, LeftNext
      <4>4. QED BY <4>1, <4>2, <4>3
    <3>3. QED BY <3>1, <3>2
  <2>3. ASSUME NEW i \in 1..edit PROVE Put(mode, out'.at, Edits(file)[i])
    <3>1. CASE Edits(file)[i] = Here BY <1>m, <2>1, <3>1
    <3>2. CASE Edits(file)[i] # Here
      <4>1. i \in 1..(edit - 1) BY <1>m, <3>2 DEF Here
      <4>2. Put(mode, out.at, Edits(file)[i]) BY <1>m, <2>1, <4>1 DEF Progress
      <4>3. Edits(file)[i] \in Site(file) \ {Here} BY <1>l, <1>m, <3>2
      <4>4. out'.at[Edits(file)[i]] = out.at[Edits(file)[i]] BY <1>m, <4>3
      <4>5. QED BY <4>2, <4>4 DEF Put
    <3>3. QED BY <3>1, <3>2
  <2>4. \A f \in 1..(file - 1) : FileDone(mode, text[f])
    BY <1>m, <2>1 DEF Progress, Busy
  <2>5. (edit + 1) - 1 = edit BY <1>m
  <2>6. QED BY <1>s, <1>t, <1>m, <2>2, <2>3, <2>4, <2>5 DEF Progress, Busy
<1>4. CASE ApplyEdit
  <2>1. /\ phase = "edit" /\ edit \in 1..Len(Edits(file))
        /\ Occurs("old", Here) /\ out' = [out EXCEPT !.at = Replace(Here)]
        /\ edit' = edit + 1
        /\ UNCHANGED <<script, text, orig, phase, mode, file, rc, count>>
    BY <1>4, <1>l DEF ApplyEdit, InTable, Applies, disk, TypeOK
  <2>2. Here = Edits(file)[edit] /\ Here \in Site(file) BY <1>l, <2>1 DEF Here
  <2>3. out \in Texts(file) /\ out.at \in Counts(file) BY <1>o, <2>1 DEF Busy
  <2>4. Bounded(Edits(file), out.at) BY <2>1, <2>3 DEF Counted, Busy
  <2>5. /\ Put(mode, out'.at, Here)
        /\ Gone(mode, out'.at, Here) = Gone(mode, out.at, Here) - 1
        /\ Bounded(Edits(file), out'.at)
        /\ \A j \in Site(file) \ {Here} : out'.at[j] = out.at[j]
    <3>1. out'.at = Replace(Here) BY <1>f, <2>1, <2>2, <2>3, EditIsText
    <3>2. QED BY <1>f, <2>1, <2>2, <2>3, <2>4, <3>1, ReplaceDoes DEF Counted
  <2>8. Counted' BY <1>s, <2>1, <2>5 DEF Counted
  <2>9. Writes => Gone(mode, out'.at, Here) <= Left(Edits(file), edit + 1, Here)
    <3>1. ASSUME Writes
          PROVE  Gone(mode, out.at, Here) <= Left(Edits(file), edit, Here)
      BY <2>1, <2>2, <2>3, <3>1 DEF Progress
    <3>2. Left(Edits(file), edit, Here) = Left(Edits(file), edit + 1, Here) + 1
          /\ Left(Edits(file), edit + 1, Here) \in Nat
      BY <1>l, <2>1, <2>2, LeftNext
    <3>3. Gone(mode, out.at, Here) \in Nat BY <2>2, <2>3 DEF Gone, Counts
    <3>4. QED BY <2>5, <3>1, <3>2, <3>3
  <2>10. Progress' BY <1>m, <2>1, <2>2, <2>5, <2>9
  <2>11. QED BY <2>8, <2>10
<1>5. CASE AlreadyDone
  <2>1. /\ phase = "edit" /\ edit \in 1..Len(Edits(file))
        /\ ~Applies /\ Occurs("new", Here) /\ edit' = edit + 1
        /\ UNCHANGED <<script, text, orig, phase, mode, file, out, rc, count>>
    BY <1>5, <1>l DEF AlreadyDone, InTable, disk, TypeOK
  <2>2. Here = Edits(file)[edit] /\ Here \in Site(file) BY <1>l, <2>1 DEF Here
  <2>3. out \in Texts(file) /\ out.at \in Counts(file) BY <1>o, <2>1 DEF Busy
  <2>4. out.at[Here] \in [old : Nat, new : Nat] BY <2>2, <2>3 DEF Counts
  <2>5. /\ Kind[Here] \in {"replace", "cut"}
        /\ Kind[Here] = "cut" => script.oldFirst /\ mode # "revert"
        /\ Left(Edits(file), 1, Here) \in Nat
    BY <1>f, <2>2, KindsAre DEF Counted
  <2>6. Put(mode, out.at, Here) /\ Gone(mode, out.at, Here) = 0
    <3>1. out.at[Here][Side("new")] > 0 BY <2>1 DEF Occurs
    <3>2. Put(mode, out.at, Here) BY <3>1 DEF Put, Side
    <3>3. CASE script.oldFirst
      <4>1. ~(out.at[Here][Side("old")] > 0)
        BY <2>1, <3>3 DEF Applies, Occurs
      <4>2. QED BY <2>4, <3>2, <4>1 DEF Gone, Side
    <3>4. CASE ~script.oldFirst
      <4>1. Left(Edits(file), 1, Here) = 1 BY <1>f, <2>2, <3>4, ShippedOnce
      <4>2. Kind[Here] = "replace" BY <2>5, <3>4
      <4>3. out.at[Here].old + out.at[Here].new <= 1
        BY <2>1, <2>2, <2>3, <4>1, <4>2 DEF Counted, Bounded, Counts, Busy
      <4>4. QED BY <2>4, <3>1, <3>2, <4>3 DEF Gone, Side
    <3>5. QED BY <3>3, <3>4
  <2>7. Left(Edits(file), edit + 1, Here) \in Nat BY <1>l, <2>1, LeftNext
  <2>8. Counted' BY <1>s, <2>1 DEF Counted
  <2>9. Progress' BY <1>m, <2>1, <2>2, <2>3, <2>6, <2>7
  <2>10. QED BY <2>8, <2>9
<1>6. CASE AnchorNotFound
  <2>1. rc' = 1 /\ UNCHANGED <<text, phase, mode, file, out>>
    BY <1>6 DEF AnchorNotFound, disk
  <2>2. QED BY <1>s, <2>1 DEF Counted, Progress, Writes
<1>7. CASE LeaveFile
  <2>1. /\ EditsDone /\ NextFile /\ text' = text /\ mode' = mode /\ rc' = rc
        /\ mode = "check" \/ out = text[file]
    BY <1>7 DEF LeaveFile, disk
  <2>2. phase = "edit" /\ phase' \notin Busy
    BY <2>1 DEF EditsDone, NextFile, Busy
  <2>3. Writes => FileDone(mode, text'[file])
    BY <1>e, <2>1 DEF Writes
  <2>4. Progress' BY <1>n, <2>1, <2>2, <2>3 DEF Busy
  <2>5. QED BY <1>s, <2>1, <2>2, <2>4 DEF Counted
<1>8. CASE OpenBackup
  <2>1. /\ EditsDone /\ phase = "edit" /\ phase' = "backup"
        /\ UNCHANGED <<script, text, mode, file, edit, out, rc, count>>
    BY <1>8 DEF OpenBackup, EditsDone
  <2>2. Progress' BY <1>e, <2>1 DEF Progress, Writes, Busy
  <2>3. QED BY <1>s, <2>1, <2>2 DEF Counted, Busy
<1>9. CASE FillBackup
  <2>1. /\ phase = "backup" /\ phase' = "backed"
        /\ UNCHANGED <<script, text, mode, file, edit, out, rc, count>>
    BY <1>9 DEF FillBackup
  <2>2. QED BY <1>s, <2>1 DEF Counted, Progress, Writes, Busy
<1>10. CASE OpenFile
  <2>1. /\ \/ EditsDone /\ phase = "edit"
           \/ phase = "backed"
        /\ phase' = "write"
        /\ UNCHANGED <<script, orig, mode, file, edit, out, rc, count>>
    BY <1>10 DEF OpenFile, EditsDone
  <2>2. text' = [f \in File |-> IF f = file THEN Emptied(file) ELSE text[f]]
    BY <1>10, <1>f DEF OpenFile, IsFunctions
  <2>3. Writes => FileDone(mode, out) BY <1>e, <2>1 DEF Progress
  <2>c. Bounded(Edits(file), Emptied(file).at)
    BY <1>f, KindsAre DEF Bounded, Emptied
  <2>b. Bounded(Edits(file), out.at) BY <2>1 DEF Counted, Busy
  <2>4. Counted' BY <1>s, <2>1, <2>2, <2>b, <2>c DEF Counted
  <2>5. \A f \in 1..(file - 1) : text'[f] = text[f] BY <1>f, <2>2
  <2>6. Progress' BY <2>1, <2>3, <2>5 DEF Progress, Writes, Busy
  <2>7. QED BY <2>4, <2>6
<1>11. CASE FillFile
  <2>1. /\ phase = "write" /\ NextFile
        /\ UNCHANGED <<script, orig, mode, edit, out, rc, count>>
    BY <1>11 DEF FillFile
  <2>2. text' = [f \in File |-> IF f = file THEN out ELSE text[f]]
    BY <1>11, <1>f DEF FillFile, IsFunctions
  <2>4. Bounded(Edits(file), out.at) BY <2>1 DEF Counted, Busy
  <2>5. phase' \notin Busy BY <2>1 DEF NextFile, Busy
  <2>6. Counted' BY <1>s, <2>1, <2>2, <2>4, <2>5 DEF Counted
  <2>7. Writes => FileDone(mode, text'[file])
    BY <1>f, <2>1, <2>2 DEF Progress
  <2>8. \A f \in File \ {file} : text'[f] = text[f] BY <2>2
  <2>9. Progress' BY <1>n, <2>1, <2>7, <2>8 DEF Busy
  <2>10. QED BY <2>6, <2>9
<1>12. CASE Report
  <2>1. phase' = "idle" /\ text' = text /\ mode' = mode
    BY <1>12 DEF Report, disk
  <2>2. QED BY <1>s, <2>1 DEF Counted, Progress, Busy
<1>c. CASE Crash
  <2>1. phase' = "idle" /\ mode' = mode BY <1>c DEF Crash
  <2>2. CASE phase # "write"
    <3>1. text' = text BY <1>c, <2>2 DEF Crash
    <3>2. QED BY <1>s, <2>1, <3>1 DEF Counted, Progress, Busy
  <2>3. CASE phase = "write"
    <3>1. PICK t \in CutShort(out) :
             text' = [f \in File |-> IF f = file THEN t ELSE text[f]]
      BY <1>c, <1>f, <2>3 DEF Crash, IsFunctions
    <3>2. Bounded(Edits(file), t.at)
      BY <1>f, <1>o, <2>3, CutsCount DEF Counted, Busy
    <3>3. QED BY <1>s, <2>1, <3>1, <3>2 DEF Counted, Progress, Busy
  <2>4. QED BY <2>2, <2>3
<1>13. ASSUME NEW f \in File, Upgrade(f) PROVE Counted' /\ Progress'
  <2>1. phase = "idle" /\ phase' = "idle" /\ mode' = mode BY <1>13 DEF Upgrade
  <2>2. PICK t \in {NoText} \union { Intact(a) : a \in {Stock(f)} \union Reworded(f) } :
           text' = [g \in File |-> IF g = f THEN t ELSE text[g]]
    BY <1>13, <1>f DEF Upgrade, IsFunctions
  <2>3. t # NoText => Bounded(Edits(f), t.at)
    BY <1>f, <2>2, ReleasesCount, ReleasesAreTexts
  <2>4. QED BY <1>s, <2>1, <2>2, <2>3 DEF Counted, Progress, Busy
<1>14. CASE UNCHANGED vars
  BY <1>s, <1>t, <1>14 DEF vars, Counted, Progress, Writes
<1>15. QED
  BY <1>1, <1>2, <1>3, <1>4, <1>5, <1>6, <1>7, <1>8, <1>9, <1>10, <1>11,
     <1>12, <1>c, <1>13, <1>14 DEF Next, Invocation

\* With such tables exit status 0 can be trusted as far as the edits go: no
\* sequence of runs, --reverts, crashes and reinstallations makes either script
\* report success over a file that is missing or lacks an edit, and only what
\* an earlier crash cut behind its last site passes for a whole file.
THEOREM StatusIsTrue == TrustedTables => (Spec => []ZeroExitMeansDone)
<1> SUFFICES ASSUME TrustedTables PROVE Spec => []ZeroExitMeansDone OBVIOUS
<1>1. Init => Counted /\ Progress
  <2> SUFFICES ASSUME Init PROVE Counted /\ Progress OBVIOUS
  <2>1. \A f \in File : Bounded(Edits(f), Intact(Stock(f)).at)
    BY ReleasesCount, ReleasesAreTexts DEF Init
  <2>2. QED BY <2>1 DEF Init, Counted, Progress, Busy
<1>2. IInv /\ Counted /\ Progress /\ [Next]_vars => Counted' /\ Progress'
  BY StatusInductive
<1>3. IInv /\ Progress => ZeroExitMeansDone
  <2> SUFFICES ASSUME IInv, Progress, phase = "ended",
                      mode \in {"apply", "revert"}, rc = 0,
                      NEW f \in File
               PROVE  Done(f, mode)
    BY DEF ZeroExitMeansDone
  <2>1. FileDone(mode, text[f]) BY DEF Progress, Writes
  <2>2. DOMAIN text[f].at = Site(f)
    BY <2>1 DEF FileDone, IInv, TypeOK, Text, Counts
  <2>3. text[f].cut => count.crashes > 0
    BY <2>1 DEF FileDone, IInv, TypeOK, Unharmed, Whole
  <2>4. QED BY <2>1, <2>2, <2>3 DEF FileDone, Gone, Put, Done
<1>4. QED BY <1>1, <1>2, <1>3, Always, PTL DEF Spec

=============================================================================
