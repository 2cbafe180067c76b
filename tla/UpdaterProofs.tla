---------------------------- MODULE UpdaterProofs ----------------------------
(***************************************************************************)
(* Proofs about Updater and UpdaterHelper, for every number of releases,   *)
(* helpers and runs, with and without failing file operations.             *)
(*                                                                         *)
(* Two invariants carry them.  OffersAreNewer is about the application:    *)
(* whatever replaced, cleared or outlived what, a digest or a manifest     *)
(* that can still lead to an installation belongs to a newer release.      *)
(* PhasesOK is about the helper: what each of its steps has in the three   *)
(* files.  It needs that one helper is at work and that nothing starts the *)
(* application meanwhile, which is the assumption ~Overlap.                *)
(***************************************************************************)
EXTENDS Updater, TLAPS

Published == Releases \union {NoFile}

\* No file the helper handles is ever anything but a complete release.
FsType ==
    [current : Published, backup : Published, staged : Published,
     status : {"none", "ok", "failed", "rolledBack"}]

-----------------------------------------------------------------------------
(* The invariant *)

\* A process that is off has nothing in memory; a download is of an available update;
\* and whatever may become the expected digest belongs to a newer release.
OffersAreNewer ==
    /\ ~app.running => up = UpAtStart /\ frames = <<>>
    /\ up.downloadReply # 0 => up.available
    /\ up.available => /\ up.asset > app.version
                       /\ up.sha # 0 => up.sha > app.version
                       /\ up.manifest # 0 => up.manifest > app.version
    /\ \A i \in DOMAIN frames : frames[i].manifest > app.version

OneActive == \A g, h \in Helpers : Active(g) /\ Active(h) => g = h

\* Between two steps there is a binary, no older than the application, and what runs is
\* what is installed.
Settled ==
    /\ SomeBinary
    /\ fs.current \in Releases => fs.current >= app.version
    /\ app.running => fs.current = app.version

\* What helper h has reached.
PhaseOK(h) ==
    LET pc == helpers[h].pc
        expected == helpers[h].expected
    IN  /\ pc \notin {"wait", "cleanUp"} => ~app.running
        /\ pc # "cleanUp" => expected > app.version
        /\ pc = "wait" => app.run = helpers[h].waitsFor
        /\ pc \in {"wait", "verify", "dropBackup", "backUp"} => fs.current = app.version
        /\ pc \in {"dropBackup", "backUp", "place"} => fs.staged = expected
        /\ pc = "backUp" => fs.backup = NoFile
        /\ pc = "place" => fs.current = NoFile
        /\ pc \in {"place", "permit", "validate", "relaunch"} => fs.backup = app.version
        /\ pc \in {"permit", "validate", "relaunch"} => fs.current = expected
        /\ pc = "cleanUp" => fs.current \in Releases

PhasesOK == \A h \in Helpers : Active(h) => PhaseOK(h)

Replaces == OneActive /\ Settled /\ PhasesOK

IInv == TypeOK /\ fs \in FsType /\ OneRequest /\ OffersAreNewer /\ (~Overlap => Replaces)

-----------------------------------------------------------------------------
(* What the file operations leave *)

\* A file system that holds c, b and s.
Holds(f, c, b, s) == f \in FsType /\ f.current = c /\ f.backup = b /\ f.staged = s

LEMMA PublishedContent ==
    NoFile \in Published /\ NoFile \notin Releases /\ Published \subseteq Content
BY DEF Published, Content, Releases, NoFile

LEMMA RemoveEffect ==
    \A f \in FsType :
        /\ \A r \in Remove(f, "current") :
              \/ r.ok /\ Holds(r.files, NoFile, f.backup, f.staged)
              \/ ~r.ok /\ r.files = f
        /\ \A r \in Remove(f, "backup") :
              \/ r.ok /\ Holds(r.files, f.current, NoFile, f.staged)
              \/ ~r.ok /\ r.files = f
        /\ \A r \in Remove(f, "staged") :
              \/ r.ok /\ Holds(r.files, f.current, f.backup, NoFile)
              \/ ~r.ok /\ r.files = f
BY PublishedContent DEF Remove, Succeeded, Failed, MayFail, Holds, FsType

LEMMA RenameEffect ==
    \A f \in FsType :
        /\ \A r \in Rename(f, "current", "backup") :
              \/ r.ok /\ f.backup = NoFile /\ Holds(r.files, NoFile, f.current, f.staged)
              \/ ~r.ok /\ r.files = f
        /\ \A r \in Rename(f, "backup", "current") :
              \/ r.ok /\ f.current = NoFile /\ Holds(r.files, f.backup, NoFile, f.staged)
              \/ ~r.ok /\ r.files = f
        /\ \A r \in Rename(f, "staged", "current") :
              \/ r.ok /\ f.current = NoFile /\ Holds(r.files, f.staged, f.backup, NoFile)
              \/ ~r.ok /\ r.files = f
BY PublishedContent DEF Rename, Succeeded, Failed, MayFail, Holds, FsType

\* What a copy leaves when it fails: the target as it was, or gone.
LEMMA CopyEffect ==
    \A f \in FsType :
        /\ \A r \in CopyWithOverwrite(f, "current", "backup") :
              \/ r.ok /\ f.current # NoFile /\ Holds(r.files, f.current, f.current, f.staged)
              \/ ~r.ok /\ (r.files = f \/ Holds(r.files, f.current, NoFile, f.staged))
        /\ \A r \in CopyWithOverwrite(f, "backup", "current") :
              \/ r.ok /\ f.backup # NoFile /\ Holds(r.files, f.backup, f.backup, f.staged)
              \/ ~r.ok /\ (r.files = f \/ Holds(r.files, NoFile, f.backup, f.staged))
        /\ \A r \in CopyWithOverwrite(f, "staged", "current") :
              \/ r.ok /\ f.staged # NoFile /\ Holds(r.files, f.staged, f.backup, f.staged)
              \/ ~r.ok /\ (r.files = f \/ Holds(r.files, NoFile, f.backup, f.staged))
BY RemoveEffect, PublishedContent
DEF CopyWithOverwrite, Succeeded, Failed, MayFail, Holds, FsType

\* A move leaves both files when its copy cannot remove the source.
LEMMA MoveEffect ==
    \A f \in FsType :
        /\ \A r \in Move(f, "current", "backup") :
              \/ r.ok /\ f.current # NoFile /\ Holds(r.files, NoFile, f.current, f.staged)
              \/ ~r.ok /\ r.files = f
              \/ ~r.ok /\ Holds(r.files, f.current, NoFile, f.staged)
              \/ ~r.ok /\ f.current # NoFile /\ Holds(r.files, f.current, f.current, f.staged)
        /\ \A r \in Move(f, "backup", "current") :
              \/ r.ok /\ f.backup # NoFile /\ Holds(r.files, f.backup, NoFile, f.staged)
              \/ ~r.ok /\ r.files = f
              \/ ~r.ok /\ Holds(r.files, NoFile, f.backup, f.staged)
              \/ ~r.ok /\ f.backup # NoFile /\ Holds(r.files, f.backup, f.backup, f.staged)
BY RenameEffect, CopyEffect, RemoveEffect, PublishedContent
DEF Move, Rename, Succeeded, Failed, MayFail, Holds

LEMMA RenameOrCopyEffect ==
    \A f \in FsType : \A r \in RenameOrCopy(f, "staged", "current") :
        \/ /\ r.ok
           /\ \/ Holds(r.files, f.staged, f.backup, NoFile)
              \/ Holds(r.files, f.staged, f.backup, f.staged)
        \/ ~r.ok /\ (r.files = f \/ Holds(r.files, NoFile, f.backup, f.staged))
BY RenameEffect, CopyEffect DEF RenameOrCopy, Holds

\* A roll-back may end anywhere, but never without the backup in one of the two places.
LEMMA RollbackEffect ==
    \A f \in FsType : \A g \in Rollback(f) :
        \/ g = f
        \/ /\ f.backup # NoFile
           /\ \/ Holds(g, f.backup, NoFile, f.staged)
              \/ Holds(g, f.backup, f.backup, f.staged)
              \/ Holds(g, NoFile, f.backup, f.staged)
BY MoveEffect, RemoveEffect DEF Rollback, Succeeded, Holds

-----------------------------------------------------------------------------
(* The helper's steps *)

Pcs ==
    {"none", "wait", "verify", "dropBackup", "backUp", "place", "permit", "validate",
     "relaunch", "cleanUp", "done", "killed"}

Typed == HelperTypeOK /\ fs \in FsType

\* Helper h, and it alone, has moved to pc.
Moved(h, pc) ==
    /\ helpers' \in [Helpers -> HelperType]
    /\ helpers'[h].pc = pc
    /\ helpers'[h].expected = helpers[h].expected
    /\ helpers'[h].waitsFor = helpers[h].waitsFor
    /\ \A g \in Helpers \ {h} : helpers'[g] = helpers[g]

LEMMA GoesMoves ==
    ASSUME HelperTypeOK, NEW h \in Helpers, NEW pc \in Pcs, Goes(h, pc)
    PROVE  Moved(h, pc)
<1>1. helpers[h] \in HelperType
  BY DEF HelperTypeOK
<1>2. /\ [helpers[h] EXCEPT !.pc = pc] \in HelperType
      /\ [helpers[h] EXCEPT !.pc = pc].pc = pc
      /\ [helpers[h] EXCEPT !.pc = pc].expected = helpers[h].expected
      /\ [helpers[h] EXCEPT !.pc = pc].waitsFor = helpers[h].waitsFor
  BY <1>1 DEF HelperType, Pcs
<1>3. helpers' = [helpers EXCEPT ![h] = [helpers[h] EXCEPT !.pc = pc]]
  BY DEF Goes, HelperTypeOK
<1> QED
  BY <1>2, <1>3 DEF Moved, HelperTypeOK

LEMMA EndsMoves ==
    ASSUME HelperTypeOK, NEW h \in Helpers, NEW files \in FsType,
           NEW status \in {"none", "ok", "failed", "rolledBack"}, Ends(h, files, status)
    PROVE  /\ Moved(h, "done")
           /\ fs' \in FsType
           /\ fs'.current = files.current /\ fs'.backup = files.backup
           /\ fs'.staged = files.staged
BY GoesMoves DEF Ends, FsType, Pcs

\* The one active helper moves: its own phase is all there is to show.
LEMMA AloneMoves ==
    ASSUME OneActive, NEW h \in Helpers, Active(h), NEW pc \in Pcs, Moved(h, pc),
           Settled', pc \notin {"none", "done", "killed"} => PhaseOK(h)'
    PROVE  Replaces'
<1>1. \A g \in Helpers : Active(g)' => g = h /\ pc \notin {"none", "done", "killed"}
  BY DEF OneActive, Active, Moved
<1> QED
  BY <1>1 DEF Replaces, OneActive, PhasesOK

\* What one step of a helper has to keep.
Kept == Typed' /\ (Replaces => Replaces')

\* A file system the helper may stop at.
Fits(f) ==
    /\ f.current \in Releases \/ f.backup \in Releases
    /\ f.current \in Releases => f.current >= app.version
    /\ app.running => f.current = app.version

LEMMA EndKeeps ==
    ASSUME Typed, NEW h \in Helpers, Active(h), app' = app, NEW files \in FsType,
           NEW status \in {"none", "ok", "failed", "rolledBack"}, Ends(h, files, status),
           Replaces => Fits(files)
    PROVE  Kept
<1>1. /\ Moved(h, "done") /\ fs' \in FsType
      /\ fs'.current = files.current /\ fs'.backup = files.backup /\ fs'.staged = files.staged
  BY EndsMoves DEF Typed
<1>2. Typed'
  BY <1>1, PublishedContent DEF Typed, HelperTypeOK, FsType, Moved
<1>3. ASSUME Replaces PROVE Settled'
  BY <1>1, <1>3 DEF Replaces, Settled, SomeBinary, Fits
<1> QED
  BY <1>1, <1>2, <1>3, AloneMoves DEF Kept, Replaces, Pcs

LEMMA GoKeeps ==
    ASSUME Typed, NEW h \in Helpers, Active(h), app' = app, NEW pc \in Pcs, Goes(h, pc),
           fs' \in FsType,
           Replaces => Settled' /\ (Moved(h, pc) /\ pc # "killed" => PhaseOK(h)')
    PROVE  Kept
<1>1. Moved(h, pc)
  BY GoesMoves DEF Typed
<1>2. Typed'
  BY <1>1, PublishedContent DEF Typed, HelperTypeOK, FsType, Moved
<1> QED
  BY <1>1, <1>2, AloneMoves DEF Kept, Replaces

LEMMA FsTyped == Typed => fs \in FsType
BY DEF Typed

\* Where nothing has changed, the files fit.
LEMMA FilesFit == Replaces => Fits(fs)
BY DEF Replaces, Settled, SomeBinary, Fits

LEMMA WaitsKeeps ==
    ASSUME Typed, NEW h \in Helpers, HelperWaits(h)
    PROVE  Kept /\ app' = app
<1> USE DEF HelperWaits
<1>1. app' = app /\ fs \in FsType /\ Active(h)
  BY FsTyped DEF Active
<1>2. CASE Goes(h, "verify") /\ UNCHANGED fs /\ ~(app.running /\ app.run = helpers[h].waitsFor)
  <2>1. ASSUME Replaces PROVE Settled' /\ (Moved(h, "verify") => PhaseOK(h)')
    BY <1>1, <1>2, <2>1 DEF Replaces, Settled, SomeBinary, PhasesOK, PhaseOK, Moved
  <2> QED
    BY <1>1, <1>2, <2>1, GoKeeps DEF Pcs
<1>3. CASE Ends(h, fs, "failed")
  BY <1>1, <1>3, EndKeeps, FilesFit
<1> QED
  BY <1>1, <1>2, <1>3

LEMMA VerifiesKeeps ==
    ASSUME Typed, NEW h \in Helpers, HelperVerifies(h)
    PROVE  Kept /\ app' = app
<1> USE DEF HelperVerifies
<1>1. app' = app /\ fs \in FsType /\ Active(h)
  BY FsTyped DEF Active
<1>2. CASE fs.staged = helpers[h].expected
  <2>1. ASSUME Replaces PROVE Settled' /\ (Moved(h, "dropBackup") => PhaseOK(h)')
    BY <1>1, <1>2, <2>1 DEF Replaces, Settled, SomeBinary, PhasesOK, PhaseOK, Moved
  <2> QED
    BY <1>1, <1>2, <2>1, GoKeeps DEF Pcs
<1>3. CASE fs.staged # helpers[h].expected
  BY <1>1, <1>3, EndKeeps, FilesFit
<1> QED
  BY <1>1, <1>2, <1>3

LEMMA DropsBackupKeeps ==
    ASSUME Typed, NEW h \in Helpers, HelperDropsBackup(h)
    PROVE  Kept /\ app' = app
<1> USE DEF HelperDropsBackup
<1>1. app' = app /\ fs \in FsType /\ Active(h) /\ helpers[h].pc = "dropBackup"
  BY FsTyped DEF Active
<1>2. CASE Ends(h, fs, "failed")
  BY <1>1, <1>2, EndKeeps, FilesFit
<1>3. CASE Goes(h, "backUp") /\ Holds(fs', fs.current, NoFile, fs.staged)
  <2>1. ASSUME Replaces PROVE Settled' /\ (Moved(h, "backUp") => PhaseOK(h)')
    <3>1. fs.current = app.version /\ app.version \in Releases
      BY <1>1, <2>1 DEF Replaces, PhasesOK, PhaseOK, Typed, HelperTypeOK
    <3> QED
      BY <1>1, <1>3, <2>1, <3>1
      DEF Replaces, Settled, SomeBinary, PhasesOK, PhaseOK, Moved, Holds, Releases
  <2> QED
    BY <1>1, <1>3, <2>1, GoKeeps DEF Pcs, Holds
<1> QED
  BY <1>1, <1>2, <1>3, RemoveEffect DEF Holds

LEMMA BacksUpKeeps ==
    ASSUME Typed, NEW h \in Helpers, HelperBacksUp(h)
    PROVE  Kept /\ app' = app
<1> USE DEF HelperBacksUp
<1>1. app' = app /\ fs \in FsType /\ Active(h) /\ helpers[h].pc = "backUp"
  BY FsTyped DEF Active
<1>2. ASSUME Replaces
      PROVE  /\ fs.current = app.version /\ fs.backup = NoFile /\ app.version \in Releases
             /\ ~app.running /\ fs.staged = helpers[h].expected
             /\ helpers[h].expected > app.version
  BY <1>1, <1>2 DEF Replaces, PhasesOK, PhaseOK, Typed, HelperTypeOK
<1>3. CASE Goes(h, "place") /\ Holds(fs', NoFile, fs.current, fs.staged)
  <2>1. ASSUME Replaces PROVE Settled' /\ (Moved(h, "place") => PhaseOK(h)')
    BY <1>1, <1>2, <1>3, <2>1, PublishedContent
    DEF Settled, SomeBinary, PhaseOK, Moved, Holds
  <2> QED
    BY <1>1, <1>3, <2>1, GoKeeps DEF Pcs, Holds
<1>4. ASSUME NEW files \in FsType, Ends(h, files, "failed"),
             files.current = fs.current
      PROVE  Kept
  <2>1. Replaces => Fits(files)
    BY <1>2, <1>4, FilesFit DEF Fits, Releases
  <2> QED
    BY <1>1, <1>4, <2>1, EndKeeps
<1>5. PICK r \in Move(fs, "current", "backup") :
          IF r.ok THEN fs' = r.files /\ Goes(h, "place") ELSE Ends(h, r.files, "failed")
  BY <1>1
<1>6. CASE r.ok
  BY <1>1, <1>3, <1>5, <1>6, MoveEffect
<1>7. CASE ~r.ok
  BY <1>1, <1>4, <1>5, <1>7, MoveEffect DEF Holds
<1> QED
  BY <1>1, <1>6, <1>7

LEMMA PlacesKeeps ==
    ASSUME Typed, NEW h \in Helpers, HelperPlaces(h)
    PROVE  Kept /\ app' = app
<1> USE DEF HelperPlaces
<1>1. app' = app /\ fs \in FsType /\ Active(h) /\ helpers[h].pc = "place"
  BY FsTyped DEF Active
<1>2. ASSUME Replaces
      PROVE  /\ fs.current = NoFile /\ fs.backup = app.version /\ app.version \in Releases
             /\ ~app.running /\ fs.staged = helpers[h].expected
             /\ helpers[h].expected > app.version /\ helpers[h].expected \in Releases
  BY <1>1, <1>2 DEF Replaces, PhasesOK, PhaseOK, Typed, HelperTypeOK, HelperType
<1>3. CASE /\ Goes(h, "permit")
           /\ \/ Holds(fs', fs.staged, fs.backup, NoFile)
              \/ Holds(fs', fs.staged, fs.backup, fs.staged)
  <2>1. ASSUME Replaces PROVE Settled' /\ (Moved(h, "permit") => PhaseOK(h)')
    BY <1>1, <1>2, <1>3, <2>1 DEF Settled, SomeBinary, PhaseOK, Moved, Holds, Releases
  <2> QED
    BY <1>1, <1>3, <2>1, GoKeeps DEF Pcs, Holds
<1>4. ASSUME NEW files \in FsType, Ends(h, files, "failed"),
             \/ files.backup = fs.backup /\ files.current \in {fs.current, NoFile}
             \/ files.current = fs.backup
      PROVE  Kept
  <2>1. Replaces => Fits(files)
    BY <1>2, <1>4, PublishedContent DEF Fits, Releases
  <2> QED
    BY <1>1, <1>4, <2>1, EndKeeps
<1>5. PICK r \in RenameOrCopy(fs, "staged", "current") :
          IF r.ok
          THEN /\ \E files \in {r.files} \union {s.files : s \in Remove(r.files, "staged")} :
                    fs' = files
               /\ Goes(h, "permit")
          ELSE \E back \in Rename(r.files, "backup", "current") : Ends(h, back.files, "failed")
  BY <1>1
<1>6. CASE r.ok
  BY <1>1, <1>3, <1>5, <1>6, RenameOrCopyEffect, RemoveEffect DEF Holds
<1>7. CASE ~r.ok
  <2>1. PICK back \in Rename(r.files, "backup", "current") : Ends(h, back.files, "failed")
    BY <1>5, <1>7
  <2>2. /\ r.files \in FsType /\ r.files.backup = fs.backup
        /\ r.files.current \in {fs.current, NoFile}
    BY <1>1, <1>5, <1>7, RenameOrCopyEffect DEF Holds
  <2>3. /\ back.files \in FsType
        /\ \/ back.files.current = fs.backup
           \/ back.files.backup = fs.backup /\ back.files.current \in {fs.current, NoFile}
    BY <2>1, <2>2, RenameEffect DEF Holds
  <2> QED
    BY <1>4, <2>1, <2>3
<1> QED
  BY <1>1, <1>6, <1>7

LEMMA PermitsKeeps ==
    ASSUME Typed, NEW h \in Helpers, HelperPermits(h)
    PROVE  Kept /\ app' = app
<1> USE DEF HelperPermits
<1>1. app' = app /\ fs \in FsType /\ Active(h) /\ helpers[h].pc = "permit"
  BY FsTyped DEF Active
<1>2. ASSUME Replaces
      PROVE  /\ fs.current = helpers[h].expected /\ fs.backup = app.version
             /\ app.version \in Releases /\ ~app.running
             /\ helpers[h].expected > app.version /\ helpers[h].expected \in Releases
  BY <1>1, <1>2 DEF Replaces, PhasesOK, PhaseOK, Typed, HelperTypeOK, HelperType
<1>3. CASE Goes(h, "validate") /\ UNCHANGED fs
  <2>1. ASSUME Replaces PROVE Settled' /\ (Moved(h, "validate") => PhaseOK(h)')
    BY <1>1, <1>2, <1>3, <2>1 DEF Settled, SomeBinary, PhaseOK, Moved, Releases
  <2> QED
    BY <1>1, <1>3, <2>1, GoKeeps DEF Pcs
<1>4. ASSUME NEW removed \in Remove(fs, "current"),
             NEW back \in Rename(removed.files, "backup", "current"),
             Ends(h, back.files, "failed")
      PROVE  Kept
  <2>1. /\ removed.files \in FsType /\ removed.files.backup = fs.backup
        /\ removed.files.current \in {fs.current, NoFile}
    BY <1>1, RemoveEffect DEF Holds
  <2>2. /\ back.files \in FsType
        /\ \/ back.files.current = fs.backup
           \/ back.files.backup = fs.backup /\ back.files.current \in {fs.current, NoFile}
    BY <2>1, RenameEffect DEF Holds
  <2>3. Replaces => Fits(back.files)
    BY <1>2, <2>2, PublishedContent DEF Fits, Releases
  <2> QED
    BY <1>1, <1>4, <2>2, <2>3, EndKeeps
<1> QED
  BY <1>1, <1>3, <1>4

\* What relaunching and validating may fall back on.
LEMMA RollbackFits ==
    ASSUME Typed, NEW files \in Rollback(fs)
    PROVE  /\ files \in FsType
           /\ fs.backup = app.version /\ ~app.running /\ Fits(fs) => Fits(files)
<1>1. fs \in FsType /\ app.version \in Releases
  BY FsTyped DEF Typed, HelperTypeOK
<1> QED
  BY <1>1, RollbackEffect, PublishedContent DEF Holds, Fits, Releases

LEMMA ValidatesKeeps ==
    ASSUME Typed, NEW h \in Helpers, HelperValidates(h)
    PROVE  Kept /\ app' = app
<1> USE DEF HelperValidates
<1>1. app' = app /\ fs \in FsType /\ Active(h) /\ helpers[h].pc = "validate"
  BY FsTyped DEF Active
<1>2. CASE Goes(h, "relaunch") /\ UNCHANGED fs
  <2>1. ASSUME Replaces PROVE Settled' /\ (Moved(h, "relaunch") => PhaseOK(h)')
    BY <1>1, <1>2, <2>1 DEF Replaces, Settled, SomeBinary, PhasesOK, PhaseOK, Moved
  <2> QED
    BY <1>1, <1>2, <2>1, GoKeeps DEF Pcs
<1>3. ASSUME NEW files \in Rollback(fs), Ends(h, files, "rolledBack")
      PROVE  Kept
  <2>1. Replaces => Fits(files)
    BY <1>1, RollbackFits, FilesFit DEF Replaces, PhasesOK, PhaseOK
  <2> QED
    BY <1>1, <1>3, <2>1, RollbackFits, EndKeeps
<1> QED
  BY <1>1, <1>2, <1>3

\* The application the helper starts is the release that was expected.
LEMMA RelaunchesKeeps ==
    ASSUME Typed, NEW h \in Helpers, HelperRelaunches(h)
    PROVE  /\ Kept
           /\ app' = app \/ ~app.running
           /\ Replaces => app'.version >= app.version
<1> USE DEF HelperRelaunches
<1>1. fs \in FsType /\ Active(h) /\ helpers[h].pc = "relaunch"
  BY FsTyped DEF Active
<1>2. ASSUME Replaces
      PROVE  /\ fs.current = helpers[h].expected /\ fs.backup = app.version /\ ~app.running
             /\ helpers[h].expected > app.version /\ helpers[h].expected \in Releases
             /\ app.version \in Releases
  BY <1>1, <1>2 DEF Replaces, PhasesOK, PhaseOK, Typed, HelperTypeOK, HelperType
<1>3. CASE Goes(h, "cleanUp") /\ fs.current # NoFile /\ app' = app /\ fs' = fs
  <2>1. ASSUME Replaces PROVE Settled' /\ (Moved(h, "cleanUp") => PhaseOK(h)')
    BY <1>1, <1>2, <1>3, <2>1 DEF Replaces, Settled, SomeBinary, PhaseOK, Moved
  <2>2. Replaces => app'.version >= app.version
    BY <1>2, <1>3 DEF Releases
  <2> QED
    BY <1>1, <1>3, <2>1, <2>2, GoKeeps DEF Pcs
<1>4. CASE /\ Goes(h, "cleanUp") /\ fs.current # NoFile /\ ~app.running /\ app.run # MaxRuns
           /\ app' = [running |-> TRUE, run |-> app.run + 1, version |-> fs.current]
           /\ fs' = [fs EXCEPT !.status = "none"]
  <2>1. Moved(h, "cleanUp")
    BY <1>4, GoesMoves DEF Typed, Pcs
  <2>2. Holds(fs', fs.current, fs.backup, fs.staged)
    BY <1>1, <1>4 DEF Holds, FsType
  <2>3. app'.running /\ app'.version = fs.current /\ app'.run = app.run + 1
    BY <1>4
  <2>4. Typed'
    BY <1>1, <1>4, <2>1, <2>2, PublishedContent, UpdaterHelperAssumption
    DEF Typed, HelperTypeOK, Moved, Holds, FsType, Published
  <2>5. ASSUME Replaces PROVE Replaces' /\ app'.version >= app.version
    <3>1. Settled' /\ PhaseOK(h)'
      BY <1>1, <1>2, <2>1, <2>2, <2>3, <2>5
      DEF Replaces, Settled, SomeBinary, PhaseOK, Moved, Holds, Releases
    <3> QED
      BY <1>1, <1>2, <2>1, <2>3, <2>5, <3>1, AloneMoves DEF Replaces, Pcs, Releases
  <2> QED
    BY <1>2, <1>4, <2>4, <2>5 DEF Kept
<1>5. ASSUME NEW files \in Rollback(fs), Ends(h, files, "rolledBack"), UNCHANGED app
      PROVE  Kept
  <2>1. Replaces => Fits(files)
    BY <1>1, <1>2, RollbackFits, FilesFit
  <2> QED
    BY <1>1, <1>5, <2>1, RollbackFits, EndKeeps
<1>6. ASSUME app' = app PROVE Replaces => app'.version >= app.version
  BY <1>2, <1>6 DEF Releases
<1>7. app.run \in Int
  BY DEF Typed, HelperTypeOK
<1> QED
  BY <1>1, <1>3, <1>4, <1>5, <1>6, <1>7

LEMMA CleansUpKeeps ==
    ASSUME Typed, NEW h \in Helpers, HelperCleansUp(h)
    PROVE  Kept /\ app' = app
<1> USE DEF HelperCleansUp
<1>1. app' = app /\ fs \in FsType /\ Active(h) /\ helpers[h].pc = "cleanUp"
  BY FsTyped DEF Active
<1>2. PICK staged \in Remove(fs, "staged") :
          \E both \in Remove(staged.files, "backup") : Ends(h, both.files, "ok")
  OBVIOUS
<1>3. PICK both \in Remove(staged.files, "backup") : Ends(h, both.files, "ok")
  BY <1>2
<1>4. staged.files \in FsType /\ staged.files.current = fs.current
  BY <1>1, RemoveEffect DEF Holds
<1>5. both.files \in FsType /\ both.files.current = fs.current
  BY <1>4, RemoveEffect DEF Holds
<1>6. Replaces => Fits(both.files)
  BY <1>1, <1>5, FilesFit DEF Replaces, PhasesOK, PhaseOK, Fits
<1> QED
  BY <1>1, <1>3, <1>5, <1>6, EndKeeps

LEMMA KilledKeeps ==
    ASSUME Typed, NEW h \in Helpers, HelperKilled(h)
    PROVE  Kept /\ app' = app
<1>1. app' = app /\ fs' = fs /\ fs \in FsType /\ Active(h) /\ Goes(h, "killed")
  BY FsTyped DEF HelperKilled
<1>2. Replaces => Settled'
  BY <1>1 DEF Replaces, Settled, SomeBinary
<1> QED
  BY <1>1, <1>2, GoKeeps DEF Pcs

\* The application changes only by being started from what is installed.
LEMMA HelperKeeps ==
    ASSUME Typed, NEW h \in Helpers, HelperStep(h) \/ HelperKilled(h)
    PROVE  /\ Kept
           /\ app' = app \/ ~app.running
           /\ Replaces => app'.version >= app.version
<1>1. app.version \in Int
  BY DEF Typed, HelperTypeOK, Releases
<1> QED
  BY <1>1, WaitsKeeps, VerifiesKeeps, DropsBackupKeeps, BacksUpKeeps, PlacesKeeps,
     PermitsKeeps, ValidatesKeeps, RelaunchesKeeps, CleansUpKeeps, KilledKeeps
  DEF HelperStep

\* An action that leaves the three files, the application and the helpers alone.
LEMMA OthersKeep ==
    ASSUME Typed, UNCHANGED <<app, helpers>>, fs' \in FsType, fs'.current = fs.current,
           fs'.backup = fs.backup, fs'.staged = fs.staged
    PROVE  Kept
<1>1. Typed'
  BY PublishedContent DEF Typed, HelperTypeOK, FsType
<1>2. Replaces => Replaces'
  BY DEF Replaces, OneActive, Settled, SomeBinary, PhasesOK, PhaseOK, Active
<1> QED
  BY <1>1, <1>2 DEF Kept


-----------------------------------------------------------------------------
(* The updater's actions *)

\* What the application alone has to keep.
UpdaterTyped ==
    /\ feed \in [1..MaxRelease -> [digest : BOOLEAN, manifest : BOOLEAN]]
    /\ newest \in Releases
    /\ up \in UpType
    /\ frames \in Seq(FrameType)
    /\ file \in Content
    /\ quitting \in BOOLEAN
    /\ used \in [checks : 0..MaxChecks, downloads : 0..MaxDownloads]

Offers == UpdaterTyped /\ OneRequest /\ OffersAreNewer

LEMMA AtStart ==
    /\ UpAtStart \in UpType
    /\ ~UpAtStart.checkReply /\ ~UpAtStart.checking /\ UpAtStart.downloadReply = 0
    /\ ~UpAtStart.available
BY UpdaterHelperAssumption DEF UpAtStart, UpType, Releases

LEMMA CheckKeeps ==
    ASSUME Typed, Offers, CheckForUpdates
    PROVE  Kept /\ Offers' /\ app' = app
<1>1. /\ fs' \in FsType /\ fs'.current = fs.current
      /\ fs'.backup = fs.backup /\ fs'.staged = fs.staged
  BY FsTyped DEF CheckForUpdates, FsType
<1>2. CASE UNCHANGED <<up, used>>
  BY <1>1, <1>2, OthersKeep
  DEF CheckForUpdates, Offers, UpdaterTyped, OneRequest, OffersAreNewer
<1>3. CASE /\ ~(up.checking \/ up.checkReply \/ up.downloadReply # 0)
           /\ up' = [up EXCEPT !.checking = TRUE, !.checkReply = TRUE]
           /\ used' = [used EXCEPT !.checks = @ + 1]
  <2>1. up' \in UpType
    BY <1>3 DEF Offers, UpdaterTyped, UpType
  <2>2. /\ up'.checking /\ up'.checkReply /\ up'.downloadReply = up.downloadReply
        /\ up'.available = up.available /\ up'.asset = up.asset /\ up'.sha = up.sha
        /\ up'.manifest = up.manifest
    BY <1>3 DEF Offers, UpdaterTyped, UpType
  <2>3. used' \in [checks : 0..MaxChecks, downloads : 0..MaxDownloads]
    BY <1>3, UpdaterAssumption DEF CheckForUpdates, Offers, UpdaterTyped
  <2>4. UNCHANGED <<app, helpers, feed, newest, frames, file, quitting>> /\ app.running
    BY DEF CheckForUpdates
  <2>5. UpdaterTyped'
    BY <2>1, <2>3, <2>4 DEF Offers, UpdaterTyped
  <2>6. OneRequest' /\ OffersAreNewer'
    BY <1>3, <2>2, <2>4 DEF Offers, OneRequest, OffersAreNewer
  <2> QED
    BY <1>1, <2>4, <2>5, <2>6, OthersKeep DEF Offers
<1> QED
  BY <1>2, <1>3 DEF CheckForUpdates

LEMMA CheckFinishedKeeps ==
    ASSUME Typed, Offers, OnCheckFinished
    PROVE  Kept /\ Offers' /\ app' = app
<1>1. /\ UNCHANGED <<app, fs, helpers, feed, newest, frames, file, quitting, used>>
      /\ up.checkReply
  BY DEF OnCheckFinished
<1>2. up.downloadReply = 0 /\ up \in UpType /\ newest \in Releases /\ app.running
  BY <1>1, AtStart DEF Offers, OneRequest, OffersAreNewer, UpdaterTyped
<1>3. app.version \in Int /\ Releases \subseteq Int /\ 0 \in Releases
  BY UpdaterHelperAssumption DEF Typed, HelperTypeOK, Releases
\* A new release counts as available only when it is newer, and brings its own digest and
\* manifest; in the other cases nothing is available.
<1>4. /\ up' \in UpType
      /\ ~up'.checkReply /\ ~up'.checking /\ up'.downloadReply = 0
      /\ up'.available => /\ up'.asset > app.version
                          /\ up'.sha # 0 => up'.sha = up'.asset
                          /\ up'.manifest # 0 => up'.manifest = up'.asset
  <2>1. CASE up' = Found(up, newest)
    <3> DEFINE sha == IF feed[newest].digest THEN newest ELSE 0
               manifest == IF feed[newest].manifest THEN newest ELSE 0
               available == newest > app.version
    <3>1. up' = [up EXCEPT !.checking = FALSE, !.checkReply = FALSE, !.available = available,
                           !.asset = newest, !.sha = sha, !.manifest = manifest,
                           !.path = FALSE]
      BY <2>1 DEF Found
    <3>2. /\ sha \in Releases /\ manifest \in Releases /\ available \in BOOLEAN
          /\ sha # 0 => sha = newest
          /\ manifest # 0 => manifest = newest
          /\ available => newest > app.version
      BY <1>2, <1>3
    <3> HIDE DEF sha, manifest, available
    <3>3. up' \in UpType
      BY <1>2, <3>1, <3>2 DEF UpType
    <3>4. /\ ~up'.checkReply /\ ~up'.checking /\ up'.downloadReply = 0
          /\ up'.asset = newest /\ up'.sha = sha /\ up'.manifest = manifest
      BY <1>2, <3>1 DEF UpType
    <3>5. up'.available = available
      BY <1>2, <3>1 DEF UpType
    <3> QED
      BY <3>2, <3>3, <3>4, <3>5
  <2>2. CASE up' = NotPublished(up)
    BY <1>2, <1>3, <2>2 DEF NotPublished, UpType
  <2>3. CASE up' = CheckFailed(up)
    BY <1>2, <1>3, <2>3 DEF CheckFailed, UpType
  <2> QED
    BY <2>1, <2>2, <2>3 DEF OnCheckFinished
<1>5. UpdaterTyped' /\ OneRequest'
  BY <1>1, <1>4 DEF Offers, UpdaterTyped, OneRequest
<1>6. OffersAreNewer'
  BY <1>1, <1>2, <1>4 DEF Offers, OffersAreNewer
<1> QED
  BY <1>1, <1>5, <1>6, FsTyped, OthersKeep DEF Offers

\* An action of the application that leaves the helper's side alone.
Quiet == UNCHANGED <<app, fs, helpers>>

LEMMA QuietKeeps == Typed /\ Quiet => Kept
BY FsTyped, OthersKeep DEF Quiet

LEMMA DownloadKeeps ==
    ASSUME Typed, Offers, DownloadUpdate
    PROVE  Kept /\ Offers' /\ app' = app
<1>1. /\ Quiet /\ UNCHANGED <<feed, newest, frames, quitting>>
      /\ up.available /\ up.asset # 0 /\ ~up.checking /\ app.running
      /\ used.downloads < MaxDownloads
      /\ used' = [used EXCEPT !.downloads = @ + 1]
  BY DEF DownloadUpdate, CanDownload, Quiet
<1>2. up \in UpType /\ ~up.checkReply /\ up.downloadReply = 0
  BY <1>1 DEF Offers, OneRequest, UpdaterTyped, CanDownload, DownloadUpdate
<1>3. file' \in Content
  BY DEF DownloadUpdate, Content, Offers, UpdaterTyped
<1>4. used' \in [checks : 0..MaxChecks, downloads : 0..MaxDownloads]
  BY <1>1, UpdaterAssumption DEF Offers, UpdaterTyped
<1>5. /\ up' \in UpType
      /\ up'.available = up.available /\ up'.asset = up.asset /\ up'.sha = up.sha
      /\ up'.manifest = up.manifest /\ up'.checkReply = up.checkReply
      /\ \/ up'.downloadReply # 0 /\ up'.checking
         \/ up'.downloadReply = 0 /\ ~up'.checking
  <2>1. CASE up' = [up EXCEPT !.path = TRUE, !.checking = TRUE,
                              !.downloadReply = up.asset, !.linked = TRUE]
    BY <1>1, <1>2, <2>1 DEF UpType
  <2>2. CASE up' = [up EXCEPT !.path = TRUE]
    BY <1>1, <1>2, <2>2 DEF UpType
  <2> QED
    BY <2>1, <2>2 DEF DownloadUpdate
<1>6. UpdaterTyped'
  BY <1>1, <1>3, <1>4, <1>5 DEF Offers, UpdaterTyped
<1>7. OneRequest' /\ OffersAreNewer'
  BY <1>1, <1>2, <1>5 DEF Offers, OneRequest, OffersAreNewer, Quiet
<1> QED
  BY <1>1, <1>6, <1>7, QuietKeeps DEF Offers, Quiet

\* Closing a download, or removing its file, leaves what was offered.
LEMMA ClosedKeeps ==
    ASSUME Offers, app' = app, UNCHANGED <<feed, newest, quitting, used>>, file' \in Content,
           up.downloadReply # 0, up' = Closed(up)
    PROVE  /\ OneRequest'
           /\ frames' \in Seq(FrameType) => UpdaterTyped'
           /\ (\A i \in DOMAIN frames' : frames'[i].manifest > app.version) => OffersAreNewer'
<1>1. up \in UpType /\ ~up.checkReply /\ app.running
  BY AtStart DEF Offers, OneRequest, UpdaterTyped, OffersAreNewer
<1>2. 0 \in Releases
  BY UpdaterHelperAssumption DEF Releases
<1>3. up' \in UpType
  BY <1>1, <1>2 DEF Closed, UpType
<1>4. /\ up'.available = up.available /\ up'.asset = up.asset /\ up'.sha = up.sha
      /\ up'.manifest = up.manifest /\ up'.checkReply = up.checkReply
      /\ up'.downloadReply = 0 /\ ~up'.checking
  BY <1>1 DEF Closed, UpType
<1> QED
  BY <1>1, <1>3, <1>4 DEF Offers, OneRequest, OffersAreNewer, UpdaterTyped

LEMMA ContentAfter ==
    ASSUME NEW u, NEW content \in Content
    PROVE  FileAfter(u, content) \in Content
BY DEF FileAfter, Content

\* The manifest asked for is the one of the release that was downloaded as an update.
LEMMA ArrivesKeeps ==
    ASSUME Typed, Offers, DownloadArrives
    PROVE  Kept /\ Offers' /\ app' = app
<1>0. PICK content \in IF up.linked THEN {up.downloadReply, Partial} ELSE {file} :
          /\ up' = Closed(up)
          /\ IF up.sha = 0 /\ up.manifest # 0
             THEN /\ frames' = Append(frames, [manifest |-> up.manifest, reply |-> "waiting"])
                  /\ file' = content
             ELSE /\ file' = FileAfter(up, content)
                  /\ UNCHANGED frames
  BY DEF DownloadArrives
<1> DEFINE frame == [manifest |-> up.manifest, reply |-> "waiting"]
<1>1. /\ Quiet /\ UNCHANGED <<feed, newest, quitting, used>>
      /\ up.downloadReply # 0 /\ up' = Closed(up)
  BY DEF DownloadArrives, Quiet
<1>2. up \in UpType /\ up.available /\ app.running /\ frames \in Seq(FrameType)
  BY <1>1, AtStart DEF Offers, OffersAreNewer, UpdaterTyped
<1>3. content \in Content
  BY <1>0, <1>2 DEF UpType, Content, Offers, UpdaterTyped
<1>4. CASE up.sha = 0 /\ up.manifest # 0
  <2>1. frames' = Append(frames, frame) /\ file' = content
    BY <1>0, <1>4
  <2>2. frame \in FrameType /\ frame.manifest > app.version
    BY <1>2, <1>4 DEF FrameType, UpType, Offers, OffersAreNewer
  <2> HIDE DEF frame
  <2>3. /\ frames' \in Seq(FrameType)
        /\ \A i \in DOMAIN frames' : frames'[i].manifest > app.version
    BY <1>2, <2>1, <2>2 DEF Offers, OffersAreNewer
  <2> QED
    BY <1>1, <1>3, <2>1, <2>3, ClosedKeeps, QuietKeeps DEF Offers, Quiet
<1>5. CASE ~(up.sha = 0 /\ up.manifest # 0)
  <2>1. frames' = frames /\ file' \in Content
    BY <1>0, <1>3, <1>5, ContentAfter
  <2> QED
    BY <1>1, <1>2, <2>1, ClosedKeeps, QuietKeeps DEF Offers, OffersAreNewer, Quiet
<1> QED
  BY <1>4, <1>5

LEMMA FailsKeeps ==
    ASSUME Typed, Offers, DownloadFails
    PROVE  Kept /\ Offers' /\ app' = app
<1>1. /\ Quiet /\ UNCHANGED <<feed, newest, quitting, used, frames>>
      /\ up.downloadReply # 0 /\ up' = Closed(up) /\ file' \in Content
  BY DEF DownloadFails, Quiet, Content
<1>2. frames \in Seq(FrameType)
  BY DEF Offers, UpdaterTyped
<1> QED
  BY <1>1, <1>2, ClosedKeeps, QuietKeeps DEF Offers, OffersAreNewer, Quiet

LEMMA RepliesKeeps ==
    ASSUME Typed, Offers, ManifestReplies
    PROVE  Kept /\ Offers' /\ app' = app
<1>1. PICK i \in DOMAIN frames, reply \in {"ok", "failed"} :
          /\ Quiet /\ UNCHANGED <<feed, newest, up, file, quitting, used>>
          /\ frames' = [frames EXCEPT ![i].reply = reply]
  BY DEF ManifestReplies, Quiet
<1>2. frames \in Seq(FrameType) /\ frames[i] \in FrameType
  BY DEF Offers, UpdaterTyped
<1> DEFINE frame == [frames[i] EXCEPT !.reply = reply]
<1>3. frame \in FrameType /\ frame.manifest = frames[i].manifest
  BY <1>2 DEF FrameType
<1>4. frames' = [frames EXCEPT ![i] = frame]
  BY <1>1
<1> HIDE DEF frame
<1>5. frames' \in Seq(FrameType) /\ frames # <<>>
  BY <1>2, <1>3, <1>4
<1>6. \A j \in DOMAIN frames' : frames'[j].manifest > app.version
  BY <1>2, <1>3, <1>4 DEF Offers, OffersAreNewer
<1>7. UpdaterTyped' /\ OneRequest' /\ OffersAreNewer'
  BY <1>1, <1>5, <1>6 DEF Offers, UpdaterTyped, OneRequest, OffersAreNewer, Quiet
<1> QED
  BY <1>1, <1>7, QuietKeeps DEF Offers, Quiet

\* The digest found belongs to the release downloaded then, which was newer.
LEMMA ReturnsKeeps ==
    ASSUME Typed, Offers, FrameReturns
    PROVE  Kept /\ Offers' /\ app' = app
<1> DEFINE frame == frames[Len(frames)]
           u == IF frame.reply = "ok" THEN [up EXCEPT !.sha = frame.manifest] ELSE up
<1>1. /\ Quiet /\ UNCHANGED <<feed, newest, quitting, used>> /\ frames # <<>>
      /\ up' = Verified(u, file) /\ file' = FileAfter(u, file)
      /\ frames' = SubSeq(frames, 1, Len(frames) - 1)
  BY DEF FrameReturns, Quiet
<1>2. /\ frames \in Seq(FrameType) /\ up \in UpType /\ app.running
      /\ frame \in FrameType /\ frame.manifest > app.version
  BY <1>1 DEF Offers, UpdaterTyped, OffersAreNewer
<1>3. frame.manifest \in Releases
  BY <1>2 DEF FrameType
<1> HIDE DEF frame
<1>4. /\ u \in UpType /\ u.sha \in {up.sha, frame.manifest}
      /\ u.available = up.available /\ u.asset = up.asset
      /\ u.manifest = up.manifest /\ u.checkReply = up.checkReply
      /\ u.downloadReply = up.downloadReply /\ u.checking = up.checking
  BY <1>2, <1>3 DEF UpType
<1> HIDE DEF u
<1>5. /\ up' \in UpType /\ up'.sha = u.sha
      /\ up'.available = u.available /\ up'.asset = u.asset
      /\ up'.manifest = u.manifest /\ up'.checkReply = u.checkReply
      /\ up'.downloadReply = u.downloadReply /\ up'.checking = u.checking
  BY <1>1, <1>4 DEF Verified, UpType
<1>6. /\ frames' \in Seq(FrameType)
      /\ \A i \in DOMAIN frames' : frames'[i].manifest > app.version
  BY <1>1, <1>2 DEF Offers, OffersAreNewer
<1>7. file' \in Content
  BY <1>1, ContentAfter DEF Offers, UpdaterTyped
<1>8. UpdaterTyped' /\ OneRequest'
  BY <1>1, <1>4, <1>5, <1>6, <1>7 DEF Offers, UpdaterTyped, OneRequest
<1>9. OffersAreNewer'
  BY <1>1, <1>2, <1>4, <1>5, <1>6 DEF Offers, OffersAreNewer, Quiet
<1> QED
  BY <1>1, <1>8, <1>9, QuietKeeps DEF Offers, Quiet

\* The helper that is launched expects what was offered, and finds the application that
\* launched it where it was installed.
LEMMA InstallKeeps ==
    ASSUME Typed, Offers, InstallDownloadedUpdate
    PROVE  /\ Typed' /\ Offers' /\ app' = app
           /\ ~Overlap /\ Replaces => Replaces'
           /\ \A h \in Helpers : helpers[h].pc = "none" /\ helpers'[h].pc = "wait"
                                     => helpers'[h].expected > app.version
<1>1. /\ UNCHANGED <<app, feed, newest, up, frames, file, used>>
      /\ app.running /\ up.available /\ up.sha # 0 /\ file = up.sha /\ Undisturbed
      /\ fs \in FsType
  BY FsTyped DEF InstallDownloadedUpdate, CanInstall
<1>2. /\ app.run \in 0 .. MaxRuns /\ up \in UpType /\ up.sha \in Releases
      /\ up.sha > app.version /\ file \in Published
  BY <1>1 DEF Typed, HelperTypeOK, Offers, UpdaterTyped, OffersAreNewer, UpType, Published
<1>3. quitting' \in BOOLEAN
  BY DEF InstallDownloadedUpdate, Offers, UpdaterTyped
<1>4. Offers'
  BY <1>1, <1>3 DEF Offers, UpdaterTyped, OneRequest, OffersAreNewer
<1>5. /\ fs' \in FsType /\ fs'.current = fs.current /\ fs'.backup = fs.backup
  BY <1>1, <1>2, PublishedContent DEF InstallDownloadedUpdate, FsType
<1>6. ~Overlap => \A h \in Helpers : ~Active(h)
  BY <1>1 DEF Undisturbed
<1>7. CASE UNCHANGED helpers
  <2>1. Typed'
    BY <1>1, <1>5, <1>7, PublishedContent DEF Typed, HelperTypeOK, FsType
  <2>2. ~Overlap /\ Replaces => Replaces'
    BY <1>1, <1>5, <1>6, <1>7
    DEF Replaces, OneActive, Settled, SomeBinary, PhasesOK, Active
  <2> QED
    BY <1>1, <1>4, <1>7, <2>1, <2>2
<1>8. ASSUME NEW h \in Helpers,
             helpers' = [helpers EXCEPT ![h] =
                            [pc |-> "wait", expected |-> up.sha, waitsFor |-> app.run]]
      PROVE  /\ Typed'
             /\ ~Overlap /\ Replaces => Replaces'
             /\ \A g \in Helpers : helpers[g].pc = "none" /\ helpers'[g].pc = "wait"
                                       => helpers'[g].expected > app.version
  <2> DEFINE new == [pc |-> "wait", expected |-> up.sha, waitsFor |-> app.run]
  <2>1. /\ new \in HelperType
        /\ new.pc = "wait" /\ new.expected = up.sha /\ new.waitsFor = app.run
    BY <1>2 DEF HelperType
  <2>2. /\ helpers \in [Helpers -> HelperType]
        /\ helpers' = [helpers EXCEPT ![h] = new]
    BY <1>8 DEF Typed, HelperTypeOK
  <2> HIDE DEF new
  <2>3. /\ helpers' \in [Helpers -> HelperType]
        /\ helpers'[h] = new
        /\ \A g \in Helpers \ {h} : helpers'[g] = helpers[g]
    BY <2>1, <2>2
  <2>4. Typed'
    BY <1>1, <1>5, <2>3, PublishedContent DEF Typed, HelperTypeOK, FsType
  <2>5. ASSUME ~Overlap, Replaces PROVE Replaces'
    <3>1. \A g \in Helpers : Active(g)' => g = h
      BY <1>6, <2>3, <2>5 DEF Active
    <3>2. Settled'
      BY <1>1, <1>5, <2>5 DEF Replaces, Settled, SomeBinary
    <3>3. PhaseOK(h)'
      BY <1>1, <1>2, <1>5, <2>1, <2>3, <2>5 DEF Replaces, Settled, PhaseOK
    <3> QED
      BY <3>1, <3>2, <3>3 DEF Replaces, OneActive, PhasesOK
  <2>6. \A g \in Helpers : helpers[g].pc = "none" /\ helpers'[g].pc = "wait"
                               => helpers'[g].expected > app.version
    BY <1>2, <2>1, <2>3
  <2> QED
    BY <2>4, <2>5, <2>6
<1> QED
  BY <1>1, <1>4, <1>7, <1>8 DEF InstallDownloadedUpdate

LEMMA EndsKeeps ==
    ASSUME Typed, Offers, AppEnds
    PROVE  Kept /\ Offers' /\ app'.version = app.version
<1>1. /\ app' = [app EXCEPT !.running = FALSE]
      /\ up' = UpAtStart /\ frames' = <<>> /\ quitting' = FALSE
      /\ UNCHANGED <<fs, helpers, feed, newest, file, used>>
  BY DEF AppEnds
<1>2. /\ app' \in [running : BOOLEAN, run : 1..MaxRuns, version : Releases]
      /\ ~app'.running /\ app'.run = app.run /\ app'.version = app.version
  BY <1>1 DEF Typed, HelperTypeOK
<1>3. Typed'
  BY <1>1, <1>2 DEF Typed, HelperTypeOK
<1>4. Replaces => Replaces'
  BY <1>1, <1>2 DEF Replaces, OneActive, Settled, SomeBinary, PhasesOK, PhaseOK, Active
<1>5. frames' \in Seq(FrameType) /\ DOMAIN frames' = {}
  BY <1>1
<1>6. UpdaterTyped'
  BY <1>1, <1>5, AtStart DEF Offers, UpdaterTyped
<1>7. OneRequest' /\ OffersAreNewer'
  BY <1>1, <1>5, AtStart DEF OneRequest, OffersAreNewer
<1> QED
  BY <1>2, <1>3, <1>4, <1>6, <1>7 DEF Kept, Offers

LEMMA StartsKeeps ==
    ASSUME Typed, Offers, AppStarts
    PROVE  /\ Typed' /\ Offers'
           /\ ~Overlap /\ Replaces => Replaces' /\ app'.version >= app.version
<1>1. /\ ~app.running /\ Undisturbed /\ app.run < MaxRuns /\ fs.current \in Releases
      /\ app' = [running |-> TRUE, run |-> app.run + 1, version |-> fs.current]
      /\ fs' = [fs EXCEPT !.status = "none"]
      /\ UNCHANGED <<helpers, feed, newest, up, frames, file, quitting, used>>
      /\ fs \in FsType
  BY FsTyped DEF AppStarts
<1>2. Holds(fs', fs.current, fs.backup, fs.staged)
  BY <1>1 DEF Holds, FsType
<1>3. app'.running /\ app'.version = fs.current
  BY <1>1
<1>4. Typed'
  BY <1>1, <1>2, PublishedContent, UpdaterHelperAssumption
  DEF Typed, HelperTypeOK, Holds, FsType
<1>5. Offers'
  BY <1>1, AtStart DEF Offers, UpdaterTyped, OneRequest, OffersAreNewer
<1>6. ASSUME ~Overlap, Replaces PROVE Replaces' /\ app'.version >= app.version
  <2>1. \A h \in Helpers : ~Active(h) /\ ~Active(h)'
    BY <1>1, <1>6 DEF Undisturbed, Active
  <2>2. Settled' /\ app'.version >= app.version
    BY <1>1, <1>2, <1>3, <1>6 DEF Replaces, Settled, SomeBinary, Holds, Releases
  <2> QED
    BY <2>1, <2>2 DEF Replaces, OneActive, PhasesOK
<1> QED
  BY <1>4, <1>5, <1>6

LEMMA PublishKeeps ==
    ASSUME Typed, Offers, Publish
    PROVE  Kept /\ Offers' /\ app' = app
<1>1. newest' \in Releases
  BY UpdaterHelperAssumption DEF Publish, Offers, UpdaterTyped, Releases
<1>2. Quiet /\ UNCHANGED <<feed, up, frames, file, quitting, used>>
  BY DEF Publish, Quiet
<1> QED
  BY <1>1, <1>2, QuietKeeps DEF Offers, UpdaterTyped, OneRequest, OffersAreNewer, Quiet

-----------------------------------------------------------------------------
(* The theorems *)

LEMMA IInvParts == IInv <=> Typed /\ Offers /\ (~Overlap => Replaces)
BY DEF IInv, TypeOK, Typed, Offers, UpdaterTyped

LEMMA IInvPartsAfter == Typed' /\ Offers' /\ (~Overlap => Replaces') => IInv'
BY DEF IInv, TypeOK, Typed, Offers, UpdaterTyped

LEMMA InitEstablishes == Init => IInv
<1> SUFFICES ASSUME Init PROVE IInv
  OBVIOUS
<1>1. /\ app = [running |-> TRUE, run |-> 1, version |-> 0]
      /\ fs = [current |-> 0, backup |-> NoFile, staged |-> NoFile, status |-> "none"]
      /\ helpers = [h \in Helpers |-> NoHelper]
  BY DEF Init, HelperInit
<1>2. 0 \in Releases /\ 0 \in Published /\ 1 \in 1 .. MaxRuns /\ 0 \in 0 .. MaxRuns
  BY UpdaterHelperAssumption DEF Releases, Published
<1>3. fs \in FsType
  BY <1>1, <1>2, PublishedContent DEF FsType
<1>4. NoHelper \in HelperType /\ NoHelper.pc = "none"
  BY <1>2 DEF NoHelper, HelperType
<1>5. Typed
  BY <1>1, <1>2, <1>3, <1>4, PublishedContent DEF Typed, HelperTypeOK, FsType
<1>6. Replaces
  BY <1>1, <1>2, <1>4
  DEF Replaces, OneActive, Settled, SomeBinary, PhasesOK, Active, Releases
<1>7. frames \in Seq(FrameType) /\ DOMAIN frames = {}
  BY DEF Init
<1>8. UpdaterTyped
  <2>1. used \in [checks : 0..MaxChecks, downloads : 0..MaxDownloads]
    BY UpdaterAssumption DEF Init
  <2>2. file \in Content
    BY DEF Init, Content
  <2> QED
    BY <1>2, <1>7, <2>1, <2>2, AtStart DEF Init, UpdaterTyped
<1>9. OneRequest /\ OffersAreNewer
  BY <1>7, AtStart DEF Init, OneRequest, OffersAreNewer
<1> QED
  BY <1>5, <1>6, <1>8, <1>9, IInvParts DEF Offers

LEMMA HelperActsKeeps ==
    ASSUME Typed, Offers, NEW h \in Helpers, HelperStep(h) \/ HelperKilled(h),
           UNCHANGED updaterOnly
    PROVE  /\ Kept /\ Offers'
           /\ Replaces => app'.version >= app.version
<1>1. Kept /\ (app' = app \/ ~app.running) /\ (Replaces => app'.version >= app.version)
  BY HelperKeeps
<1>2. UpdaterTyped' /\ OneRequest'
  BY DEF Offers, UpdaterTyped, OneRequest, updaterOnly
<1>3. ASSUME app' = app PROVE OffersAreNewer'
  BY <1>3 DEF Offers, OffersAreNewer, updaterOnly
<1>4. ASSUME ~app.running PROVE OffersAreNewer'
  <2>1. up' = UpAtStart /\ frames' = <<>> /\ DOMAIN frames' = {}
    BY <1>4 DEF Offers, OffersAreNewer, updaterOnly
  <2> QED
    BY <2>1, AtStart DEF OffersAreNewer
<1>5. OffersAreNewer'
  BY <1>1, <1>3, <1>4 DEF Offers
<1> QED
  BY <1>1, <1>2, <1>5 DEF Offers

\* What every step keeps, and what it does to the version of the application.
LEMMA StepPreserves ==
    ASSUME IInv, [Next]_vars
    PROVE  /\ IInv'
           /\ ~Overlap => app'.version >= app.version
<1>1. Typed /\ Offers /\ (~Overlap => Replaces)
  BY IInvParts
<1>2. app.version \in Int
  BY <1>1 DEF Typed, HelperTypeOK, Releases
<1> DEFINE Goal == Typed' /\ Offers' /\ (~Overlap => Replaces' /\ app'.version >= app.version)
<1>3. SUFFICES Goal
  BY IInvPartsAfter
<1>4. ASSUME Kept, Offers', app'.version = app.version PROVE Goal
  BY <1>1, <1>2, <1>4 DEF Kept
<1>5. CASE CheckForUpdates
  BY <1>1, <1>4, <1>5, CheckKeeps
<1>6. CASE OnCheckFinished
  BY <1>1, <1>4, <1>6, CheckFinishedKeeps
<1>7. CASE DownloadUpdate
  BY <1>1, <1>4, <1>7, DownloadKeeps
<1>8. CASE DownloadArrives
  BY <1>1, <1>4, <1>8, ArrivesKeeps
<1>9. CASE DownloadFails
  BY <1>1, <1>4, <1>9, FailsKeeps
<1>10. CASE ManifestReplies
  BY <1>1, <1>4, <1>10, RepliesKeeps
<1>11. CASE FrameReturns
  BY <1>1, <1>4, <1>11, ReturnsKeeps
<1>12. CASE InstallDownloadedUpdate
  BY <1>1, <1>2, <1>12, InstallKeeps
<1>13. CASE AppEnds
  BY <1>1, <1>4, <1>13, EndsKeeps
<1>14. CASE AppStarts
  BY <1>1, <1>14, StartsKeeps
<1>15. CASE Publish
  BY <1>1, <1>4, <1>15, PublishKeeps
<1>16. ASSUME NEW h \in Helpers, HelperStep(h) \/ HelperKilled(h), UNCHANGED updaterOnly
       PROVE  Goal
  BY <1>1, <1>16, HelperActsKeeps DEF Kept
<1>17. CASE UNCHANGED vars
  <2>1. Quiet /\ Offers'
    BY <1>1, <1>17
    DEF vars, Quiet, Offers, UpdaterTyped, OneRequest, OffersAreNewer
  <2> QED
    BY <1>1, <1>4, <2>1, QuietKeeps DEF Quiet
<1> QED
  BY <1>5, <1>6, <1>7, <1>8, <1>9, <1>10, <1>11, <1>12, <1>13, <1>14, <1>15, <1>16, <1>17
  DEF Next, HelperActs

\* The inductive invariant holds in every state of every run: what may be installed is
\* newer, and the helper finds in the three files what its step counts on.
THEOREM Invariance == Spec => []IInv
<1>1. Init => IInv
  BY InitEstablishes
<1>2. IInv /\ [Next]_vars => IInv'
  BY StepPreserves
<1> QED
  BY <1>1, <1>2, PTL DEF Spec

\* The updater's fields, its stack of waiting downloads and the files keep their types,
\* however many check and download handlers nest in event loops (onDownloadFinished).
THEOREM TypeCorrect == Spec => []TypeOK
<1>1. IInv => TypeOK
  BY DEF IInv
<1> QED
  BY <1>1, Invariance, PTL

\* Nested event loops or not, one request is under way at a time, the busy flag is set
\* exactly as long, and what is staged for a helper is a complete published release
\* (checkForUpdates, downloadUpdate, onDownloadFinished, installDownloadedUpdate).
THEOREM DownloadIsSoundAlways == Spec => []DownloadIsSound
<1>1. IInv => DownloadIsSound
  BY DEF IInv, DownloadIsSound, StagedIsPublished, FsType, Published
<1> QED
  BY <1>1, Invariance, PTL

\* Whatever is verified against whichever digest, what is handed to a helper is newer
\* than the application that runs, also when helpers overlap (installDownloadedUpdate).
THEOREM HandOffIsNewerAlways == Spec => HandOffIsNewer
<1>1. IInv /\ [Next]_vars => [\A h \in Helpers : helpers[h].pc = "none"
                                                   /\ helpers'[h].pc = "wait"
                                  => helpers'[h].expected > app.version]_vars
  <2> SUFFICES ASSUME IInv, [Next]_vars, NEW h \in Helpers, helpers[h].pc = "none",
                      helpers'[h].pc = "wait"
               PROVE  helpers'[h].expected > app.version
    OBVIOUS
  <2>1. Typed /\ Offers
    BY IInvParts
  <2>2. CASE InstallDownloadedUpdate
    BY <2>1, <2>2, InstallKeeps
  <2>3. ASSUME UNCHANGED helpers PROVE FALSE
    BY <2>3
  <2>4. ASSUME NEW g \in Helpers, HelperStep(g) \/ HelperKilled(g) PROVE FALSE
    <3>1. Active(g)
      BY <2>4 DEF HelperStep, HelperWaits, HelperVerifies, HelperDropsBackup,
         HelperBacksUp, HelperPlaces, HelperPermits, HelperValidates, HelperRelaunches,
         HelperCleansUp, HelperKilled, Active
    <3>2. \E pc \in Pcs \ {"wait"} : Goes(g, pc)
      BY <2>4 DEF HelperStep, HelperWaits, HelperVerifies, HelperDropsBackup,
         HelperBacksUp, HelperPlaces, HelperPermits, HelperValidates, HelperRelaunches,
         HelperCleansUp, HelperKilled, Ends, Pcs
    <3>3. g # h
      BY <3>1 DEF Active
    <3> QED
      BY <2>1, <3>2, <3>3, GoesMoves DEF Moved, Typed
  <2> QED
    BY <2>2, <2>3, <2>4
    DEF Next, HelperActs, CheckForUpdates, OnCheckFinished, DownloadUpdate, DownloadArrives,
        DownloadFails, ManifestReplies, FrameReturns, AppEnds, AppStarts, Publish, vars
<1> QED
  BY <1>1, Invariance, PTL DEF Spec, HandOffIsNewer

\* As long as the user neither installs again nor starts the application while a helper is
\* at work, the executable or its backup is there, complete, wherever the helper fails or
\* is killed (replaceFileAtomically, rollback).
THEOREM SomeBinaryAlways ==
    ASSUME ~Overlap
    PROVE  Spec => []SomeBinary
<1>1. IInv => SomeBinary
  BY DEF IInv, Replaces, Settled
<1> QED
  BY <1>1, Invariance, PTL

\* Under the same condition no start, by the helper's relaunch or by the user, runs an older
\* version than the one before it, and no hand-off offers one.
THEOREM NeverDowngradedAlways ==
    ASSUME ~Overlap
    PROVE  Spec => NeverDowngraded
<1>1. IInv /\ [Next]_vars => [app'.version >= app.version]_vars
  BY StepPreserves
<1>2. Spec => StartsAreNewer
  BY <1>1, Invariance, PTL DEF Spec, StartsAreNewer
<1> QED
  BY <1>2, HandOffIsNewerAlways DEF NeverDowngraded
=============================================================================
