--------------------------- MODULE UpdaterHelper ----------------------------
(***************************************************************************)
(* updaterhelper/main.cpp: the detached process that waits for the         *)
(* application to quit, puts the staged executable in the place of the     *)
(* installed one, starts it and reports through a status file.             *)
(*                                                                         *)
(* A file is its content: a published release (a number, its version),     *)
(* NoFile, or Partial, bytes no digest was ever published for.  One action *)
(* per step of the replacement; a move by copy and removal, a rollback and *)
(* the clean-up are each one action of several file operations, which may  *)
(* fail one by one.  The helper can be killed between two actions.  The    *)
(* POSIX build: rename does not overwrite (QFile::rename), no retries.     *)
(* Module Updater stages the file, writes the job and launches the helper. *)
(***************************************************************************)
EXTENDS Integers

CONSTANTS
    MaxRelease,     \* bound: releases published, numbered in the order of their versions
    MaxInstalls,    \* bound: helpers launched
    MaxRuns,        \* bound: application processes
    FilesCanFail    \* whether renames, copies, permissions and launches can fail

ASSUME UpdaterHelperAssumption ==
    /\ MaxRelease \in Nat \ {0}
    /\ MaxInstalls \in Nat \ {0}
    /\ MaxRuns \in Nat \ {0}
    /\ FilesCanFail \in BOOLEAN

VARIABLES
    app,        \* the application: running, its process number, its version
    fs,         \* current, backup, staged: the three files; status: the status file
    helpers     \* the helpers, see HelperType

helperVars == <<app, fs, helpers>>

Releases == 0..MaxRelease       \* release 0 is the one installed at first
NoFile == -1
Partial == -2
Content == Releases \union {NoFile, Partial}
Helpers == 1..MaxInstalls

HelperType ==
    [pc : {"none", "wait", "verify", "dropBackup", "backUp", "place", "permit", "validate",
           "relaunch", "cleanUp", "done", "killed"},
     expected : Releases,       \* expected_sha256: the content that has this digest
     waitsFor : 0..MaxRuns]     \* pid: the process that has to exit first

NoHelper == [pc |-> "none", expected |-> 0, waitsFor |-> 0]
Active(h) == helpers[h].pc \notin {"none", "done", "killed"}

Goes(h, pc) == helpers' = [helpers EXCEPT ![h].pc = pc]

\* writeStatus and the end of main().
Ends(h, files, status) ==
    /\ fs' = [files EXCEPT !.status = status]
    /\ Goes(h, "done")

-----------------------------------------------------------------------------
(* File operations: the set of file systems an operation may leave, with its *)
(* result.  f is fs, from and to name two of its files.                      *)

Succeeded(f) == [ok |-> TRUE, files |-> f]
Failed(f) == [ok |-> FALSE, files |-> f]
MayFail(f) == IF FilesCanFail THEN {Failed(f)} ELSE {}

Rename(f, from, to) ==
    IF f[from] # NoFile /\ f[to] = NoFile
    THEN {Succeeded([f EXCEPT ![to] = f[from], ![from] = NoFile])} \union MayFail(f)
    ELSE {Failed(f)}

Remove(f, name) ==
    IF f[name] # NoFile THEN {Succeeded([f EXCEPT ![name] = NoFile])} \union MayFail(f)
                        ELSE {Failed(f)}

\* copyWithOverwrite removes the target before it copies.
CopyWithOverwrite(f, from, to) ==
    LET cleared == IF f[to] = NoFile THEN {Succeeded(f)} ELSE Remove(f, to)
        Copy(r) == IF ~r.ok THEN {r}
                   ELSE IF f[from] = NoFile THEN {Failed(r.files)}
                   ELSE {Succeeded([r.files EXCEPT ![to] = f[from]])} \union MayFail(r.files)
    IN  UNION {Copy(r) : r \in cleared}

\* A rename, and when it fails a copy.
RenameOrCopy(f, from, to) ==
    UNION {IF r.ok THEN {r} ELSE CopyWithOverwrite(r.files, from, to) : r \in Rename(f, from, to)}

\* A rename, and when it fails a copy followed by the removal of the source.
Move(f, from, to) ==
    UNION {IF r.ok THEN {r}
           ELSE UNION {IF c.ok THEN Remove(c.files, from) ELSE {c} :
                       c \in CopyWithOverwrite(r.files, from, to)} :
           r \in Rename(f, from, to)}

\* rollback: what it returns is looked at by nobody.
Rollback(f) ==
    IF f.backup = NoFile THEN {f}
    ELSE UNION {{r.files : r \in Move(c.files, "backup", "current")} :
                c \in IF f.current = NoFile THEN {Succeeded(f)} ELSE Remove(f, "current")}

-----------------------------------------------------------------------------
(* The helper's steps *)

HelperWaits(h) ==
    /\ helpers[h].pc = "wait"
    /\ \/ /\ ~(app.running /\ app.run = helpers[h].waitsFor)
          /\ Goes(h, "verify")
          /\ UNCHANGED fs
       \/ /\ app.running /\ app.run = helpers[h].waitsFor
          /\ Ends(h, fs, "failed")                          \* timeout_ms is over
    /\ UNCHANGED app

HelperVerifies(h) ==
    /\ helpers[h].pc = "verify"
    /\ IF fs.staged = helpers[h].expected THEN Goes(h, "dropBackup") /\ UNCHANGED fs
                                          ELSE Ends(h, fs, "failed")
    /\ UNCHANGED app

\* fault: a backup that cannot be removed is put back
RollBackWhenStuck(h) ==
    /\ helpers[h].pc = "dropBackup"
    /\ IF fs.staged = NoFile THEN Ends(h, fs, "failed")
       ELSE IF fs.backup = NoFile THEN Goes(h, "backUp") /\ UNCHANGED fs
       ELSE \E r \in Remove(fs, "backup") :
                IF r.ok THEN fs' = r.files /\ Goes(h, "backUp")
                ELSE \E files \in Rollback(fs) : Ends(h, files, "rolledBack")
    /\ UNCHANGED app

\* replaceFileAtomically: its four file operations ...
HelperDropsBackup(h) ==
    /\ helpers[h].pc = "dropBackup"
    /\ IF fs.staged = NoFile THEN Ends(h, fs, "failed")
       ELSE IF fs.backup = NoFile THEN Goes(h, "backUp") /\ UNCHANGED fs
       ELSE \E r \in Remove(fs, "backup") :
                IF r.ok THEN fs' = r.files /\ Goes(h, "backUp") ELSE Ends(h, fs, "failed")
    /\ UNCHANGED app

\* fault: a backup that fails is tried again for ever
RetryForever(h) ==
    /\ helpers[h].pc = "backUp"
    /\ \E r \in Move(fs, "current", "backup") :
          /\ fs' = r.files
          /\ IF r.ok THEN Goes(h, "place") ELSE UNCHANGED helpers
    /\ UNCHANGED app

HelperBacksUp(h) ==
    /\ helpers[h].pc = "backUp"
    /\ \E r \in Move(fs, "current", "backup") :
          IF r.ok THEN fs' = r.files /\ Goes(h, "place") ELSE Ends(h, r.files, "failed")
    /\ UNCHANGED app

\* fault: when the new file cannot be placed, the old one is not put back
PlaceOrGiveUp(h) ==
    /\ helpers[h].pc = "place"
    /\ \E r \in RenameOrCopy(fs, "staged", "current") :
          IF r.ok THEN fs' = [r.files EXCEPT !.staged = NoFile] /\ Goes(h, "permit")
          ELSE Ends(h, [r.files EXCEPT !.backup = NoFile], "failed")
    /\ UNCHANGED app

HelperPlaces(h) ==
    /\ helpers[h].pc = "place"
    /\ \E r \in RenameOrCopy(fs, "staged", "current") :
          IF r.ok
          THEN /\ \E files \in {r.files} \union {s.files : s \in Remove(r.files, "staged")} :
                    fs' = files
               /\ Goes(h, "permit")
          ELSE \E back \in Rename(r.files, "backup", "current") : Ends(h, back.files, "failed")
    /\ UNCHANGED app

HelperPermits(h) ==
    /\ helpers[h].pc = "permit"
    /\ \/ /\ fs.current # NoFile
          /\ Goes(h, "validate")
          /\ UNCHANGED fs
       \/ /\ FilesCanFail \/ fs.current = NoFile
          /\ \E removed \in Remove(fs, "current") :
                \E back \in Rename(removed.files, "backup", "current") :
                    Ends(h, back.files, "failed")
    /\ UNCHANGED app

\* ... and main() after it.
HelperValidates(h) ==
    /\ helpers[h].pc = "validate"
    /\ IF fs.current = helpers[h].expected THEN Goes(h, "relaunch") /\ UNCHANGED fs
       ELSE \E files \in Rollback(fs) : Ends(h, files, "rolledBack")
    /\ UNCHANGED app

\* startDetached(currentExecutable).  An application that is already running keeps
\* the new process from staying (single instance).
HelperRelaunches(h) ==
    /\ helpers[h].pc = "relaunch"
    /\ \/ /\ fs.current # NoFile
          /\ app' = IF app.running \/ app.run = MaxRuns THEN app
                    ELSE [running |-> TRUE, run |-> app.run + 1, version |-> fs.current]
          /\ fs' = IF app'.run # app.run THEN [fs EXCEPT !.status = "none"] ELSE fs
          /\ Goes(h, "cleanUp")
       \/ /\ FilesCanFail \/ fs.current = NoFile
          /\ \E files \in Rollback(fs) : Ends(h, files, "rolledBack")
          /\ UNCHANGED app

\* Whether the staged file and the backup could be removed is not looked at.
HelperCleansUp(h) ==
    /\ helpers[h].pc = "cleanUp"
    /\ \E staged \in Remove(fs, "staged") :
          \E both \in Remove(staged.files, "backup") : Ends(h, both.files, "ok")
    /\ UNCHANGED app

\* The helper is killed, or the machine goes down.
HelperKilled(h) ==
    /\ Active(h)
    /\ Goes(h, "killed")
    /\ UNCHANGED <<app, fs>>

HelperStep(h) ==
    \/ HelperWaits(h)
    \/ HelperVerifies(h)
    \/ HelperDropsBackup(h)
    \/ HelperBacksUp(h)
    \/ HelperPlaces(h)
    \/ HelperPermits(h)
    \/ HelperValidates(h)
    \/ HelperRelaunches(h)
    \/ HelperCleansUp(h)

HelperInit ==
    /\ app = [running |-> TRUE, run |-> 1, version |-> 0]
    /\ fs = [current |-> 0, backup |-> NoFile, staged |-> NoFile, status |-> "none"]
    /\ helpers = [h \in Helpers |-> NoHelper]

HelperTypeOK ==
    /\ app \in [running : BOOLEAN, run : 1..MaxRuns, version : Releases]
    /\ fs \in [current : Content, backup : Content, staged : Content,
               status : {"none", "ok", "failed", "rolledBack"}]
    /\ helpers \in [Helpers -> HelperType]
=============================================================================
