------------------------------ MODULE Updater -------------------------------
(***************************************************************************)
(* The updater (updater.cpp): check, download, verification, hand-off to   *)
(* the helper of module UpdaterHelper, and the application's next start.   *)
(*                                                                         *)
(* Everything runs on the GUI thread.  onDownloadFinished fetches the      *)
(* checksum manifest in a nested event loop (fetchUrlContentSync), so that *)
(* clicks and replies are handled while it is on the stack, another        *)
(* onDownloadFinished among them; `frames' is that stack.                  *)
(*                                                                         *)
(* A release is its number, and a SHA-256 digest the release whose asset   *)
(* has it.  Every release names its asset for this platform alike, so that *)
(* all downloads have one path.  The user's actions are those the shipped  *)
(* window (Main.qml) enables.                                              *)
(***************************************************************************)
EXTENDS UpdaterHelper, Sequences

CONSTANTS
    MaxChecks,      \* bound: checks
    MaxDownloads,   \* bound: downloads
    Overlap         \* whether the user installs again, or starts the application,
                    \* while a helper is active

ASSUME UpdaterAssumption ==
    /\ MaxChecks \in Nat
    /\ MaxDownloads \in Nat
    /\ Overlap \in BOOLEAN

VARIABLES
    feed,       \* per release: has its asset a digest, has the release a manifest
    newest,     \* the release the server answers with, 0 before the first
    up,         \* the updater's fields, see UpType
    frames,     \* the activations of onDownloadFinished that wait for a manifest
    file,       \* what is at the download path
    quitting,   \* the timer that quits the application is running
    used        \* checks and downloads made

vars == <<app, fs, helpers, feed, newest, up, frames, file, quitting, used>>

UpType ==
    [checking : BOOLEAN,            \* m_checking
     available : BOOLEAN,           \* m_updateAvailable
     asset : Releases,              \* m_latestVersion, m_assetUrl, m_assetName; 0: none
     sha : Releases,                \* m_assetExpectedSha256; 0: none
     manifest : Releases,           \* m_assetChecksumUrl; 0: none
     path : BOOLEAN,                \* m_downloadedFilePath is set
     checkReply : BOOLEAN,          \* m_checkReply
     downloadReply : Releases,      \* m_downloadReply, and what it fetches; 0: none
     linked : BOOLEAN]              \* the file being written is still the one at the path

FrameType == [manifest : Releases, reply : {"waiting", "ok", "failed"}]

UpAtStart ==
    [checking |-> FALSE, available |-> FALSE, asset |-> 0, sha |-> 0, manifest |-> 0,
     path |-> FALSE, checkReply |-> FALSE, downloadReply |-> 0, linked |-> FALSE]

-----------------------------------------------------------------------------
(* The check *)

\* consumePendingUpdateStatus, then the request, unless one is under way.
CheckForUpdates ==
    /\ app.running
    /\ used.checks < MaxChecks
    /\ fs' = [fs EXCEPT !.status = "none"]
    /\ IF up.checking \/ up.checkReply \/ up.downloadReply # 0
       THEN UNCHANGED <<up, used>>
       ELSE /\ up' = [up EXCEPT !.checking = TRUE, !.checkReply = TRUE]
            /\ used' = [used EXCEPT !.checks = @ + 1]
    /\ UNCHANGED <<app, helpers, feed, newest, frames, file, quitting>>

\* fault: whether there is an update is not computed anew
KeepAvailable(u, r) ==
    [u EXCEPT !.checking = FALSE, !.checkReply = FALSE, !.available = TRUE, !.asset = r,
              !.sha = IF feed[r].digest THEN r ELSE 0,
              !.manifest = IF feed[r].manifest THEN r ELSE 0, !.path = FALSE]

\* fault: the busy flag is left to the next check
StillChecking(u, r) ==
    [u EXCEPT !.checkReply = FALSE, !.available = r > app.version, !.asset = r,
              !.sha = IF feed[r].digest THEN r ELSE 0,
              !.manifest = IF feed[r].manifest THEN r ELSE 0, !.path = FALSE]

\* fault: a missing digest is stored as it comes, not normalized to none
RawDigest(u, r) ==
    [u EXCEPT !.checking = FALSE, !.checkReply = FALSE, !.available = r > app.version,
              !.asset = r, !.sha = IF feed[r].digest THEN r ELSE Partial,
              !.manifest = IF feed[r].manifest THEN r ELSE 0, !.path = FALSE]

Found(u, r) ==
    [u EXCEPT !.checking = FALSE, !.checkReply = FALSE,
              !.available = r > app.version,                \* isVersionNewer
              !.asset = r,
              !.sha = IF feed[r].digest THEN r ELSE 0,
              !.manifest = IF feed[r].manifest THEN r ELSE 0,
              !.path = FALSE]

NotPublished(u) ==
    [u EXCEPT !.checking = FALSE, !.checkReply = FALSE, !.available = FALSE, !.asset = 0,
              !.sha = 0, !.manifest = 0, !.path = FALSE]

CheckFailed(u) ==
    [u EXCEPT !.checking = FALSE, !.checkReply = FALSE, !.available = FALSE,
              !.sha = 0, !.manifest = 0]

OnCheckFinished ==
    /\ up.checkReply
    /\ \/ up' = IF newest = 0 THEN NotPublished(up) ELSE Found(up, newest)
       \/ up' = CheckFailed(up)                     \* network, HTTP or parse error
    /\ UNCHANGED <<app, fs, helpers, feed, newest, frames, file, quitting, used>>

-----------------------------------------------------------------------------
(* The download and its verification *)

\* fault: no test whether a request is under way
CanDownloadAnyTime == up.available

CanDownload == up.available /\ up.asset # 0 /\ ~up.checking /\ up.downloadReply = 0

DownloadUpdate ==
    /\ app.running
    /\ used.downloads < MaxDownloads
    /\ CanDownload /\ ~up.path
    /\ \/ /\ file' = Partial                        \* the file is created or truncated
          /\ up' = [up EXCEPT !.path = TRUE, !.checking = TRUE, !.downloadReply = up.asset,
                              !.linked = TRUE]
       \/ /\ FilesCanFail                           \* it cannot be opened
          /\ up' = [up EXCEPT !.path = TRUE]
          /\ UNCHANGED file
    /\ used' = [used EXCEPT !.downloads = @ + 1]
    /\ UNCHANGED <<app, fs, helpers, feed, newest, frames, quitting>>

\* The last part of onDownloadFinished: a file whose digest is not the expected one
\* is removed.  Without a path or without an expected digest nothing is removed.
Rejected(u, content) == u.path /\ u.sha # 0 /\ content # u.sha

FileAfter(u, content) == IF Rejected(u, content) THEN NoFile ELSE content
\* Removing the file another download is writing detaches that download from it.
Verified(u, content) == IF Rejected(u, content) THEN [u EXCEPT !.linked = FALSE] ELSE u

\* The reply that finished is forgotten, and its file closed.
Closed(u) == [u EXCEPT !.downloadReply = 0, !.checking = FALSE, !.linked = FALSE]

\* The reply succeeds; what it left in the file may be damaged.
DownloadArrives ==
    \E content \in IF up.linked THEN {up.downloadReply, Partial} ELSE {file} :
        /\ up.downloadReply # 0
        /\ IF up.sha = 0 /\ up.manifest # 0
           THEN /\ frames' = Append(frames, [manifest |-> up.manifest, reply |-> "waiting"])
                /\ file' = content
                /\ up' = Closed(up)
           ELSE /\ file' = FileAfter(up, content)
                /\ up' = Closed(up)
                /\ UNCHANGED frames
        /\ UNCHANGED <<app, fs, helpers, feed, newest, quitting, used>>

\* A network error, a timeout, or a write that failed: the file is removed, the path
\* is kept.
DownloadFails ==
    /\ up.downloadReply # 0
    /\ file' = NoFile
    /\ up' = Closed(up)
    /\ UNCHANGED <<app, fs, helpers, feed, newest, frames, quitting, used>>

\* A manifest arrives, or its 12 s are over, while its loop or one nested in it runs.
ManifestReplies ==
    /\ \E i \in DOMAIN frames, reply \in {"ok", "failed"} :
          /\ frames[i].reply = "waiting"
          /\ frames' = [frames EXCEPT ![i].reply = reply]
    /\ UNCHANGED <<app, fs, helpers, feed, newest, up, file, quitting, used>>

\* The innermost loop ends, and onDownloadFinished goes on with the fields as they
\* are by now: the digest found is taken for that of the selected asset.
FrameReturns ==
    /\ frames # <<>>
    /\ LET frame == frames[Len(frames)]
           u == IF frame.reply = "ok" THEN [up EXCEPT !.sha = frame.manifest] ELSE up
       IN  /\ frame.reply # "waiting"
           /\ up' = Verified(u, file)
           /\ file' = FileAfter(u, file)
    /\ frames' = SubSeq(frames, 1, Len(frames) - 1)
    /\ UNCHANGED <<app, fs, helpers, feed, newest, quitting, used>>

-----------------------------------------------------------------------------
(* The installation *)

\* fault: the digest is not compared again before the hand-off
InstallUnverified == up.path /\ up.sha # 0 /\ file # NoFile

\* The window's button, then the tests of installDownloadedUpdate.
CanInstall == up.path /\ up.sha # 0 /\ file = up.sha

Undisturbed == Overlap \/ ~\E h \in Helpers : Active(h)

InstallDownloadedUpdate ==
    /\ app.running
    /\ up.available /\ ~up.checking /\ CanInstall
    /\ Undisturbed
    /\ \E h \in Helpers :
          /\ helpers[h].pc = "none" /\ (h > 1 => helpers[h - 1].pc # "none")
          /\ \/ /\ fs' = [fs EXCEPT !.staged = file]
                /\ helpers' = [helpers EXCEPT ![h] =
                                  [pc |-> "wait", expected |-> up.sha, waitsFor |-> app.run]]
                /\ quitting' = TRUE
             \/ /\ FilesCanFail                     \* staging, job file or launch failed
                /\ fs' \in {fs, [fs EXCEPT !.staged = NoFile]}
                /\ UNCHANGED <<helpers, quitting>>
    /\ UNCHANGED <<app, feed, newest, up, frames, file, used>>

\* The application ends: the timer of the installation, the user, or a crash.
AppEnds ==
    /\ app.running
    /\ app' = [app EXCEPT !.running = FALSE]
    /\ up' = UpAtStart
    /\ frames' = <<>>
    /\ quitting' = FALSE
    /\ UNCHANGED <<fs, helpers, feed, newest, file, used>>

\* The user starts what is installed; the constructor reads the status file.
AppStarts ==
    /\ ~app.running
    /\ Undisturbed
    /\ app.run < MaxRuns
    /\ fs.current \in Releases
    /\ app' = [running |-> TRUE, run |-> app.run + 1, version |-> fs.current]
    /\ fs' = [fs EXCEPT !.status = "none"]
    /\ UNCHANGED <<helpers, feed, newest, up, frames, file, quitting, used>>

\* The next release is published.
Publish ==
    /\ newest < MaxRelease
    /\ newest' = newest + 1
    /\ UNCHANGED <<app, fs, helpers, feed, up, frames, file, quitting, used>>

updaterOnly == <<feed, newest, up, frames, file, quitting, used>>

Init ==
    /\ HelperInit
    /\ feed \in [1..MaxRelease -> [digest : BOOLEAN, manifest : BOOLEAN]]
    /\ newest = 0
    /\ up = UpAtStart
    /\ frames = <<>>
    /\ file = NoFile
    /\ quitting = FALSE
    /\ used = [checks |-> 0, downloads |-> 0]

HelperActs(h) == HelperStep(h) /\ UNCHANGED updaterOnly

Next ==
    \/ CheckForUpdates
    \/ OnCheckFinished
    \/ DownloadUpdate
    \/ DownloadArrives
    \/ DownloadFails
    \/ ManifestReplies
    \/ FrameReturns
    \/ InstallDownloadedUpdate
    \/ AppEnds
    \/ AppStarts
    \/ Publish
    \/ \E h \in Helpers : HelperActs(h)
    \/ \E h \in Helpers : HelperKilled(h) /\ UNCHANGED updaterOnly

\* The network answers within the transfer timeouts, the event loop delivers, the
\* timer of the installation fires, and a helper that is not killed goes on (its
\* wait is bounded).  Nothing is assumed of the user.
Fairness ==
    /\ WF_vars(OnCheckFinished)
    /\ WF_vars(DownloadArrives \/ DownloadFails)
    /\ WF_vars(ManifestReplies)
    /\ WF_vars(FrameReturns)
    /\ WF_vars(quitting /\ AppEnds)
    /\ \A h \in Helpers : WF_vars(HelperActs(h))

Spec == Init /\ [][Next]_vars /\ Fairness

-----------------------------------------------------------------------------
(* Properties *)

TypeOK ==
    /\ HelperTypeOK
    /\ feed \in [1..MaxRelease -> [digest : BOOLEAN, manifest : BOOLEAN]]
    /\ newest \in Releases
    /\ up \in UpType
    /\ frames \in Seq(FrameType)
    /\ file \in Content
    /\ quitting \in BOOLEAN
    /\ used \in [checks : 0..MaxChecks, downloads : 0..MaxDownloads]

\* At most one of check and download is under way, although both are started from
\* nested event loops too, and the busy flag they share is set exactly as long: no
\* reply is left without it, and it never stays set without a reply to clear it.
OneRequest ==
    /\ ~(up.checkReply /\ up.downloadReply # 0)
    /\ up.checking <=> up.checkReply \/ up.downloadReply # 0

\* Whatever was cleared, removed or replaced while a manifest was fetched: what is
\* staged for a helper is a complete published release.
StagedIsPublished == fs.staged \in Releases \union {NoFile}

\* What the nested event loop may not break: one request at a time, and a sound result.
DownloadIsSound == OneRequest /\ StagedIsPublished

\* A helper is only ever given a release newer than the application that runs, even
\* when the path still holds the file of an earlier session.
HandOffIsNewer ==
    [][\A h \in Helpers : helpers[h].pc = "none" /\ helpers'[h].pc = "wait"
            => helpers'[h].expected > app.version]_vars

\* However operations fail and wherever the helper is killed, the executable or its
\* backup is there, complete.
SomeBinary == fs.current \in Releases \/ fs.backup \in Releases

\* No start runs an older version than the one before it.
StartsAreNewer == [][app'.version >= app.version]_vars

\* Neither the hand-off nor the helper ever goes back to an older version.
NeverDowngraded == HandOffIsNewer /\ StartsAreNewer

\* The busy flag is cleared in the end.
CheckingEnds == up.checking ~> ~up.checking

\* A helper ends, and with it the hand-off.
HelperEnds == \A h \in Helpers : Active(h) ~> ~Active(h)

\* An update never hangs: neither in the application nor in the helper.
UpdateEnds == CheckingEnds /\ HelperEnds
=============================================================================
