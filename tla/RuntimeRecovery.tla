--------------------------- MODULE RuntimeRecovery ---------------------------
(***************************************************************************)
(* What becomes of the xray-core processes when the application crashes or *)
(* quits, and what its next start does about them: the managed-runtime     *)
(* record and the pid file (src/src/vpncontroller.cpp), the instance lock  *)
(* (src/src/main.cpp), and the elevated helper, whose owner watchdog and   *)
(* idle timer outlive the application (src/src/tunhelper/main.cpp).        *)
(*                                                                         *)
(* A process is a pid and what runs under it; a pid that became free can   *)
(* be given to anything.  The platform is a POSIX one.                     *)
(*                                                                         *)
(* Abstracted: the connection's own interleavings (modules Connection and  *)
(* TunConnection): here the controller waits for what it has asked.  The   *)
(* controller has no privileges; killProcessByPid's SIGTERM and SIGKILL,   *)
(* 120 ms apart, are one step, and so is an orderly quit.  stopTun's       *)
(* command succeeds (module TunConnection has its failures).  The          *)
(* application itself does not get the pid the pid file names.             *)
(***************************************************************************)
EXTENDS Integers

CONSTANTS
    Pids,           \* process ids
    NoPid,          \* no process id: the file does not exist
    SeesPrivileged, \* whether the path of a privileged process can be read (macOS: yes)
    MaxLives,       \* bound: how often the application is started
    MaxHelpers,     \* bound: how many helpers run
    MaxRuntimes,    \* bound: how many runtimes are launched
    MaxStrangers    \* bound: how many other processes start

ASSUME RuntimeRecoveryAssumption ==
    /\ NoPid \notin Pids /\ Pids # {}
    /\ SeesPrivileged \in BOOLEAN
    /\ {MaxLives, MaxHelpers, MaxRuntimes, MaxStrangers} \subseteq Nat /\ MaxLives # 0

VARIABLES
    procs,      \* what runs under each pid, see ProcType
    app,        \* the application, see AppType
    record,     \* the pid in the managed-runtime record
    pidFile,    \* the pid in xray-tun.pid
    helpers,    \* the elevated helpers, see HelperType
    used,       \* how many runtimes and strangers there have been
    harmed      \* history: whether the controller killed a process that is not its own

files == <<record, pidFile>>
vars == <<procs, app, files, helpers, used, harmed>>

Lives == 0 .. MaxLives
Pid0 == Pids \union {NoPid}
Helpers == 1 .. MaxHelpers

ProcType ==
    [kind : {"none", "app", "child", "tun", "stranger"},
     life : Lives,          \* the start of the application it belongs to
     named : BOOLEAN]       \* history: the record named it when that life crashed

AppType ==
    [pid : Pid0, life : Lives,
     phase : {"off", "cleaning", "clearing", "up"},
     tunnel : {"none", "launched", "proxy", "failed", "asked", "answered", "tun", "stopping",
               "aborting"},
     runtime : Pid0,        \* the child of the QProcess
     helper : 0 .. MaxHelpers]  \* the helper its port and token address

HelperType ==
    [up : BOOLEAN, life : Lives,        \* the life that launched it
     request : {"none", "start", "stop"},
     starting : BOOLEAN,                \* within startTun
     leaving : BOOLEAN,                 \* a shutdown request waits
     tracks : BOOLEAN,                  \* m_runtimeActive
     owner : Pid0,                      \* m_ownerPid
     misses : 0 .. 2]                   \* m_ownerWatchdogMissCount

Nothing == [kind |-> "none", life |-> 0, named |-> FALSE]
Process(kind, life) == [kind |-> kind, life |-> life, named |-> FALSE]
NoHelper == [up |-> FALSE, life |-> 0, request |-> "none", starting |-> FALSE,
             leaving |-> FALSE, tracks |-> FALSE, owner |-> NoPid, misses |-> 0]

Free(p) == procs[p].kind = "none"
Up == app.phase = "up"
Ended(ps, p) == IF p \in Pids THEN [ps EXCEPT ![p] = Nothing] ELSE ps

-----------------------------------------------------------------------------
(* The start-up clean-up *)

\* isProcessLikelyManagedXray: alive, and running the executable that is expected.
AnyLive(p) == p \in Pids /\ ~Free(p)            \* fault: the path is not compared

Likely(p) ==
    /\ p \in Pids
    /\ \/ procs[p].kind = "child"
       \/ procs[p].kind = "tun" /\ SeesPrivileged

\* What killProcessByPid of the unprivileged controller leaves.
Killed(p) == IF procs[p].kind = "tun" THEN procs ELSE Ended(procs, p)

TermOnly(p) ==              \* fault: no SIGKILL follows the SIGTERM
    /\ procs' \in {procs, Ended(procs, p)}
    /\ UNCHANGED harmed

KillProcessByPid(p) ==
    /\ procs' = Killed(p)
    /\ harmed' = (harmed \/ procs[p].kind = "stranger")

Started(p, life) ==
    [pid |-> p, life |-> life, phase |-> "cleaning", tunnel |-> "none",
     runtime |-> NoPid, helper |-> 0]

\* The instance lock is taken: nobody else runs.
Start(p) ==
    /\ app.phase = "off"
    /\ app.life < MaxLives
    /\ Free(p) /\ p # pidFile
    /\ procs' = [procs EXCEPT ![p] = Process("app", app.life + 1)]
    /\ app' = Started(p, app.life + 1)
    /\ UNCHANGED <<files, helpers, used, harmed>>

\* cleanupManagedRuntimeOnStartup goes by the record, and by the pid file only when
\* there is no record.
Suspect == IF record = NoPid THEN pidFile ELSE record

CleanupKills ==
    /\ app.phase = "cleaning"
    /\ Likely(Suspect)
    /\ KillProcessByPid(Suspect)
    /\ app' = [app EXCEPT !.phase = "clearing"]
    /\ UNCHANGED <<files, helpers, used>>

CleanupClears ==
    /\ app.phase = "clearing"
    /\ record' = NoPid
    /\ pidFile' = NoPid
    /\ app' = [app EXCEPT !.phase = "up"]
    /\ UNCHANGED <<procs, helpers, used, harmed>>

\* Nothing of ours runs: the file that was looked at is removed, and only that one.
CleanupFindsNone ==
    /\ app.phase = "cleaning"
    /\ ~Likely(Suspect)
    /\ record' = NoPid
    /\ pidFile' = IF record = NoPid THEN NoPid ELSE pidFile
    /\ app' = [app EXCEPT !.phase = "up"]
    /\ UNCHANGED <<procs, helpers, used, harmed>>

-----------------------------------------------------------------------------
(* Proxy mode: the runtime is a child of the application *)

Tunnel(state) == app' = [app EXCEPT !.tunnel = state]

CanLaunch(p) == Free(p) /\ used.runtimes < MaxRuntimes

Launches(kind, life, p, ps) ==
    /\ CanLaunch(p)
    /\ procs' = [ps EXCEPT ![p] = Process(kind, life)]
    /\ used' = [used EXCEPT !.runtimes = @ + 1]

ConnectProxy(p) ==
    /\ Up /\ app.tunnel = "none"
    /\ Launches("child", app.life, p, procs)
    /\ app' = [app EXCEPT !.tunnel = "launched", !.runtime = p]
    /\ UNCHANGED <<files, helpers, harmed>>

ProcessStarted ==
    /\ Up /\ app.tunnel = "launched"
    /\ record' = app.runtime
    /\ Tunnel("proxy")
    /\ UNCHANGED <<procs, pidFile, helpers, used, harmed>>

\* errorOccurred(ReadError): the record goes although the child still runs.
ProcessReadError ==
    /\ Up /\ app.tunnel = "proxy"
    /\ record' = NoPid
    /\ Tunnel("failed")
    /\ UNCHANGED <<procs, pidFile, helpers, used, harmed>>

\* The child ends, by itself or because it is stopped.
ProcessEnds ==
    /\ Up /\ app.tunnel \in {"launched", "proxy", "failed"}
    /\ procs' = Ended(procs, app.runtime)
    /\ record' = NoPid
    /\ app' = [app EXCEPT !.tunnel = "none", !.runtime = NoPid]
    /\ UNCHANGED <<pidFile, helpers, used, harmed>>

-----------------------------------------------------------------------------
(* TUN mode: the runtime is launched, tracked and stopped by a helper *)

\* ensurePrivilegedTunHelper: the helper of this life if it answers, or a new one.
Usable(h) ==
    IF app.helper # 0 /\ helpers[app.helper].up
    THEN h = app.helper
    ELSE ~helpers[h].up /\ \A g \in 1 .. h - 1 : helpers[g].up

ConnectTun(h) ==
    /\ Up /\ app.tunnel = "none"
    /\ Usable(h)
    /\ pidFile' = NoPid
    /\ helpers' = [helpers EXCEPT ![h] =
          IF @.up THEN [@ EXCEPT !.request = "start"]
          ELSE [NoHelper EXCEPT !.up = TRUE, !.life = app.life, !.owner = app.pid,
                                !.request = "start"]]
    /\ app' = [app EXCEPT !.tunnel = "asked", !.helper = h]
    /\ UNCHANGED <<procs, record, used, harmed>>

\* What the controller makes of the answer to a request it still waits for.
Waits(h) == Up /\ app.helper = h /\ app.tunnel \in {"asked", "stopping", "aborting"}

AnswerTo(h, state) == IF Waits(h) THEN Tunnel(state) ELSE UNCHANGED app

Serves(h, request) == helpers[h].up /\ ~helpers[h].starting /\ helpers[h].request = request

\* stopTun: whatever the pid file names is killed, and the file removed.
KilledByPidFile == Ended(procs, pidFile)

\* startTun launches the runtime, after stopping the one it tracks.
HelperLaunches(h, p) ==
    /\ Serves(h, "start")
    /\ Launches("tun", helpers[h].life, p, IF helpers[h].tracks THEN KilledByPidFile ELSE procs)
    /\ pidFile' = p
    /\ helpers' = [helpers EXCEPT ![h].starting = TRUE, ![h].tracks = FALSE]
    /\ UNCHANGED <<app, record, harmed>>

HelperRefuses(h) ==
    /\ Serves(h, "start")
    /\ procs' = IF helpers[h].tracks THEN KilledByPidFile ELSE procs
    /\ pidFile' = IF helpers[h].tracks THEN NoPid ELSE pidFile
    /\ helpers' = [helpers EXCEPT ![h].request = "none", ![h].tracks = FALSE]
    /\ AnswerTo(h, "none")
    /\ UNCHANGED <<record, used, harmed>>

\* ... waits for the interface, sets up the routes and reads the pid file; from then
\* on it watches the application that asked.
HelperStarted(h) ==
    /\ helpers[h].up /\ helpers[h].starting
    /\ helpers' = [helpers EXCEPT ![h].starting = FALSE, ![h].request = "none",
                                  ![h].tracks = (pidFile # NoPid), ![h].misses = 0]
    /\ AnswerTo(h, IF pidFile = NoPid THEN "none" ELSE "answered")
    /\ UNCHANGED <<procs, files, used, harmed>>

\* The interface does not appear or the routes fail: one SIGTERM, which the runtime may
\* ignore, and the pid file is removed.
HelperRoutesFail(h) ==
    /\ helpers[h].up /\ helpers[h].starting
    /\ procs' \in {procs, KilledByPidFile}
    /\ pidFile' = NoPid
    /\ helpers' = [helpers EXCEPT ![h].starting = FALSE, ![h].request = "none"]
    /\ AnswerTo(h, "none")
    /\ UNCHANGED <<record, used, harmed>>

\* The worker reads the pid file; its queued call writes the record.
TunnelUp ==
    /\ Up /\ app.tunnel = "answered"
    /\ IF pidFile = NoPid
       THEN Tunnel("none") /\ UNCHANGED record
       ELSE Tunnel("tun") /\ record' = pidFile
    /\ UNCHANGED <<procs, pidFile, helpers, used, harmed>>

\* A disconnect, or a probe that fails before the tunnel is up.
AskStop ==
    /\ Up /\ app.tunnel \in {"answered", "tun"}
    /\ helpers[app.helper].up
    /\ helpers' = [helpers EXCEPT ![app.helper].request = "stop"]
    /\ Tunnel(IF app.tunnel = "tun" THEN "stopping" ELSE "aborting")
    /\ UNCHANGED <<procs, files, used, harmed>>

HelperStops(h) ==
    /\ Serves(h, "stop")
    /\ procs' = KilledByPidFile
    /\ pidFile' = NoPid
    /\ helpers' = [helpers EXCEPT ![h].request = "none", ![h].tracks = FALSE]
    /\ AnswerTo(h, "none")
    /\ record' = IF Waits(h) THEN NoPid ELSE record
    /\ UNCHANGED <<used, harmed>>

\* A helper that stops what it tracks and quits.
Quits(h) ==
    /\ procs' = IF helpers[h].tracks THEN KilledByPidFile ELSE procs
    /\ pidFile' = IF helpers[h].tracks THEN NoPid ELSE pidFile
    /\ helpers' = [helpers EXCEPT ![h] = NoHelper]
    /\ UNCHANGED <<app, record, used, harmed>>

Idle(h) == Serves(h, "none")

\* The owner watchdog: three probes of the owner's pid that find nothing.
NoWatchdog(h) == FALSE /\ UNCHANGED vars        \* fault: the timer is never started

Watches(h, patience) ==
    /\ helpers[h].up /\ ~helpers[h].starting /\ helpers[h].tracks
    /\ IF ~Free(helpers[h].owner)
       THEN /\ helpers' = [helpers EXCEPT ![h].misses = 0]
            /\ UNCHANGED <<procs, app, files, used, harmed>>
       ELSE IF helpers[h].misses < patience
       THEN /\ helpers' = [helpers EXCEPT ![h].misses = @ + 1]
            /\ UNCHANGED <<procs, app, files, used, harmed>>
       ELSE Quits(h)

OneMoreProbe(h) == Watches(h, 3)        \* fault: a fourth probe

WatchdogTick(h) == Watches(h, 2)

\* The idle timer: a helper without a runtime quits after 30 minutes.
HelperIdles(h) ==
    /\ Idle(h) /\ ~helpers[h].tracks
    /\ Quits(h)

HelperShutsDown(h) ==
    /\ Idle(h) /\ helpers[h].leaving
    /\ Quits(h)

-----------------------------------------------------------------------------
(* How the application ends *)

Orphaned(ps) ==
    [p \in Pids |-> IF ps[p].kind = "child" /\ ps[p].life = app.life
                    THEN [ps[p] EXCEPT !.named = (record = p)] ELSE ps[p]]

Off == app' = [app EXCEPT !.pid = NoPid, !.phase = "off", !.tunnel = "none",
                          !.runtime = NoPid, !.helper = 0]

Crash ==
    /\ app.phase # "off"
    /\ procs' = Ended(Orphaned(procs), app.pid)
    /\ Off
    /\ UNCHANGED <<files, helpers, used, harmed>>

\* aboutToQuit and the destructor: a managed runtime is stopped through the helper, or
\* else what the pid file names killed if it is ours; the child is ended, both files are
\* removed, and the helper is told to leave, which it does when it is done with what it
\* is at.
Quit ==
    LET managed == app.tunnel \in {"tun", "stopping"} /\ helpers[app.helper].up
        stopped == IF managed THEN KilledByPidFile
                   ELSE IF Likely(pidFile) THEN Killed(pidFile) ELSE procs
    IN  /\ Up
        /\ procs' = Ended(Ended(stopped, app.runtime), app.pid)
        /\ record' = NoPid
        /\ pidFile' = NoPid
        /\ helpers' = IF app.helper = 0 THEN helpers
                      ELSE [helpers EXCEPT ![app.helper].leaving = helpers[app.helper].up,
                                           ![app.helper].tracks = @ /\ ~managed,
                                           ![app.helper].request =
                                               IF managed THEN "none" ELSE @]
        /\ Off
        /\ UNCHANGED <<used, harmed>>

-----------------------------------------------------------------------------
(* What happens to processes outside *)

\* A child that lost its application, or a runtime, ends by itself.
RuntimeExits(p) ==
    /\ procs[p].kind \in {"child", "tun"}
    /\ procs[p].kind = "child" => app.phase = "off" \/ procs[p].life # app.life
    /\ procs' = Ended(procs, p)
    /\ UNCHANGED <<app, files, helpers, used, harmed>>

StrangerStarts(p) ==
    /\ Free(p) /\ used.strangers < MaxStrangers
    /\ procs' = [procs EXCEPT ![p] = Process("stranger", 0)]
    /\ used' = [used EXCEPT !.strangers = @ + 1]
    /\ UNCHANGED <<app, files, helpers, harmed>>

StrangerEnds(p) ==
    /\ procs[p].kind = "stranger"
    /\ procs' = Ended(procs, p)
    /\ UNCHANGED <<app, files, helpers, used, harmed>>

-----------------------------------------------------------------------------
FirstPid == CHOOSE p \in Pids : TRUE

\* The first start of the application after its installation.
Init ==
    /\ procs = [p \in Pids |-> IF p = FirstPid THEN Process("app", 1) ELSE Nothing]
    /\ app = Started(FirstPid, 1)
    /\ record = NoPid
    /\ pidFile = NoPid
    /\ helpers = [h \in Helpers |-> NoHelper]
    /\ used = [runtimes |-> 0, strangers |-> 0]
    /\ harmed = FALSE

HelperStep(h) ==
    \/ \E p \in Pids : HelperLaunches(h, p)
    \/ HelperRefuses(h)
    \/ HelperStarted(h)
    \/ HelperRoutesFail(h)
    \/ HelperStops(h)
    \/ HelperShutsDown(h)

Next ==
    \/ \E p \in Pids : Start(p) \/ ConnectProxy(p)
    \/ \E p \in Pids : RuntimeExits(p) \/ StrangerStarts(p) \/ StrangerEnds(p)
    \/ CleanupKills \/ CleanupClears \/ CleanupFindsNone
    \/ ProcessStarted \/ ProcessReadError \/ ProcessEnds
    \/ \E h \in Helpers : ConnectTun(h) \/ HelperStep(h) \/ WatchdogTick(h) \/ HelperIdles(h)
    \/ TunnelUp \/ AskStop
    \/ Crash \/ Quit

\* A helper's requests end and its timers fire.  Nothing is assumed of the application.
Fairness ==
    \A h \in Helpers : /\ WF_vars(HelperStep(h))
                       /\ WF_vars(WatchdogTick(h))
                       /\ WF_vars(HelperIdles(h))

Spec == Init /\ [][Next]_vars /\ Fairness

-----------------------------------------------------------------------------
(* Properties *)

\* Type correctness.
TypeOK ==
    /\ procs \in [Pids -> ProcType]
    /\ app \in AppType
    /\ {record, pidFile} \subseteq Pid0
    /\ helpers \in [Helpers -> HelperType]
    /\ used \in [runtimes : 0 .. MaxRuntimes, strangers : 0 .. MaxStrangers]
    /\ harmed \in BOOLEAN

\* When a start of the application is through with its clean-up, no child runs that a
\* record named when an earlier life crashed, even if the clean-up itself was cut
\* short by another crash (killProcessByPid comes before clearManagedRuntimeRecord).
NoRecordedOrphan ==
    Up => \A p \in Pids : procs[p].kind = "child" /\ procs[p].life < app.life
                             => ~procs[p].named

\* The controller never kills a process that is not a runtime, although the pids in
\* the record and in the pid file may have passed to others (isProcessLikelyManagedXray).
StrangersSurvive == ~harmed

\* The start-up clean-up ends every orphan it can know of, and nothing else.
CleanUpIsSound == NoRecordedOrphan /\ StrangersSurvive

\* The application that launched helper h has ended.
Ownerless(h) == app.phase = "off" \/ app.life # helpers[h].life

\* A helper does not outlive its application: whatever it was doing at the crash or the
\* quit, its watchdog or its idle timer makes it quit, unless another process has got
\* the pid it watches.
HelpersLeave ==
    \A h \in Helpers :
        (helpers[h].up /\ Ownerless(h)) ~>
            (helpers[h].up => ~Free(helpers[h].owner))

\* The privileged runtime of an application that is gone ends, when its helper tracks
\* it, no second helper shares the pid file, and the application is not started again.
\* It stays tracked until it has ended, and it does not stay so.  One that outlived the
\* SIGTERM of a failed start is tracked by nobody, and may run for ever.
Left(p) == app.phase = "off" /\ procs[p].kind = "tun" /\ procs[p].life = app.life

Tracked(p) ==
    /\ pidFile = p
    /\ \E h \in Helpers : /\ helpers[h].up /\ helpers[h].tracks
                          /\ \A g \in Helpers \ {h} : ~helpers[g].up

OrphanedTunnelEnds ==
    /\ [][\A p \in Pids : Left(p) /\ Tracked(p) => ~Left(p)' \/ Tracked(p)']_vars
    /\ (\E p \in Pids : Left(p) /\ Tracked(p)) ~>
          \/ ~ \E p \in Pids : Left(p) /\ Tracked(p)
          \/ \E h \in Helpers : helpers[h].up /\ ~Free(helpers[h].owner)

\* What a crash or a quit leaves behind with privileges comes to its end.
HelpersCleanUp == HelpersLeave /\ OrphanedTunnelEnds

\* A helper that leaves because its application is gone (tunhelper/main.cpp:
\* stopTrackedRuntimeBestEffort in the owner watchdog and in shutdown) stops no runtime
\* but its own.  Refuted: it stops what the shared pid file names by then, the runtime
\* of the application's next life.
WatchdogStopsItsOwn ==
    [][\A h \in Helpers, p \in Pids :
          /\ helpers[h].up /\ ~helpers'[h].up
          /\ procs[p].kind = "tun" /\ procs[p].life # helpers[h].life
          => procs'[p] = procs[p]]_vars
=============================================================================
