---------------------------- MODULE TunConnection ----------------------------
(***************************************************************************)
(* The life cycle of the tunnel in TUN mode (m_tunMode = true): the        *)
(* controller (src/src/vpncontroller.cpp), the pool threads on which it    *)
(* starts and stops the privileged runtime, the elevated helper process    *)
(* that carries the requests out (src/src/tunhelper/main.cpp), and the pid *)
(* file through which all of them name the runtime.                        *)
(*                                                                         *)
(* Four kinds of actors interleave: the GUI thread's callbacks, any number *)
(* of workers (QtConcurrent::run), the helpers, each of which serves one   *)
(* request at a time, and the xray-core runtimes.                          *)
(*                                                                         *)
(* Abstracted: the profile (a row is the selected one or another one),     *)
(* routes and interfaces (they are set up or they fail), ports, tokens,    *)
(* texts, logs, usage.  The controller has no privileges of its own, so    *)
(* that killProcessByPid does not reach a runtime the helper started.  The *)
(* pid file can always be written.                                         *)
(***************************************************************************)
EXTENDS Integers, Sequences, FiniteSets

CONSTANTS
    MaxWorkers,     \* bound: how often a worker is started
    MaxAttempts,    \* bound: how far m_connectAttemptCounter counts
    MaxHelpers,     \* bound: how many helper processes are launched
    Overlap,        \* whether the user acts while a worker is under way
    TimeOuts,       \* whether a request to the helper can time out
    Crashes         \* whether a runtime can exit by itself

ASSUME TunConnectionAssumption ==
    /\ {MaxWorkers, MaxAttempts, MaxHelpers} \subseteq Nat
    /\ {Overlap, TimeOuts, Crashes} \subseteq BOOLEAN

VARIABLES
    connState,      \* m_connectionState
    attempt,        \* m_connectAttemptCounter
    disconnectRequested, \* m_disconnectRequested
    managed,        \* m_privilegedTunManaged
    pending,        \* whether m_pendingReconnectProfileIndex names a row
    reconnects,     \* how many connectToProfile single-shot timers are posted
    record,         \* the managed-runtime record on disk: a pid, or 0
    wished,         \* history: whether the user's last wish was a tunnel
    runtimePid,     \* m_privilegedTunRuntimePid (0 for -1), written by every thread
    helper,         \* the helper that port and token address, or 0
    helperReady,    \* m_privilegedTunHelperReady, written by every thread
    workers,        \* the workers, in the order of their start
    posted,         \* the workers whose queued calls await the GUI thread
    inbox,          \* the requests sent to helpers and not yet answered
    tracking,       \* for every helper, m_runtimeActive
    up,             \* the helpers that run
    alive,          \* the xray-core runtimes that run (their pids)
    spared,         \* history: those of them that outlived an attempt to stop them
    launched,       \* how many runtimes were launched
    pidFile         \* the pid in m_privilegedTunPidPath, or 0 when there is no file

guiVars == <<connState, attempt, disconnectRequested, managed, pending, reconnects, record,
             wished>>
poolVars == <<runtimePid, helper, helperReady, workers, posted>>
helperVars == <<inbox, tracking, up, alive, spared, launched, pidFile>>
vars == <<guiVars, poolVars, helperVars>>

Busy == connState = "Connecting"
Connected == connState = "Connected"
WorkerIds == 1 .. Len(workers)
Quiet == \A w \in WorkerIds : workers[w].phase = "done"

\* What may be asked of the user: nothing while a worker is under way, or anything.
MayAct == Overlap \/ Quiet

-----------------------------------------------------------------------------
(* The controller's handlers *)

\* fault: the lambda captures the attempt before it is counted
CaptureLastAttempt(kind) ==
    /\ Len(workers) < MaxWorkers
    /\ workers' = Append(workers, [kind |-> kind,
                                   attempt |-> IF kind = "start" THEN attempt ELSE 0,
                                   phase |-> "begin", ok |-> FALSE])
    /\ UNCHANGED <<runtimePid, helper, helperReady, posted>>

StartWorker(kind) ==
    /\ Len(workers) < MaxWorkers
    /\ workers' = Append(workers, [kind |-> kind,
                                   attempt |-> IF kind = "start" THEN attempt' ELSE 0,
                                   phase |-> "begin", ok |-> FALSE])
    /\ UNCHANGED <<runtimePid, helper, helperReady, posted>>

\* disconnect() of a runtime it manages.  `row' tells whether a reconnect is pending,
\* which its caller may just have noted.
StopManaged(row) ==
    /\ attempt < MaxAttempts
    /\ attempt' = attempt + 1
    /\ disconnectRequested' = TRUE
    /\ wished' = row
    /\ pending' = row
    /\ connState' = "Connecting"
    /\ StartWorker("stop")
    /\ UNCHANGED <<managed, record>>

\* maybeReconnectToPendingProfile
ReconnectAgain ==           \* fault: the pending row is not reset
    /\ reconnects' = IF pending THEN reconnects + 1 ELSE reconnects
    /\ UNCHANGED pending

MaybeReconnect ==
    /\ reconnects' = IF pending THEN reconnects + 1 ELSE reconnects
    /\ pending' = FALSE

\* clearManagedRuntimeRecord
KeepRecord == UNCHANGED record      \* fault

ClearRecord == record' = 0

\* disconnect() with nothing to stop: a start under way is only made stale.
SettleDisconnected ==
    /\ attempt < MaxAttempts
    /\ attempt' = attempt + 1
    /\ disconnectRequested' = FALSE
    /\ wished' = pending
    /\ MaybeReconnect
    /\ connState' = "Disconnected"
    /\ ClearRecord
    /\ UNCHANGED <<managed, poolVars>>

DisconnectCall ==
    IF managed THEN StopManaged(pending) /\ UNCHANGED reconnects
               ELSE SettleDisconnected

\* connectToProfile: `other' tells whether its row is not the selected one.
ConnectRejected ==
    /\ connState' = "Error"
    /\ UNCHANGED <<attempt, disconnectRequested, managed, pending, record, poolVars>>

ConnectNotLaunched ==
    /\ attempt < MaxAttempts
    /\ attempt' = attempt + 1
    /\ disconnectRequested' = FALSE
    /\ connState' = "Error"
    /\ UNCHANGED <<managed, pending, record, poolVars>>

ConnectLaunched ==
    /\ attempt < MaxAttempts
    /\ attempt' = attempt + 1
    /\ disconnectRequested' = FALSE
    /\ connState' = "Connecting"
    /\ StartWorker("start")
    /\ UNCHANGED <<managed, pending, record>>

ConnectCall(other) ==
    \/ /\ Busy
       /\ UNCHANGED <<connState, attempt, disconnectRequested, managed, pending, record,
                      wished, poolVars>>
    \/ /\ ~Busy
       /\ managed
       /\ IF other \/ pending
          THEN StopManaged(TRUE)
          ELSE /\ connState' = "Connected"
               /\ wished' = TRUE
               /\ disconnectRequested' = (Connected /\ disconnectRequested)
               /\ UNCHANGED <<attempt, managed, pending, record, poolVars>>
    \/ /\ ~Busy
       /\ ~managed
       /\ wished' = TRUE
       /\ ConnectRejected \/ ConnectNotLaunched \/ ConnectLaunched
    \/ /\ ~Busy             \* the row is none of the list's
       /\ managed
       /\ wished' = wished
       /\ ConnectRejected

ToggleConnection ==
    /\ MayAct
    /\ IF Connected \/ Busy
       THEN DisconnectCall
       ELSE ConnectCall(FALSE) /\ UNCHANGED reconnects
    /\ UNCHANGED helperVars

ConnectToProfile(other) ==
    /\ MayAct
    /\ ConnectCall(other)
    /\ UNCHANGED <<reconnects, helperVars>>

\* setCurrentProfileIndex with another row.  The code's test connected() ||
\* runtimeActive is managed: see ConnectedIsWished.
SelectOther ==
    /\ MayAct
    /\ ~Busy
    /\ managed
    /\ StopManaged(TRUE)
    /\ UNCHANGED <<reconnects, helperVars>>

\* singleShot(0) of maybeReconnectToPendingProfile.
RepeatedReconnect(other) ==         \* fault: the timer is not a single shot
    /\ reconnects' = reconnects - 1
    /\ ConnectCall(other)
    /\ UNCHANGED helperVars

ReconnectFires(other) ==
    /\ reconnects > 0
    /\ reconnects' = reconnects - 1
    /\ ConnectCall(other)
    /\ UNCHANGED helperVars

\* The queued call at the end of a start.  That of a cancelled attempt is ignored.
Handled(w) ==
    /\ posted # <<>>
    /\ w = Head(posted)
    /\ posted' = Tail(posted)
    /\ workers' = [workers EXCEPT ![w].phase = "done"]
    /\ UNCHANGED <<attempt, wished, helper, helperReady, inbox, tracking, up, alive,
                   spared, launched>>

NeverStale(w) == FALSE      \* fault: the queued call does not compare the attempts

Stale(w) == workers[w].attempt # attempt

StartCompletes(w) ==
    /\ Handled(w)
    /\ workers[w].kind = "start"
    /\ IF Stale(w)
       THEN UNCHANGED <<connState, disconnectRequested, managed, record, runtimePid>>
       ELSE IF workers[w].ok
       THEN /\ managed' = TRUE
            /\ disconnectRequested' = FALSE
            /\ record' = IF runtimePid = 0 THEN record ELSE runtimePid
            /\ connState' = "Connected"
            /\ UNCHANGED runtimePid
       ELSE /\ managed' = FALSE
            /\ runtimePid' = 0
            /\ connState' = "Error"
            /\ UNCHANGED <<disconnectRequested, record>>
    /\ UNCHANGED <<pending, reconnects, pidFile>>

\* The queued call at the end of a stop.  stopPrivilegedTunRuntimeByPidPath kills
\* nothing and removes the pid file.
StopCompletes(w) ==
    /\ Handled(w)
    /\ workers[w].kind = "stop"
    /\ managed' = FALSE
    /\ runtimePid' = 0
    /\ ClearRecord
    /\ pidFile' = IF workers[w].ok THEN pidFile ELSE 0
    /\ disconnectRequested' = FALSE
    /\ connState' = "Disconnected"
    /\ MaybeReconnect

-----------------------------------------------------------------------------
(* The workers.  Each step lies between two blocking calls. *)

InPhase(w, kind, phase) == workers[w].kind = kind /\ workers[w].phase = phase

Moved(w, phase) == [workers EXCEPT ![w].phase = phase]

\* The worker ends: its queued call is posted.
PostSuccess(w, ok) ==               \* fault: a failure is not reported
    /\ workers' = [workers EXCEPT ![w].phase = IF ok THEN "posted" ELSE "done", ![w].ok = ok]
    /\ posted' = IF ok THEN Append(posted, w) ELSE posted

Posted(w, ok) ==
    /\ workers' = [workers EXCEPT ![w].phase = "posted", ![w].ok = ok]
    /\ posted' = Append(posted, w)

\* The phase of a worker whose request has been answered.
AfterAnswer(phase) ==
    CASE phase = "waiting" -> "answered"
      [] phase = "stopping" -> "stopped"
      [] phase = "cancelling" -> "cancelled"

\* A request is written to the helper and its answer awaited in phase `phase'.
Asked(w, action, h, phase) ==
    /\ workers' = Moved(w, phase)
    /\ inbox' = inbox \union {[worker |-> w, helper |-> h, action |-> action,
                               running |-> FALSE]}

\* startPrivilegedTunProcess begins: whatever the pid file names is forgotten.
StartBegins(w) ==
    /\ InPhase(w, "start", "begin")
    /\ runtimePid' = 0
    /\ pidFile' = 0
    /\ workers' = Moved(w, "ensure")
    /\ UNCHANGED <<guiVars, helper, helperReady, posted, inbox, tracking, up, alive,
                   spared, launched>>

\* ensurePrivilegedTunHelper: a helper that answers the ping is used.  One that is
\* serving a request may not answer in time.  Otherwise a new one is launched, which
\* the user may refuse the privileges.
Serving(h) == \E r \in inbox : r.helper = h

HelperFound(w) ==
    /\ InPhase(w, "start", "ensure")
    /\ helperReady /\ helper \in up
    /\ Asked(w, "start_tun", helper, "waiting")
    /\ UNCHANGED <<guiVars, runtimePid, helper, helperReady, posted, tracking, up, alive,
                   spared, launched, pidFile>>

PingFails(w) ==
    /\ InPhase(w, "start", "ensure")
    /\ ~helperReady \/ helper \notin up \/ (Serving(helper) /\ TimeOuts)
    /\ helperReady' = FALSE
    /\ workers' = Moved(w, "launching")
    /\ UNCHANGED <<guiVars, runtimePid, helper, posted, helperVars>>

HelperLaunched(w, h) ==
    /\ InPhase(w, "start", "launching")
    /\ h \notin up /\ ~Serving(h)
    /\ \A g \in 1 .. h - 1 : g \in up \/ Serving(g)
    /\ helper' = h
    /\ helperReady' = TRUE
    /\ up' = up \union {h}
    /\ Asked(w, "start_tun", h, "waiting")
    /\ UNCHANGED <<guiVars, runtimePid, posted, tracking, alive, spared, launched, pidFile>>

HelperRefused(w) ==
    /\ InPhase(w, "start", "launching")
    /\ helper' = 0
    /\ Posted(w, FALSE)
    /\ UNCHANGED <<guiVars, runtimePid, helperReady, helperVars>>

\* The helper's answer to start_tun was ok: the pid file is read.
PidRead(w) ==
    /\ InPhase(w, "start", "answered")
    /\ IF workers[w].ok /\ pidFile # 0
       THEN /\ runtimePid' = pidFile
            /\ workers' = Moved(w, "probing")
            /\ UNCHANGED posted
       ELSE /\ Posted(w, FALSE)
            /\ UNCHANGED runtimePid
    /\ UNCHANGED <<guiVars, helper, helperReady, helperVars>>

\* stopPrivilegedTunProcess: nothing to ask of a helper that is not ready.
AsksToStop(w, phase) ==
    IF helperReady
    THEN Asked(w, "stop_tun", helper, phase) /\ UNCHANGED runtimePid
    ELSE /\ workers' = [workers EXCEPT ![w].phase = AfterAnswer(phase), ![w].ok = TRUE]
         /\ runtimePid' = 0
         /\ UNCHANGED inbox

\* The local port does not answer within 12 s.
ProbeFails(w) ==
    /\ InPhase(w, "start", "probing")
    /\ AsksToStop(w, "stopping")
    /\ UNCHANGED <<guiVars, helper, helperReady, posted, tracking, up, alive, spared,
                   launched, pidFile>>

\* It answers, whichever runtime holds it, and the worker looks whether the attempt
\* has been cancelled.
Cancelled(w) == disconnectRequested \/ Stale(w)

ProbeSucceeds(w) ==
    /\ InPhase(w, "start", "probing")
    /\ alive # {}
    /\ IF Cancelled(w)
       THEN /\ AsksToStop(w, "cancelling")
            /\ UNCHANGED posted
       ELSE /\ Posted(w, TRUE)
            /\ UNCHANGED <<runtimePid, inbox>>
    /\ UNCHANGED <<guiVars, helper, helperReady, tracking, up, alive, spared, launched,
                   pidFile>>

\* The pid is forgotten when the helper has stopped the runtime.
ForgetPid(w) == runtimePid' = IF workers[w].ok THEN 0 ELSE runtimePid

\* A start that was stopped again reports its failure.
StartAborted(w) ==
    /\ InPhase(w, "start", "stopped")
    /\ Posted(w, FALSE)
    /\ ForgetPid(w)
    /\ UNCHANGED <<guiVars, helper, helperReady, helperVars>>

\* One that was cancelled first removes the pid file (stopPrivilegedTunRuntimeByPidPath).
CancelEnds(w) ==
    /\ InPhase(w, "start", "cancelled")
    /\ Posted(w, FALSE)
    /\ runtimePid' = 0
    /\ pidFile' = 0
    /\ UNCHANGED <<guiVars, helper, helperReady, inbox, tracking, up, alive, spared, launched>>

StopBegins(w) ==
    /\ InPhase(w, "stop", "begin")
    /\ AsksToStop(w, "stopping")
    /\ UNCHANGED <<guiVars, helper, helperReady, posted, tracking, up, alive, spared,
                   launched, pidFile>>

StopAnswered(w) ==
    /\ InPhase(w, "stop", "stopped")
    /\ Posted(w, workers[w].ok)
    /\ ForgetPid(w)
    /\ UNCHANGED <<guiVars, helper, helperReady, helperVars>>

\* sendPrivilegedTunHelperRequest fails: the helper cannot be reached, or does not
\* answer in time (it will still serve the request).
Awaiting == {"waiting", "stopping", "cancelling"}

RequestOf(w) == CHOOSE r \in inbox : r.worker = w

RequestFails(w) ==
    /\ workers[w].phase \in Awaiting
    /\ \/ RequestOf(w).helper \notin up /\ inbox' = inbox \ {RequestOf(w)}
       \/ RequestOf(w).helper \in up /\ TimeOuts /\ UNCHANGED inbox
    /\ helperReady' = (RequestOf(w).helper = 0 /\ helperReady)
    /\ IF workers[w].phase = "cancelling"
       THEN workers' = Moved(w, "cancelled") /\ UNCHANGED posted
       ELSE Posted(w, FALSE)
    /\ UNCHANGED <<guiVars, runtimePid, helper, tracking, up, alive, spared, launched,
                   pidFile>>

-----------------------------------------------------------------------------
(* The helpers.  Each is single-threaded: a request is served to its end. *)

\* A request sent to helper h can be served now.
NextRequest(r, h) ==
    /\ r.helper = h /\ h \in up
    /\ ~ \E q \in inbox : q.helper = h /\ q.running

\* A request leaves the inbox; a worker that still waits gets the answer.
Answered(r, ok) ==
    /\ inbox' = inbox \ {r}
    /\ IF workers[r.worker].phase \in Awaiting
       THEN /\ workers' = [workers EXCEPT ![r.worker].phase = AfterAnswer(@),
                                          ![r.worker].ok = ok]
            /\ helperReady' = TRUE
       ELSE UNCHANGED <<workers, helperReady>>
    /\ UNCHANGED <<guiVars, runtimePid, helper, posted, up>>

\* What becomes of the runtimes that the pids in `named' name.  stopTun sends SIGTERM
\* and, 200 ms later, SIGKILL, unless its command fails or takes too long.  After a
\* failed start macOS sends one SIGTERM, which a runtime may ignore or be slow to obey.
Hit(named) == alive' = alive \ named

MayHit(named) == alive' \in {alive, alive \ named}

Spare(named) == spared' = (spared \union named) \intersect alive'

\* stopTrackedRuntimeBestEffort of the helper h, as startTun calls it.
TrackedPid(h) == IF tracking[h] THEN {pidFile} ELSE {}

\* startTun launches the runtime, after stopping by pid file the one it tracks.
RuntimeLaunched(r) ==
    /\ NextRequest(r, r.helper) /\ r.action = "start_tun"
    /\ launched' = launched + 1
    /\ alive' \in {left \union {launched'} : left \in {alive, alive \ TrackedPid(r.helper)}}
    /\ Spare(TrackedPid(r.helper))
    /\ pidFile' = launched'
    /\ tracking' = [tracking EXCEPT ![r.helper] = FALSE]
    /\ inbox' = (inbox \ {r}) \union {[r EXCEPT !.running = TRUE]}
    /\ UNCHANGED <<guiVars, poolVars, up>>

\* ... and waits for the interface, sets up the routes, and reads the pid file.
StartServed(r) ==
    /\ r.running
    /\ pidFile # 0
    /\ tracking' = [tracking EXCEPT ![r.helper] = TRUE]
    /\ Answered(r, TRUE)
    /\ UNCHANGED <<alive, spared, launched, pidFile>>

\* The pid file is gone: startTun fails and leaves the runtime alone.
StartLosesPid(r) ==
    /\ r.running
    /\ pidFile = 0
    /\ Answered(r, FALSE)
    /\ UNCHANGED <<tracking, alive, spared, launched, pidFile>>

\* The interface does not appear, or the routes cannot be set up: the runtime is sent
\* a signal through the pid file, which is removed unless the command fails.
RoutesFail(r) ==
    /\ r.running
    /\ MayHit({pidFile})
    /\ Spare({pidFile})
    /\ pidFile' \in {0, pidFile}
    /\ Answered(r, FALSE)
    /\ UNCHANGED <<tracking, launched>>

\* startTun finds no executable or no config, or cannot launch it.
StartRefused(r) ==
    /\ NextRequest(r, r.helper) /\ r.action = "start_tun"
    /\ MayHit(TrackedPid(r.helper))
    /\ Spare(TrackedPid(r.helper))
    /\ pidFile' \in IF tracking[r.helper] THEN {0, pidFile} ELSE {pidFile}
    /\ tracking' = [tracking EXCEPT ![r.helper] = FALSE]
    /\ Answered(r, FALSE)
    /\ UNCHANGED launched

\* stopTun kills what the pid file names, and removes the file.
ForgetRuntime(r) ==                 \* fault: nothing is killed
    /\ pidFile' = 0
    /\ UNCHANGED <<alive, spared>>

KillByPidFile(r) ==
    /\ Hit({pidFile})
    /\ Spare({})
    /\ pidFile' = 0

StopServed(r) ==
    /\ NextRequest(r, r.helper) /\ r.action = "stop_tun"
    /\ KillByPidFile(r)
    /\ tracking' = [tracking EXCEPT ![r.helper] = FALSE]
    /\ Answered(r, TRUE)
    /\ UNCHANGED launched

\* Its command fails or takes too long: the file is removed last, and stays.
StopFails(r) ==
    /\ NextRequest(r, r.helper) /\ r.action = "stop_tun"
    /\ MayHit({pidFile})
    /\ Spare({pidFile})
    /\ Answered(r, FALSE)
    /\ UNCHANGED <<tracking, launched, pidFile>>

\* The idle timer: a helper that tracks no runtime quits after 30 minutes.
HelperIdles(h) ==
    /\ h \in up
    /\ ~tracking[h] /\ ~Serving(h)
    /\ up' = up \ {h}
    /\ UNCHANGED <<guiVars, poolVars, inbox, tracking, alive, spared, launched, pidFile>>

\* A runtime exits by itself: nobody is told.
RuntimeExits(pid) ==
    /\ Crashes
    /\ pid \in alive
    /\ Hit({pid})
    /\ Spare({})
    /\ UNCHANGED <<guiVars, poolVars, inbox, tracking, up, launched, pidFile>>

-----------------------------------------------------------------------------
Init ==
    /\ connState = "Disconnected"
    /\ attempt = 0
    /\ disconnectRequested = FALSE
    /\ managed = FALSE
    /\ pending = FALSE
    /\ reconnects = 0
    /\ record = 0
    /\ wished = FALSE
    /\ runtimePid = 0
    /\ helper = 0
    /\ helperReady = FALSE
    /\ workers = <<>>
    /\ posted = <<>>
    /\ inbox = {}
    /\ tracking = [h \in 1 .. MaxHelpers |-> FALSE]
    /\ up = {}
    /\ alive = {}
    /\ spared = {}
    /\ launched = 0
    /\ pidFile = 0

WorkerStep(w) ==
    \/ StartBegins(w)
    \/ HelperFound(w)
    \/ PingFails(w)
    \/ \E h \in 1 .. MaxHelpers : HelperLaunched(w, h)
    \/ HelperRefused(w)
    \/ PidRead(w)
    \/ ProbeFails(w)
    \/ ProbeSucceeds(w)
    \/ StartAborted(w)
    \/ CancelEnds(w)
    \/ StopBegins(w)
    \/ StopAnswered(w)
    \/ RequestFails(w)

HelperStep(r) ==
    \/ RuntimeLaunched(r)
    \/ StartServed(r)
    \/ StartLosesPid(r)
    \/ RoutesFail(r)
    \/ StartRefused(r)
    \/ StopServed(r)
    \/ StopFails(r)

Next ==
    \/ ToggleConnection
    \/ \E other \in BOOLEAN : ConnectToProfile(other)
    \/ SelectOther
    \/ \E other \in BOOLEAN : ReconnectFires(other)
    \/ \E w \in WorkerIds : StartCompletes(w) \/ StopCompletes(w) \/ WorkerStep(w)
    \/ \E r \in inbox : HelperStep(r)
    \/ \E h \in 1 .. MaxHelpers : HelperIdles(h)
    \/ \E pid \in alive : RuntimeExits(pid)

\* The event loop runs the queued calls and timers, the threads of the pool run, and
\* a helper ends every request it serves (each of its commands has a timeout).
Fairness ==
    /\ \A w \in 1 .. MaxWorkers :
          WF_vars(w \in WorkerIds /\ (StartCompletes(w) \/ StopCompletes(w) \/ WorkerStep(w)))
    /\ WF_vars(\E r \in inbox : HelperStep(r))

Spec == Init /\ [][Next]_vars /\ Fairness

-----------------------------------------------------------------------------
(* Properties *)

Phases == {"begin", "ensure", "launching", "waiting", "answered", "probing", "stopping",
           "stopped", "cancelling", "cancelled", "posted", "done"}

\* Type correctness.
TypeOK ==
    /\ connState \in {"Disconnected", "Connecting", "Connected", "Error"}
    /\ attempt \in 0 .. MaxAttempts
    /\ {disconnectRequested, managed, pending, wished, helperReady} \subseteq BOOLEAN
    /\ reconnects \in Nat
    /\ {record, runtimePid, pidFile} \subseteq 0 .. launched
    /\ helper \in 0 .. MaxHelpers
    /\ \A w \in WorkerIds :
          workers[w] \in [kind : {"start", "stop"}, attempt : 0 .. MaxAttempts,
                          phase : Phases, ok : BOOLEAN]
    /\ \A i \in 1 .. Len(posted) : posted[i] \in WorkerIds
    /\ inbox \subseteq [worker : WorkerIds, helper : 0 .. MaxHelpers,
                        action : {"start_tun", "stop_tun"}, running : BOOLEAN]
    /\ tracking \in [1 .. MaxHelpers -> BOOLEAN]
    /\ up \subseteq 1 .. MaxHelpers
    /\ alive \subseteq 1 .. launched /\ spared \subseteq alive

\* A tunnel shown as connected is one the controller manages and that the user's
\* last wish asked for: a late answer of a start that was cancelled, or replaced,
\* never brings the tunnel up (the queued call compares the attempts).
ConnectedIsWished == Connected => managed /\ wished

\* The state never stays Connecting: a worker is under way whose queued call will
\* change it, and it is not one whose call will be ignored.
BusyIsBacked ==
    Busy => \E w \in WorkerIds :
                /\ workers[w].phase # "done"
                /\ workers[w].kind = "start" => ~Stale(w)

\* A reconnect waits only for a stop that is under way.
PendingOnlyWhileStopping ==
    pending => \E w \in WorkerIds : workers[w].kind = "stop" /\ workers[w].phase # "done"

\* The record on disk is kept exactly as long as the controller manages a runtime.
RecordOnlyWhileManaged == record # 0 => managed

\* Neither a reconnect nor a record outlives what it was noted for.
NothingLeftBehind == PendingOnlyWhileStopping /\ RecordOnlyWhileManaged

\* Every start and every stop ends, and the interface leaves Connecting.
ConnectingEnds == Busy ~> ~Busy

\* When the user waits for each operation to end and no request times out, there is one
\* runtime at most that no helper has tried to stop, and none when the tunnel is down.  One
\* that outlived the attempt is out of everybody's sight: macOS sends a single SIGTERM
\* when the routes cannot be set up, and a stop whose command fails is not repeated.
Untouched == alive \ spared

NoRuntimeLeft ==
    /\ Cardinality(Untouched) <= 1
    /\ Quiet /\ ~managed => Untouched = {}

\* As long as the user waits for each operation, TUN mode implements the life cycle that
\* proxy mode implements too, whatever the workers, the helpers and the runtimes do.
Lifecycle == INSTANCE TunnelLifecycle
    WITH state <- connState, runtime <- managed, leaving <- disconnectRequested,
         again <- pending, owed <- reconnects

ImplementsLifecycle == Lifecycle!Spec

-----------------------------------------------------------------------------
(* What the repository says of the code and the code does not do *)

\* connectionstate.cppm: "Disconnected" means that there is no tunnel process.
DisconnectedMeansNoRuntime ==
    connState = "Disconnected" /\ Quiet /\ inbox = {} => alive = {}
==============================================================================
