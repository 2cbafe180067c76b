---------------------------- MODULE SystemProxy -----------------------------
(***************************************************************************)
(* The system proxy and the kill switch: applySystemProxy and              *)
(* applyKillSwitchState of VpnController, the handlers that call them, and *)
(* SystemProxyManager, which changes the proxies of the macOS network      *)
(* services from a worker thread.                                          *)
(*                                                                         *)
(* The GUI thread owns every field of the controller.  At most one worker  *)
(* runs an operation; its result comes back as a queued call               *)
(* (finalizeResult), and a request made meanwhile waits in a one-place     *)
(* buffer.                                                                 *)
(*                                                                         *)
(* The tunnel is seen through m_connectionState: its changes are those of  *)
(* modules Connection and TunConnection, in any order they can come.       *)
(* Abstracted: ports, the three proxies of a service (one stands for the   *)
(* three), the texts, the settings file.                                   *)
(***************************************************************************)
EXTENDS Integers, FiniteSets

CONSTANTS
    Services,       \* the active macOS network services
    OpsCanFail      \* whether networksetup can fail, time out or be refused

ASSUME SystemProxyAssumption ==
    /\ Services # {}
    /\ OpsCanFail \in BOOLEAN

VARIABLES
    settings,   \* use (m_useSystemProxy), kill (m_killSwitchEnabled),
                \* auto (m_autoDisableSystemProxyOnDisconnect), tun (m_tunMode)
    connState,  \* m_connectionState
    proxy,      \* the request in force, see ProxyType
    os,         \* the services whose proxy is set to GenyConnect
    startup     \* the 900 ms start-up timer is still to fire

vars == <<settings, connState, proxy, os, startup>>

SettingsType == [use : BOOLEAN, kill : BOOLEAN, auto : BOOLEAN, tun : BOOLEAN]

ProxyType ==
    [applied : BOOLEAN,                     \* m_systemProxyApplied
     inFlight : BOOLEAN,                    \* m_proxyApplyInFlight
     op : BOOLEAN,                          \* what the worker was last told: enable?
     result : {"none", "ok", "failed"},     \* the last operation's result
     pending : {-1, 0, 1},                  \* m_pendingProxyApplyState
     force : BOOLEAN,                       \* m_pendingProxyApplyForce
     wanted : BOOLEAN]                      \* history: the last request accepted

IsUp(state) == state = "Connected"
IsBusy(state) == state = "Connecting"

-----------------------------------------------------------------------------
(* applySystemProxy and its callers: each maps the proxy record p, under the *)
(* settings s, to the record it leaves behind.                               *)

Entitled(s) == s.use \/ s.kill

\* The GUI thread hands an operation to the worker.
Launched(p, enable) ==
    [p EXCEPT !.inFlight = TRUE, !.op = enable, !.result = "none", !.wanted = enable]

\* fault: a request that agrees with m_systemProxyApplied is dropped in flight too
DropWhenEqual(p, s, enable, force) ==
    IF enable /\ ~Entitled(s) THEN p
    ELSE IF ~force /\ p.applied = enable THEN [p EXCEPT !.wanted = enable]
    ELSE IF p.inFlight
         THEN [p EXCEPT !.pending = IF enable THEN 1 ELSE 0, !.force = @ \/ force,
                        !.wanted = enable]
    ELSE Launched(p, enable)

\* fault: the waiting requests are counted
CountWaiting(p, s, enable, force) ==
    IF enable /\ ~Entitled(s) THEN p
    ELSE IF p.inFlight THEN [p EXCEPT !.pending = @ + 1, !.wanted = enable]
    ELSE Launched(p, enable)

Apply(p, s, enable, force) ==
    IF enable /\ ~Entitled(s) THEN p
    ELSE IF ~force /\ p.applied = enable /\ ~p.inFlight THEN [p EXCEPT !.wanted = enable]
    ELSE IF p.inFlight
         THEN [p EXCEPT !.pending = IF enable THEN 1 ELSE 0, !.force = @ \/ force,
                        !.wanted = enable]
    ELSE Launched(p, enable)

\* applyKillSwitchState, with the connection in `state'.
ApplyKillSwitch(p, s, state) ==
    IF s.kill
    THEN IF IsUp(state) THEN Apply(p, s, TRUE, FALSE)
         ELSE IF IsBusy(state) THEN p
         ELSE Apply(p, s, TRUE, TRUE)
    ELSE IF ~IsUp(state) /\ ~IsBusy(state) /\ ~s.use /\ p.applied
         THEN Apply(p, s, FALSE, TRUE)
         ELSE p

\* setConnectionState: nothing when the state is the one it has.
Moved(p, s, from, to) == IF from = to THEN p ELSE ApplyKillSwitch(p, s, to)

\* fault: auto-disable is tested before the kill switch
AutoDisableFirst(p, s) ==
    IF s.use /\ s.auto THEN Apply(p, s, FALSE, FALSE)
    ELSE IF s.kill THEN Apply(p, s, TRUE, TRUE)
    ELSE p

\* What onProcessStopped asks for before it moves the connection state.
AfterProcessStopped(p, s) ==
    IF s.kill THEN Apply(p, s, TRUE, TRUE)
    ELSE IF s.use /\ s.auto THEN Apply(p, s, FALSE, FALSE)
    ELSE p

-----------------------------------------------------------------------------
(* The worker thread and its queued answer *)

\* SystemProxyManager::enable and disable: one networksetup command per service;
\* the first that fails ends the operation, and the verification that follows an
\* enable can fail although every command succeeded.
WorkerRuns ==
    /\ proxy.inFlight
    /\ proxy.result = "none"
    /\ \/ /\ os' = IF proxy.op THEN Services ELSE {}
          /\ proxy' = [proxy EXCEPT !.result = "ok"]
       \/ /\ OpsCanFail
          /\ \E done \in SUBSET Services :
                /\ os' = IF proxy.op THEN os \union done ELSE os \ done
                /\ proxy' = [proxy EXCEPT !.result = "failed"]
    /\ UNCHANGED <<settings, connState, startup>>

\* finalizeResult: note the result ...
Noted(p) ==
    [p EXCEPT !.inFlight = FALSE, !.applied = IF p.result = "ok" THEN p.op ELSE @,
              !.pending = -1, !.force = FALSE]

\* fault: the result is taken for the one last asked for
NotedAsWanted(p, s) ==
    LET noted == [Noted(p) EXCEPT !.applied = IF p.result = "ok" THEN p.wanted ELSE p.applied]
    IN  IF p.pending = -1 THEN noted ELSE Apply(noted, s, p.pending = 1, p.force)

\* fault: the waiting request is dropped
NotedOnly(p, s) == Noted(p)

\* fault: the waiting request is not taken out of its place
NotedStillWaiting(p, s) == [Noted(p) EXCEPT !.pending = p.pending]

\* ... then take up the request that waited.  One to enable that is no longer
\* entitled is withdrawn.
Finalized(p, s) ==
    IF p.pending = -1 THEN Noted(p)
    ELSE IF p.pending = 1 /\ ~Entitled(s) THEN [Noted(p) EXCEPT !.wanted = p.op]
    ELSE Apply(Noted(p), s, p.pending = 1, p.force)

Finalize ==
    /\ proxy.inFlight
    /\ proxy.result # "none"
    /\ proxy' = Finalized(proxy, settings)
    /\ UNCHANGED <<settings, connState, os, startup>>

-----------------------------------------------------------------------------
(* The settings page *)

SetUseSystemProxy(enabled) ==
    LET s == [settings EXCEPT !.use = enabled]
    IN  /\ settings.use # enabled
        /\ settings' = s
        /\ proxy' = IF IsUp(connState) THEN Apply(proxy, s, enabled, ~enabled) ELSE proxy
        /\ UNCHANGED <<connState, os, startup>>

SetTunMode(enabled) ==
    /\ settings.tun # enabled
    /\ settings' = [settings EXCEPT !.tun = enabled, !.use = @ /\ ~enabled]
    /\ UNCHANGED <<connState, proxy, os, startup>>

SetKillSwitchEnabled(enabled) ==
    LET s == [settings EXCEPT !.kill = enabled]
    IN  /\ settings.kill # enabled
        /\ settings' = s
        /\ proxy' = ApplyKillSwitch(proxy, s, connState)
        /\ UNCHANGED <<connState, os, startup>>

SetAutoDisable(enabled) ==
    /\ settings.auto # enabled
    /\ settings' = [settings EXCEPT !.auto = enabled]
    /\ UNCHANGED <<connState, proxy, os, startup>>

\* "Reset System Proxy Now".
CleanSystemProxy ==
    /\ proxy' = Apply(proxy, settings, FALSE, TRUE)
    /\ UNCHANGED <<settings, connState, os, startup>>

\* The start-up timer.
StartupKillSwitch ==
    /\ startup
    /\ startup' = FALSE
    /\ proxy' = ApplyKillSwitch(proxy, settings, connState)
    /\ UNCHANGED <<settings, connState, os>>

-----------------------------------------------------------------------------
(* The tunnel's life, as far as the system proxy follows it *)

\* The connection state changes and nothing else asks for the proxy: a connect or
\* a disconnect begins, a TUN runtime comes or goes, a launch fails, an import
\* clears an error, a click finds the runtime still up.
ConnectionMoves(state) ==
    /\ state # connState
    /\ connState' = state
    /\ proxy' = ApplyKillSwitch(proxy, settings, state)
    /\ UNCHANGED <<settings, os, startup>>

\* onProcessStarted: the xray-core child runs.
ProcessStarted ==
    LET up == Moved(proxy, settings, connState, "Connected")
    IN  /\ IsBusy(connState)
        /\ connState' = "Connected"
        /\ proxy' = IF ~settings.tun /\ Entitled(settings)
                    THEN Apply(up, settings, TRUE, FALSE) ELSE up
        /\ UNCHANGED <<settings, os, startup>>

\* onProcessStopped of a child that was stopped or exited by itself, which an import
\* after an error may have left behind Disconnected.  An error stays, unless the child
\* was being stopped.
ProcessStopped(down) ==
    /\ down = "Error" => connState = "Error"
    /\ connState' = down
    /\ proxy' = Moved(AfterProcessStopped(proxy, settings), settings, connState, down)
    /\ UNCHANGED <<settings, os, startup>>

\* A crash: onProcessError moves to Error, then onProcessStopped runs.
ProcessCrashed ==
    /\ connState' = "Error"
    /\ proxy' = AfterProcessStopped(Moved(proxy, settings, connState, "Error"), settings)
    /\ UNCHANGED <<settings, os, startup>>

Init ==
    /\ settings \in {s \in SettingsType : ~(s.tun /\ s.use)}
    /\ connState = "Disconnected"
    /\ proxy = [applied |-> FALSE, inFlight |-> FALSE, op |-> FALSE, result |-> "ok",
                pending |-> -1, force |-> FALSE, wanted |-> FALSE]
    /\ os = {}
    /\ startup = TRUE

Next ==
    \/ WorkerRuns
    \/ Finalize
    \/ \E enabled \in BOOLEAN : SetUseSystemProxy(enabled)
    \/ \E enabled \in BOOLEAN : SetTunMode(enabled)
    \/ \E enabled \in BOOLEAN : SetKillSwitchEnabled(enabled)
    \/ \E enabled \in BOOLEAN : SetAutoDisable(enabled)
    \/ CleanSystemProxy
    \/ StartupKillSwitch
    \/ \E state \in {"Disconnected", "Connecting", "Connected", "Error"} : ConnectionMoves(state)
    \/ ProcessStarted
    \/ \E down \in {"Disconnected", "Error"} : ProcessStopped(down)
    \/ ProcessCrashed

\* The worker's operation ends (every networksetup call has a timeout) and the
\* event loop delivers its queued answer.
Spec == Init /\ [][Next]_vars /\ WF_vars(WorkerRuns) /\ WF_vars(Finalize)

-----------------------------------------------------------------------------
(* Properties *)

TypeOK ==
    /\ settings \in SettingsType
    /\ connState \in {"Disconnected", "Connecting", "Connected", "Error"}
    /\ proxy \in ProxyType
    /\ os \subseteq Services
    /\ startup \in BOOLEAN

\* Whatever requests come while an operation is in flight, the one that is carried
\* out in the end is the last one accepted: it is either the operation that runs,
\* or waits behind it, or is what the last successful operation left.
LastRequestWins ==
    IF proxy.inFlight
    THEN IF proxy.pending = -1 THEN proxy.wanted = proxy.op
                               ELSE proxy.wanted = (proxy.pending = 1)
    ELSE /\ proxy.pending = -1
         /\ proxy.result = "ok" => proxy.wanted = proxy.applied

\* After a successful operation the controller's belief is the state of every
\* service, even if operations before it failed half-way.
BeliefMatchesOs ==
    ~proxy.inFlight /\ proxy.result = "ok" =>
        os = IF proxy.applied THEN Services ELSE {}

\* With the kill switch on, a tunnel that goes down asks for the lock, whatever the
\* other settings are and whatever operation is in flight.
TunnelDownLocks ==
    [][settings.kill /\ connState' # connState /\ connState' \in {"Disconnected", "Error"}
        => proxy'.wanted]_vars

\* The lock is released only by the user, with the kill switch off or by hand.
LockReleasedByUser ==
    [][settings.kill /\ settings'.kill /\ proxy.wanted /\ ~proxy'.wanted
        => CleanSystemProxy \/ SetUseSystemProxy(FALSE)]_vars

\* A request that waits is taken up.
WaitingIsServed == proxy.pending # -1 ~> proxy.pending = -1

\* A requested lock is put on unless networksetup fails or the user gives it up.
LockTakesEffect ==
    (settings.kill /\ proxy.wanted) ~>
        (os = Services \/ proxy.result = "failed" \/ ~settings.kill \/ ~proxy.wanted)

\* What was accepted is carried out: requests in their turn, the lock for good.
RequestsTakeEffect == WaitingIsServed /\ LockTakesEffect
=============================================================================
