------------------------- MODULE SystemProxyProofs --------------------------
(***************************************************************************)
(* Proofs about SystemProxy, for every set of network services and whether *)
(* or not networksetup can fail.                                           *)
(*                                                                         *)
(* Every handler changes the request record only through Apply and Noted,  *)
(* so each invariant is a predicate of that record (and of os), shown to   *)
(* be kept by Apply once and carried through the handlers built from it.   *)
(***************************************************************************)
EXTENDS SystemProxy, TLAPS

ConnStates == {"Disconnected", "Connecting", "Connected", "Error"}

\* LastRequestWins of a record.
Coherent(p) ==
    IF p.inFlight
    THEN IF p.pending = -1 THEN p.wanted = p.op ELSE p.wanted = (p.pending = 1)
    ELSE /\ p.pending = -1
         /\ p.result = "ok" => p.wanted = p.applied

\* BeliefMatchesOs, with what makes it inductive: the operation that has succeeded
\* and whose answer is still queued has set every service already.
Believed(p, o) ==
    p.result = "ok" =>
        o = IF (IF p.inFlight THEN p.op ELSE p.applied) THEN Services ELSE {}

Good(p, o) == p \in ProxyType /\ Coherent(p) /\ Believed(p, o)

-----------------------------------------------------------------------------
(* Lemmas about the request record *)

\* A request applySystemProxy accepts is the one wanted from then on, and the record
\* is coherent whatever was wanted before.
LEMMA ApplyAccepts ==
    ASSUME NEW p \in ProxyType, NEW o, Believed(p, o), ~p.inFlight => p.pending = -1,
           NEW s \in SettingsType, NEW enable \in BOOLEAN, NEW force \in BOOLEAN,
           enable => Entitled(s)
    PROVE  /\ Good(Apply(p, s, enable, force), o)
           /\ Apply(p, s, enable, force).wanted = enable
<1> DEFINE q == Apply(p, s, enable, force)
<1>1. CASE ~force /\ p.applied = enable /\ ~p.inFlight
  <2>1. q = [p EXCEPT !.wanted = enable]
    BY <1>1 DEF Apply
  <2>2. q \in ProxyType
    BY <2>1 DEF ProxyType
  <2> QED
    BY <1>1, <2>1, <2>2 DEF Good, ProxyType, Coherent, Believed
<1>2. CASE p.inFlight
  <2>1. q = [p EXCEPT !.pending = IF enable THEN 1 ELSE 0,
                      !.force = @ \/ force, !.wanted = enable]
    BY <1>2 DEF Apply
  <2>2. q \in ProxyType
    BY <2>1 DEF ProxyType
  <2> QED
    BY <1>2, <2>1, <2>2 DEF Good, ProxyType, Coherent, Believed
<1>3. CASE ~p.inFlight /\ ~(~force /\ p.applied = enable)
  <2>1. q = Launched(p, enable)
    BY <1>3 DEF Apply
  <2>2. q \in ProxyType
    BY <2>1 DEF Launched, ProxyType
  <2> QED
    BY <1>3, <2>1, <2>2 DEF Launched, Good, ProxyType, Coherent, Believed
<1> QED
  BY <1>1, <1>2, <1>3

\* Any request, accepted or refused, keeps the record's invariant.
LEMMA ApplyGood ==
    ASSUME NEW p, NEW o, Good(p, o), NEW s \in SettingsType,
           NEW enable \in BOOLEAN, NEW force \in BOOLEAN
    PROVE  Good(Apply(p, s, enable, force), o)
<1>1. CASE enable => Entitled(s)
  <2>1. p \in ProxyType /\ Believed(p, o) /\ (~p.inFlight => p.pending = -1)
    BY DEF Good, Coherent
  <2> QED
    BY <1>1, <2>1, ApplyAccepts
<1>2. CASE enable /\ ~Entitled(s)
  BY <1>2 DEF Apply
<1> QED
  BY <1>1, <1>2

\* applyKillSwitchState keeps the record's invariant.
LEMMA KillSwitchGood ==
    ASSUME NEW p, NEW o, Good(p, o), NEW s \in SettingsType, NEW state \in ConnStates
    PROVE  Good(ApplyKillSwitch(p, s, state), o)
BY ApplyGood DEF ApplyKillSwitch

\* So do setConnectionState and what onProcessStopped asks for before it.
LEMMA MovedGood ==
    ASSUME NEW p, NEW o, Good(p, o), NEW s \in SettingsType,
           NEW from \in ConnStates, NEW to \in ConnStates
    PROVE  Good(Moved(p, s, from, to), o)
BY KillSwitchGood DEF Moved

LEMMA AfterStopGood ==
    ASSUME NEW p, NEW o, Good(p, o), NEW s \in SettingsType
    PROVE  Good(AfterProcessStopped(p, s), o)
BY ApplyGood DEF AfterProcessStopped

\* finalizeResult keeps the record's invariant: the result noted is the running
\* operation's, and the waiting request is carried out or withdrawn.
LEMMA FinalizedGood ==
    ASSUME NEW p, NEW o, Good(p, o), NEW s \in SettingsType,
           p.inFlight, p.result # "none"
    PROVE  Good(Finalized(p, s), o)
<1> DEFINE n == Noted(p)
<1>1. n \in ProxyType
  BY DEF Noted, Good, ProxyType
<1>2. Believed(n, o)
  BY DEF Noted, Good, ProxyType, Believed
<1>3. /\ ~n.inFlight
      /\ n.pending = -1
      /\ n.wanted = p.wanted
      /\ n.result = p.result
      /\ p.result = "ok" => n.applied = p.op
  BY DEF Noted, Good, ProxyType
<1>4. CASE p.pending = -1
  BY <1>1, <1>2, <1>3, <1>4 DEF Finalized, Good, Coherent
<1>5. CASE p.pending # -1 /\ p.pending = 1 /\ ~Entitled(s)
  <2>1. Finalized(p, s) = [n EXCEPT !.wanted = p.op]
    BY <1>5 DEF Finalized
  <2> QED
    BY <1>1, <1>2, <1>3, <2>1 DEF Good, ProxyType, Coherent, Believed
<1>6. CASE p.pending # -1 /\ ~(p.pending = 1 /\ ~Entitled(s))
  <2>1. Finalized(p, s) = Apply(n, s, p.pending = 1, p.force)
    BY <1>6 DEF Finalized
  <2>2. (p.pending = 1) \in BOOLEAN /\ p.force \in BOOLEAN
    BY DEF Good, ProxyType
  <2> HIDE DEF n
  <2> QED
    BY <1>1, <1>2, <1>3, <1>6, <2>1, <2>2, ApplyAccepts
<1> QED
  BY <1>4, <1>5, <1>6

-----------------------------------------------------------------------------
(* The inductive invariant *)

IInv == TypeOK /\ LastRequestWins /\ Believed(proxy, os)

LEMMA IInvIsGood == IInv <=> TypeOK /\ Good(proxy, os)
BY DEF IInv, TypeOK, LastRequestWins, Coherent, Good

LEMMA InitIInv == Init => IInv
BY DEF Init, IInv, TypeOK, LastRequestWins, Believed, SettingsType, ProxyType

LEMMA NextIInv == IInv /\ [Next]_vars => IInv'
<1> SUFFICES ASSUME IInv, [Next]_vars PROVE IInv'
  OBVIOUS
<1> USE DEF ConnStates
<1>1. TypeOK /\ Good(proxy, os)
  BY IInvIsGood
<1> DEFINE Kept == /\ Good(proxy', os')
                   /\ settings' \in SettingsType
                   /\ connState' \in ConnStates
                   /\ os' \subseteq Services
                   /\ startup' \in BOOLEAN
<1>2. SUFFICES Kept
  BY DEF IInv, TypeOK, LastRequestWins, Good, Coherent
<1>3. settings \in SettingsType /\ connState \in ConnStates
  BY <1>1 DEF TypeOK
<1>4. CASE WorkerRuns
  <2>1. PICK r \in {"ok", "failed"} :
            /\ proxy' = [proxy EXCEPT !.result = r]
            /\ r = "ok" => os' = IF proxy.op THEN Services ELSE {}
            /\ os' \subseteq Services
    BY <1>1, <1>4 DEF WorkerRuns, TypeOK
  <2> QED
    BY <1>1, <1>4, <2>1 DEF WorkerRuns, TypeOK, Good, ProxyType, Coherent, Believed
<1>5. CASE Finalize
  BY <1>1, <1>3, <1>5, FinalizedGood DEF Finalize, TypeOK
<1>6. ASSUME NEW enabled \in BOOLEAN, SetUseSystemProxy(enabled)
      PROVE  Kept
  <2>1. settings' \in SettingsType
    BY <1>3, <1>6 DEF SetUseSystemProxy, SettingsType
  <2> QED
    BY <1>1, <1>6, <2>1, ApplyGood DEF SetUseSystemProxy, TypeOK
<1>7. ASSUME NEW enabled \in BOOLEAN, SetTunMode(enabled)
      PROVE  Kept
  <2>1. settings' \in SettingsType
    BY <1>3, <1>7 DEF SetTunMode, SettingsType
  <2> QED
    BY <1>1, <1>7, <2>1 DEF SetTunMode, TypeOK
<1>8. ASSUME NEW enabled \in BOOLEAN, SetKillSwitchEnabled(enabled)
      PROVE  Kept
  <2>1. settings' \in SettingsType
    BY <1>3, <1>8 DEF SetKillSwitchEnabled, SettingsType
  <2> QED
    BY <1>1, <1>3, <1>8, <2>1, KillSwitchGood DEF SetKillSwitchEnabled, TypeOK
<1>9. ASSUME NEW enabled \in BOOLEAN, SetAutoDisable(enabled)
      PROVE  Kept
  <2>1. settings' \in SettingsType
    BY <1>3, <1>9 DEF SetAutoDisable, SettingsType
  <2> QED
    BY <1>1, <1>9, <2>1 DEF SetAutoDisable, TypeOK
<1>10. CASE CleanSystemProxy
  BY <1>1, <1>3, <1>10, ApplyGood DEF CleanSystemProxy, TypeOK
<1>11. CASE StartupKillSwitch
  BY <1>1, <1>3, <1>11, KillSwitchGood DEF StartupKillSwitch, TypeOK
<1>12. ASSUME NEW state \in ConnStates, ConnectionMoves(state)
       PROVE  Kept
  BY <1>1, <1>3, <1>12, KillSwitchGood DEF ConnectionMoves, TypeOK
<1>13. CASE ProcessStarted
  <2>1. Good(Moved(proxy, settings, connState, "Connected"), os)
    BY <1>1, <1>3, MovedGood
  <2> QED
    BY <1>1, <1>3, <1>13, <2>1, ApplyGood DEF ProcessStarted, TypeOK
<1>14. ASSUME NEW down \in {"Disconnected", "Error"}, ProcessStopped(down)
       PROVE  Kept
  BY <1>1, <1>3, <1>14, AfterStopGood, MovedGood DEF ProcessStopped, TypeOK
<1>15. CASE ProcessCrashed
  BY <1>1, <1>3, <1>15, AfterStopGood, MovedGood DEF ProcessCrashed, TypeOK
<1>16. CASE UNCHANGED vars
  BY <1>1, <1>16 DEF vars, TypeOK
<1> QED
  BY <1>4, <1>5, <1>6, <1>7, <1>8, <1>9, <1>10, <1>11, <1>12, <1>13, <1>14, <1>15,
     <1>16 DEF Next

\* IInv holds in every reachable state.
THEOREM Invariance == Spec => []IInv
BY InitIInv, NextIInv, PTL DEF Spec

\* The settings, the request record and the services always have their types.
THEOREM TypeCorrect == Spec => []TypeOK
<1>1. IInv => TypeOK
  BY DEF IInv
<1> QED
  BY <1>1, Invariance, PTL

\* The last request accepted is the one carried out, however requests interleave
\* with the operation in flight and its queued answer (applySystemProxy).
THEOREM LastRequestWinsAlways == Spec => []LastRequestWins
<1>1. IInv => LastRequestWins
  BY DEF IInv
<1> QED
  BY <1>1, Invariance, PTL

\* After a successful operation m_systemProxyApplied tells the proxy of every
\* service, whatever operations failed half-way before.
THEOREM BeliefMatchesOsAlways == Spec => []BeliefMatchesOs
<1>1. IInv => BeliefMatchesOs
  BY DEF IInv, Believed, BeliefMatchesOs
<1> QED
  BY <1>1, Invariance, PTL

-----------------------------------------------------------------------------
(* The kill switch *)

\* With the kill switch on, a state that is neither up nor busy asks for the lock ...
LEMMA KillSwitchLocks ==
    ASSUME NEW p, NEW o, Good(p, o), NEW s \in SettingsType, s.kill,
           NEW state \in {"Disconnected", "Error"}
    PROVE  ApplyKillSwitch(p, s, state).wanted
<1>1. Entitled(s) /\ ~IsUp(state) /\ ~IsBusy(state)
  BY DEF Entitled, IsUp, IsBusy
<1>2. ApplyKillSwitch(p, s, state) = Apply(p, s, TRUE, TRUE)
  BY <1>1 DEF ApplyKillSwitch
<1>3. p \in ProxyType /\ Believed(p, o) /\ (~p.inFlight => p.pending = -1)
  BY DEF Good, Coherent
<1> QED
  BY <1>1, <1>2, <1>3, ApplyAccepts

\* ... and no state takes it back.
LEMMA KillSwitchHolds ==
    ASSUME NEW p, NEW o, Good(p, o), p.wanted, NEW s \in SettingsType, s.kill,
           NEW state \in ConnStates
    PROVE  ApplyKillSwitch(p, s, state).wanted
<1>1. Entitled(s)
  BY DEF Entitled
<1>2. p \in ProxyType /\ Believed(p, o) /\ (~p.inFlight => p.pending = -1)
  BY DEF Good, Coherent
<1>3. Apply(p, s, TRUE, TRUE).wanted /\ Apply(p, s, TRUE, FALSE).wanted
  BY <1>1, <1>2, ApplyAccepts
<1> QED
  BY <1>3 DEF ApplyKillSwitch

\* onProcessStopped asks for the lock before it looks at auto-disable.
LEMMA StopLocks ==
    ASSUME NEW p, NEW o, Good(p, o), NEW s \in SettingsType, s.kill
    PROVE  AfterProcessStopped(p, s).wanted
<1>1. Entitled(s)
  BY DEF Entitled
<1>2. p \in ProxyType /\ Believed(p, o) /\ (~p.inFlight => p.pending = -1)
  BY DEF Good, Coherent
<1> QED
  BY <1>1, <1>2, ApplyAccepts DEF AfterProcessStopped

\* While the kill switch stays on, finalizeResult releases no lock that is wanted.
LEMMA FinalizedHolds ==
    ASSUME NEW p, NEW o, Good(p, o), NEW s \in SettingsType, s.kill,
           p.inFlight, p.result # "none", p.wanted
    PROVE  Finalized(p, s).wanted
<1> DEFINE n == Noted(p)
<1>1. n \in ProxyType /\ n.wanted = p.wanted /\ ~n.inFlight /\ n.pending = -1
  BY DEF Noted, Good, ProxyType
<1>2. Believed(n, o)
  BY DEF Noted, Good, ProxyType, Believed
<1>3. Entitled(s) /\ (p.pending = -1 \/ p.pending = 1)
  BY DEF Entitled, Good, ProxyType, Coherent
<1>4. p.force \in BOOLEAN
  BY DEF Good, ProxyType
<1>5. CASE p.pending = -1
  BY <1>1, <1>5 DEF Finalized
<1>6. CASE p.pending = 1
  <2>1. Finalized(p, s) = Apply(n, s, p.pending = 1, p.force)
    BY <1>3, <1>6 DEF Finalized
  <2>2. (p.pending = 1) \in BOOLEAN
    OBVIOUS
  <2> HIDE DEF n
  <2>3. Finalized(p, s).wanted = (p.pending = 1)
    BY <1>1, <1>2, <1>3, <1>4, <2>1, <2>2, ApplyAccepts
  <2> QED
    BY <1>6, <2>3
<1> QED
  BY <1>3, <1>5, <1>6

LEMMA StepLocks ==
    IInv /\ [Next]_vars =>
        (settings.kill /\ connState' # connState /\ connState' \in {"Disconnected", "Error"}
            => proxy'.wanted)
<1> SUFFICES ASSUME IInv, [Next]_vars, settings.kill, connState' # connState,
                    connState' \in {"Disconnected", "Error"}
             PROVE  proxy'.wanted
  OBVIOUS
<1>1. Good(proxy, os) /\ settings \in SettingsType /\ connState \in ConnStates
  BY IInvIsGood DEF TypeOK, ConnStates
<1>2. ASSUME NEW state \in ConnStates, ConnectionMoves(state)
      PROVE  proxy'.wanted
  BY <1>1, <1>2, KillSwitchLocks DEF ConnectionMoves
<1>3. ASSUME NEW down \in {"Disconnected", "Error"}, ProcessStopped(down)
      PROVE  proxy'.wanted
  <2>1. Good(AfterProcessStopped(proxy, settings), os)
    BY <1>1, AfterStopGood
  <2>2. proxy' = ApplyKillSwitch(AfterProcessStopped(proxy, settings), settings, connState')
    BY <1>3 DEF ProcessStopped, Moved
  <2> QED
    BY <1>1, <2>1, <2>2, KillSwitchLocks
<1>4. CASE ProcessCrashed
  <2>1. Good(Moved(proxy, settings, connState, "Error"), os)
    BY <1>1, MovedGood DEF ConnStates
  <2> QED
    BY <1>1, <1>4, <2>1, StopLocks DEF ProcessCrashed
<1>5. CASE ProcessStarted
  BY <1>5 DEF ProcessStarted
<1> QED
  BY <1>2, <1>3, <1>4, <1>5
     DEF Next, ConnStates, vars, WorkerRuns, Finalize, SetUseSystemProxy, SetTunMode,
         SetKillSwitchEnabled, SetAutoDisable, CleanSystemProxy, StartupKillSwitch

\* With the kill switch on, a tunnel that goes down asks for the lock
\* (setConnectionState, onProcessStopped), whatever else is set or in flight.
THEOREM TunnelDownLocksAlways == Spec => TunnelDownLocks
<1>1. IInv /\ [Next]_vars =>
        [settings.kill /\ connState' # connState
            /\ connState' \in {"Disconnected", "Error"} => proxy'.wanted]_vars
  BY StepLocks
<1> QED
  BY <1>1, Invariance, PTL DEF Spec, TunnelDownLocks

LEMMA StepKeepsLock ==
    IInv /\ [Next]_vars =>
        (settings.kill /\ settings'.kill /\ proxy.wanted /\ ~proxy'.wanted
            => CleanSystemProxy \/ SetUseSystemProxy(FALSE))
<1> SUFFICES ASSUME IInv, [Next]_vars, settings.kill, settings'.kill, proxy.wanted,
                    ~CleanSystemProxy, ~SetUseSystemProxy(FALSE)
             PROVE  proxy'.wanted
  OBVIOUS
<1>1. Good(proxy, os) /\ settings \in SettingsType /\ connState \in ConnStates
  BY IInvIsGood DEF TypeOK, ConnStates
<1>2. settings' \in SettingsType
  BY NextIInv DEF IInv, TypeOK
<1>3. CASE WorkerRuns
  BY <1>1, <1>3 DEF WorkerRuns, Good, ProxyType
<1>4. CASE Finalize
  BY <1>1, <1>4, FinalizedHolds DEF Finalize
<1>5. CASE SetUseSystemProxy(TRUE)
  <2>1. /\ proxy \in ProxyType /\ Believed(proxy, os)
        /\ ~proxy.inFlight => proxy.pending = -1
    BY <1>1 DEF Good, Coherent
  <2>2. proxy' = IF IsUp(connState) THEN Apply(proxy, settings', TRUE, FALSE) ELSE proxy
    BY <1>5 DEF SetUseSystemProxy
  <2>3. Entitled(settings')
    BY DEF Entitled
  <2> QED
    BY <1>2, <2>1, <2>2, <2>3, ApplyAccepts
<1>6. ASSUME NEW enabled \in BOOLEAN, SetKillSwitchEnabled(enabled)
      PROVE  proxy'.wanted
  <2>1. proxy' = ApplyKillSwitch(proxy, settings', connState)
    BY <1>6 DEF SetKillSwitchEnabled
  <2> QED
    BY <1>1, <1>2, <2>1, KillSwitchHolds
<1>7. CASE StartupKillSwitch
  BY <1>1, <1>7, KillSwitchHolds DEF StartupKillSwitch
<1>8. ASSUME NEW state \in ConnStates, ConnectionMoves(state)
      PROVE  proxy'.wanted
  BY <1>1, <1>8, KillSwitchHolds DEF ConnectionMoves
<1>9. CASE ProcessStarted
  <2> DEFINE up == Moved(proxy, settings, connState, "Connected")
  <2>1. Good(up, os)
    BY <1>1, MovedGood DEF ConnStates
  <2>2. up.wanted
    BY <1>1, KillSwitchHolds DEF Moved, ConnStates
  <2>3. /\ up \in ProxyType /\ Believed(up, os)
        /\ ~up.inFlight => up.pending = -1
    BY <2>1 DEF Good, Coherent
  <2>4. proxy' = IF ~settings.tun /\ Entitled(settings)
                 THEN Apply(up, settings, TRUE, FALSE) ELSE up
    BY <1>9 DEF ProcessStarted
  <2> HIDE DEF up
  <2>5. Entitled(settings)
    BY DEF Entitled
  <2> QED
    BY <1>1, <2>2, <2>3, <2>4, <2>5, ApplyAccepts
<1>10. ASSUME NEW down \in {"Disconnected", "Error"}, ProcessStopped(down)
       PROVE  proxy'.wanted
  <2>1. Good(AfterProcessStopped(proxy, settings), os)
    BY <1>1, AfterStopGood
  <2>2. AfterProcessStopped(proxy, settings).wanted
    BY <1>1, StopLocks
  <2> QED
    BY <1>1, <1>10, <2>1, <2>2, KillSwitchHolds DEF ProcessStopped, Moved, ConnStates
<1>11. CASE ProcessCrashed
  <2>1. Good(Moved(proxy, settings, connState, "Error"), os)
    BY <1>1, MovedGood DEF ConnStates
  <2> QED
    BY <1>1, <1>11, <2>1, StopLocks DEF ProcessCrashed
<1>12. CASE \E enabled \in BOOLEAN : SetTunMode(enabled) \/ SetAutoDisable(enabled)
  BY <1>12 DEF SetTunMode, SetAutoDisable
<1> QED
  BY <1>3, <1>4, <1>5, <1>6, <1>7, <1>8, <1>9, <1>10, <1>11, <1>12
     DEF Next, ConnStates, vars

\* The lock is given up only by the user: the kill switch off, "Reset System Proxy
\* Now", or leaving Global mode while connected.
THEOREM LockReleasedByUserAlways == Spec => LockReleasedByUser
<1>1. IInv /\ [Next]_vars =>
        [settings.kill /\ settings'.kill /\ proxy.wanted /\ ~proxy'.wanted
            => CleanSystemProxy \/ SetUseSystemProxy(FALSE)]_vars
  BY StepKeepsLock
<1> QED
  BY <1>1, Invariance, PTL DEF Spec, LockReleasedByUser
=============================================================================
