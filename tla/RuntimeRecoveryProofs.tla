------------------------ MODULE RuntimeRecoveryProofs -------------------------
(***************************************************************************)
(* Proofs about module RuntimeRecovery, for any number of process ids,     *)
(* lives, helpers, runtimes and other processes.                           *)
(*                                                                         *)
(* The clean-up is sound because of what is true of an orphan that was     *)
(* named when its application crashed: until the next clean-up is through  *)
(* with it, nobody overwrites the record that names it.                    *)
(***************************************************************************)
EXTENDS RuntimeRecovery, TLAPS

NamedOK ==
    \A p \in Pids : procs[p].named => /\ procs[p].kind = "child" /\ record = p
                                      /\ app.phase \in {"off", "cleaning"}

IInv == TypeOK /\ NamedOK /\ harmed = FALSE

-----------------------------------------------------------------------------
(* Processes *)

\* The table qs names no orphan that it did not name before.
Calm(qs) ==
    qs \in [Pids -> ProcType] /\ \A q \in Pids : qs[q].named => qs[q] = procs[q]

LEMMA Constants ==
    /\ NoPid \notin Pids /\ Pids # {} /\ SeesPrivileged \in BOOLEAN
    /\ MaxLives \in Nat /\ MaxHelpers \in Nat /\ MaxRuntimes \in Nat /\ MaxStrangers \in Nat
    /\ MaxLives # 0
  BY RuntimeRecoveryAssumption

LEMMA NothingType == Nothing \in ProcType /\ Nothing.named = FALSE /\ Nothing.kind = "none"
  BY Constants DEF Nothing, ProcType, Lives

LEMMA ProcessType ==
    ASSUME NEW k \in {"app", "child", "tun", "stranger"}, NEW l \in Lives
    PROVE  Process(k, l) \in ProcType /\ Process(k, l).named = FALSE
  BY DEF Process, ProcType

LEMMA EndedCalm ==
    ASSUME NEW qs, Calm(qs), NEW p
    PROVE  /\ Calm(Ended(qs, p)) /\ (p \in Pids => Ended(qs, p)[p] = Nothing)
           /\ \A q \in Pids : Ended(qs, p)[q] \in {qs[q], Nothing}
  BY NothingType DEF Calm, Ended

LEMMA LaunchedCalm ==
    ASSUME NEW qs, Calm(qs), NEW p \in Pids, NEW k \in {"app", "child", "tun", "stranger"},
           NEW l \in Lives
    PROVE  Calm([qs EXCEPT ![p] = Process(k, l)])
  BY ProcessType DEF Calm

LEMMA ProcsCalm == TypeOK => Calm(procs)
  BY DEF TypeOK, Calm

LEMMA NamedStays ==
    ASSUME IInv, Calm(procs'), UNCHANGED record, app'.phase = app.phase PROVE NamedOK'
  BY DEF IInv, NamedOK, Calm

LEMMA NoneNamed ==
    ASSUME IInv, Calm(procs'), app.phase \notin {"off", "cleaning"} PROVE NamedOK'
  BY DEF IInv, NamedOK, Calm

-----------------------------------------------------------------------------
(* The parts of the state *)

LEMMA Parts ==
    ASSUME TypeOK
    PROVE  /\ procs \in [Pids -> ProcType] /\ app \in AppType /\ Calm(procs)
           /\ record \in Pid0 /\ pidFile \in Pid0 /\ NoPid \in Pid0
           /\ helpers \in [Helpers -> HelperType]
           /\ used \in [runtimes : 0 .. MaxRuntimes, strangers : 0 .. MaxStrangers]
           /\ app.life \in Lives /\ app.pid \in Pid0 /\ app.runtime \in Pid0
           /\ \A h \in Helpers : helpers[h].life \in Lives
  BY ProcsCalm DEF TypeOK, AppType, HelperType, Pid0

LEMMA TunnelType ==
    ASSUME TypeOK, NEW t \in {"none", "launched", "proxy", "failed", "asked", "answered",
                              "tun", "stopping", "aborting"}, Tunnel(t)
    PROVE  app' \in AppType /\ app'.phase = app.phase
  BY Parts DEF Tunnel, AppType

LEMMA AnswerType ==
    ASSUME TypeOK, NEW h \in Helpers, NEW t \in {"none", "answered"}, AnswerTo(h, t)
    PROVE  app' \in AppType /\ app'.phase = app.phase
  BY TunnelType, Parts DEF AnswerTo

LEMMA NoHelperType == NoHelper \in HelperType
  BY Constants DEF NoHelper, HelperType, Lives, Pid0

\* What the pid file names is killed, when there is something to kill.
LEMMA KilledCalm ==
    ASSUME TypeOK, NEW b \in BOOLEAN
    PROVE  Calm(IF b THEN KilledByPidFile ELSE procs)
  BY Parts, EndedCalm DEF KilledByPidFile

LEMMA Combine ==
    ASSUME Calm(procs'), app' \in AppType, record' \in Pid0, pidFile' \in Pid0,
           helpers' \in [Helpers -> HelperType],
           used' \in [runtimes : 0 .. MaxRuntimes, strangers : 0 .. MaxStrangers],
           harmed' = FALSE, NamedOK'
    PROVE  IInv'
  BY DEF IInv, TypeOK, Calm

-----------------------------------------------------------------------------
(* Steps: the start-up clean-up *)

LEMMA StartFine ==
    ASSUME IInv, NEW p \in Pids, Start(p) PROVE IInv'
<1>1. /\ app.phase = "off" /\ app.life < MaxLives /\ Free(p)
      /\ procs' = [procs EXCEPT ![p] = Process("app", app.life + 1)]
      /\ app' = Started(p, app.life + 1) /\ UNCHANGED <<files, helpers, used, harmed>>
  BY DEF Start
<1>2. TypeOK
  BY DEF IInv
<1>3. app.life + 1 \in Lives
  BY <1>1, <1>2, Parts, Constants DEF Lives
<1>4. app' \in AppType /\ app'.phase = "cleaning"
  BY <1>1, <1>2, <1>3, Parts, Constants DEF Started, AppType, Pid0
<1>5. Calm(procs')
  BY <1>1, <1>2, <1>3, Parts, LaunchedCalm
<1>6. NamedOK'
  BY <1>1, <1>4, <1>5 DEF IInv, NamedOK, Calm, files
<1> QED
  BY <1>1, <1>2, <1>4, <1>5, <1>6, Parts, Combine DEF files, IInv

LEMMA CleanupKillsFine ==
    ASSUME IInv, CleanupKills PROVE IInv'
<1>1. /\ app.phase = "cleaning" /\ Likely(Suspect) /\ procs' = Killed(Suspect)
      /\ harmed' = (harmed \/ procs[Suspect].kind = "stranger")
      /\ app' = [app EXCEPT !.phase = "clearing"] /\ UNCHANGED <<files, helpers, used>>
  BY DEF CleanupKills, KillProcessByPid
<1>2. TypeOK /\ harmed = FALSE
  BY DEF IInv, TypeOK
<1>3. app' \in AppType
  BY <1>1, <1>2, Parts DEF AppType
<1>4. Suspect \in Pids /\ procs[Suspect].kind \in {"child", "tun"}
  BY <1>1 DEF Likely
<1>5. Calm(procs')
  BY <1>1, <1>2, <1>4, Parts, EndedCalm DEF Killed
<1>6. NamedOK'
  <2> SUFFICES ASSUME NEW q \in Pids, procs'[q].named PROVE FALSE
    BY DEF NamedOK
  <2>1. procs'[q] = procs[q] /\ procs[q].named
    BY <1>5 DEF Calm
  <2>2. procs[q].kind = "child" /\ record = q
    BY <2>1 DEF IInv, NamedOK
  <2>3. Suspect = q
    BY <2>2, Constants DEF Suspect
  <2>4. procs' = Ended(procs, q)
    BY <1>1, <2>2, <2>3 DEF Killed
  <2>5. procs'[q].named = FALSE
    BY <1>2, <2>4, Parts, EndedCalm, NothingType
  <2> QED
    BY <2>5
<1> QED
  BY <1>1, <1>2, <1>3, <1>4, <1>5, <1>6, Parts, Combine DEF files

LEMMA CleanupClearsFine ==
    ASSUME IInv, CleanupClears PROVE IInv'
<1>1. /\ app.phase = "clearing" /\ record' = NoPid /\ pidFile' = NoPid
      /\ app' = [app EXCEPT !.phase = "up"] /\ UNCHANGED <<procs, helpers, used, harmed>>
  BY DEF CleanupClears
<1>2. TypeOK
  BY DEF IInv
<1>3. app' \in AppType
  BY <1>1, <1>2, Parts DEF AppType
<1>4. Calm(procs')
  BY <1>1, <1>2, Parts
<1> QED
  BY <1>1, <1>2, <1>3, <1>4, NoneNamed, Parts, Combine DEF IInv

LEMMA CleanupFindsNoneFine ==
    ASSUME IInv, CleanupFindsNone PROVE IInv'
<1>1. /\ app.phase = "cleaning" /\ ~Likely(Suspect) /\ record' = NoPid
      /\ pidFile' \in {NoPid, pidFile}
      /\ app' = [app EXCEPT !.phase = "up"] /\ UNCHANGED <<procs, helpers, used, harmed>>
  BY DEF CleanupFindsNone
<1>2. TypeOK
  BY DEF IInv
<1>3. app' \in AppType
  BY <1>1, <1>2, Parts DEF AppType
<1>4. Calm(procs')
  BY <1>1, <1>2, Parts
<1>5. NamedOK'
  <2> SUFFICES ASSUME NEW q \in Pids, procs[q].named PROVE FALSE
    BY <1>1 DEF NamedOK
  <2>1. procs[q].kind = "child" /\ record = q
    BY DEF IInv, NamedOK
  <2>2. Suspect = q
    BY <2>1, Constants DEF Suspect
  <2> QED
    BY <1>1, <2>1, <2>2 DEF Likely
<1> QED
  BY <1>1, <1>2, <1>3, <1>4, <1>5, Parts, Combine DEF IInv

-----------------------------------------------------------------------------
(* Steps: proxy mode *)

LEMMA LaunchesFine ==
    ASSUME TypeOK, NEW k \in {"child", "tun"}, NEW l \in Lives, NEW p \in Pids, NEW ps,
           Calm(ps), Launches(k, l, p, ps)
    PROVE  /\ Calm(procs')
           /\ used' \in [runtimes : 0 .. MaxRuntimes, strangers : 0 .. MaxStrangers]
<1>1. used.runtimes < MaxRuntimes /\ procs' = [ps EXCEPT ![p] = Process(k, l)]
      /\ used' = [used EXCEPT !.runtimes = @ + 1]
  BY DEF Launches, CanLaunch
<1>2. Calm(procs')
  BY <1>1, LaunchedCalm
<1>3. used \in [runtimes : 0 .. MaxRuntimes, strangers : 0 .. MaxStrangers]
  BY Parts
<1> QED
  BY <1>1, <1>2, <1>3, Constants

LEMMA ConnectProxyFine ==
    ASSUME IInv, NEW p \in Pids, ConnectProxy(p) PROVE IInv'
<1>1. /\ Up /\ Launches("child", app.life, p, procs)
      /\ app' = [app EXCEPT !.tunnel = "launched", !.runtime = p]
      /\ UNCHANGED <<files, helpers, harmed>>
  BY DEF ConnectProxy
<1>2. TypeOK
  BY DEF IInv
<1>3. app' \in AppType
  BY <1>1, <1>2, Parts DEF AppType, Pid0
<1>4. /\ Calm(procs')
      /\ used' \in [runtimes : 0 .. MaxRuntimes, strangers : 0 .. MaxStrangers]
  BY <1>1, <1>2, Parts, LaunchesFine
<1> QED
  BY <1>1, <1>2, <1>3, <1>4, NoneNamed, Parts, Combine DEF IInv, Up, files

LEMMA ProcessStartedFine ==
    ASSUME IInv, ProcessStarted PROVE IInv'
<1>1. TypeOK
  BY DEF IInv
<1>2. app' \in AppType
  BY <1>1, TunnelType DEF ProcessStarted
<1> QED
  BY <1>1, <1>2, NoneNamed, Parts, Combine DEF IInv, Up, ProcessStarted

LEMMA ProcessReadErrorFine ==
    ASSUME IInv, ProcessReadError PROVE IInv'
<1>1. TypeOK
  BY DEF IInv
<1>2. app' \in AppType
  BY <1>1, TunnelType DEF ProcessReadError
<1> QED
  BY <1>1, <1>2, NoneNamed, Parts, Combine DEF IInv, Up, ProcessReadError

LEMMA ProcessEndsFine ==
    ASSUME IInv, ProcessEnds PROVE IInv'
<1>1. /\ Up /\ procs' = Ended(procs, app.runtime) /\ record' = NoPid
      /\ app' = [app EXCEPT !.tunnel = "none", !.runtime = NoPid]
      /\ UNCHANGED <<pidFile, helpers, used, harmed>>
  BY DEF ProcessEnds
<1>2. TypeOK
  BY DEF IInv
<1>3. app' \in AppType
  BY <1>1, <1>2, Parts DEF AppType
<1>4. Calm(procs')
  BY <1>1, <1>2, Parts, EndedCalm
<1> QED
  BY <1>1, <1>2, <1>3, <1>4, NoneNamed, Parts, Combine DEF IInv, Up

-----------------------------------------------------------------------------
(* Steps: TUN mode *)

LEMMA ConnectTunFine ==
    ASSUME IInv, NEW h \in Helpers, ConnectTun(h) PROVE IInv'
<1> DEFINE new == IF helpers[h].up THEN [helpers[h] EXCEPT !.request = "start"]
                  ELSE [NoHelper EXCEPT !.up = TRUE, !.life = app.life, !.owner = app.pid,
                                        !.request = "start"]
<1>1. /\ Up /\ pidFile' = NoPid /\ helpers' = [helpers EXCEPT ![h] = new]
      /\ app' = [app EXCEPT !.tunnel = "asked", !.helper = h]
      /\ UNCHANGED <<procs, record, used, harmed>>
  BY DEF ConnectTun
<1>2. TypeOK
  BY DEF IInv
<1>3. app' \in AppType
  <2>1. h \in 0 .. MaxHelpers
    BY Constants DEF Helpers
  <2> QED
    BY <1>1, <1>2, <2>1, Parts DEF AppType
<1>4. new \in HelperType
  <2>1. helpers[h] \in HelperType
    BY <1>2, Parts
  <2>2. [helpers[h] EXCEPT !.request = "start"] \in HelperType
    BY <2>1 DEF HelperType
  <2>3. app.life \in Lives /\ app.pid \in Pid0
    BY <1>2, Parts
  <2>4. [NoHelper EXCEPT !.up = TRUE, !.life = app.life, !.owner = app.pid,
                         !.request = "start"] \in HelperType
    BY <2>3, NoHelperType DEF HelperType
  <2> QED
    BY <2>2, <2>4
<1> HIDE DEF new
<1>5. helpers' \in [Helpers -> HelperType]
  BY <1>1, <1>2, <1>4, Parts
<1> QED
  BY <1>1, <1>2, <1>3, <1>5, NoneNamed, Parts, Combine DEF IInv, Up

LEMMA HelperLaunchesFine ==
    ASSUME IInv, NEW h \in Helpers, NEW p \in Pids, HelperLaunches(h, p) PROVE IInv'
<1> DEFINE ps == IF helpers[h].tracks THEN KilledByPidFile ELSE procs
<1>1. /\ Launches("tun", helpers[h].life, p, ps) /\ pidFile' = p
      /\ helpers' = [helpers EXCEPT ![h].starting = TRUE, ![h].tracks = FALSE]
      /\ UNCHANGED <<app, record, harmed>>
  BY DEF HelperLaunches
<1>2. TypeOK /\ helpers[h] \in HelperType
  BY Parts DEF IInv
<1>3. Calm(ps)
  BY <1>2, KilledCalm DEF HelperType
<1> HIDE DEF ps
<1>4. /\ Calm(procs')
      /\ used' \in [runtimes : 0 .. MaxRuntimes, strangers : 0 .. MaxStrangers]
  BY <1>1, <1>2, <1>3, Parts, LaunchesFine
<1>5. helpers' \in [Helpers -> HelperType]
  BY <1>1, <1>2, Parts DEF HelperType
<1>6. pidFile' \in Pid0
  BY <1>1 DEF Pid0
<1> QED
  BY <1>1, <1>2, <1>4, <1>5, <1>6, NamedStays, Parts, Combine DEF IInv

\* A helper's step that launches nothing.
LEMMA HelperFine ==
    ASSUME IInv, NEW h \in Helpers, Calm(procs'), pidFile' \in {pidFile, NoPid},
           helpers' \in [Helpers -> HelperType], AnswerTo(h, "none") \/ AnswerTo(h, "answered"),
           record' = record \/ (Waits(h) /\ record' = NoPid), UNCHANGED <<used, harmed>>
    PROVE  IInv'
<1>1. TypeOK
  BY DEF IInv
<1>2. app' \in AppType /\ app'.phase = app.phase
  BY <1>1, AnswerType
<1>3. NamedOK'
  BY <1>2, NamedStays, NoneNamed DEF Waits, Up
<1> QED
  BY <1>1, <1>2, <1>3, Parts, Combine DEF IInv

LEMMA HelperRefusesFine ==
    ASSUME IInv, NEW h \in Helpers, HelperRefuses(h) PROVE IInv'
<1>1. /\ procs' = IF helpers[h].tracks THEN KilledByPidFile ELSE procs
      /\ pidFile' \in {pidFile, NoPid}
      /\ helpers' = [helpers EXCEPT ![h].request = "none", ![h].tracks = FALSE]
      /\ AnswerTo(h, "none") /\ UNCHANGED <<record, used, harmed>>
  BY DEF HelperRefuses
<1>2. TypeOK /\ helpers[h] \in HelperType /\ helpers \in [Helpers -> HelperType]
  BY Parts DEF IInv
<1>3. Calm(procs')
  BY <1>1, <1>2, KilledCalm DEF HelperType
<1>4. helpers' \in [Helpers -> HelperType]
  BY <1>1, <1>2 DEF HelperType
<1> QED
  BY <1>1, <1>3, <1>4, HelperFine

LEMMA StartedType ==
    ASSUME NEW r \in HelperType, NEW t \in BOOLEAN
    PROVE  [r EXCEPT !.starting = FALSE, !.request = "none", !.tracks = t, !.misses = 0]
              \in HelperType
<1>1. 0 \in 0 .. 2
  OBVIOUS
<1> QED
  BY <1>1 DEF HelperType

LEMMA HelperStartedFine ==
    ASSUME IInv, NEW h \in Helpers, HelperStarted(h) PROVE IInv'
<1>1. /\ helpers' = [helpers EXCEPT ![h].starting = FALSE, ![h].request = "none",
                                    ![h].tracks = (pidFile # NoPid), ![h].misses = 0]
      /\ AnswerTo(h, IF pidFile = NoPid THEN "none" ELSE "answered")
      /\ UNCHANGED <<procs, files, used, harmed>>
  BY DEF HelperStarted
<1>2. TypeOK /\ helpers[h] \in HelperType /\ helpers \in [Helpers -> HelperType]
      /\ Calm(procs)
  BY Parts DEF IInv
<1>4. helpers' \in [Helpers -> HelperType]
  <2> DEFINE t == pidFile # NoPid
             e == [helpers[h] EXCEPT !.starting = FALSE, !.request = "none", !.tracks = t,
                                     !.misses = 0]
  <2>1. helpers' = [helpers EXCEPT ![h] = e]
    BY <1>1, <1>2
  <2>2. e \in HelperType
    <3>1. t \in BOOLEAN
      OBVIOUS
    <3> HIDE DEF t
    <3> QED
      BY <1>2, <3>1, StartedType
  <2> HIDE DEF e
  <2> QED
    BY <1>2, <2>1, <2>2
<1>5. AnswerTo(h, "none") \/ AnswerTo(h, "answered")
  BY <1>1
<1> QED
  BY <1>1, <1>2, <1>4, <1>5, HelperFine DEF files, Calm

LEMMA HelperRoutesFailFine ==
    ASSUME IInv, NEW h \in Helpers, HelperRoutesFail(h) PROVE IInv'
<1>1. /\ procs' \in {procs, KilledByPidFile} /\ pidFile' = NoPid
      /\ helpers' = [helpers EXCEPT ![h].starting = FALSE, ![h].request = "none"]
      /\ AnswerTo(h, "none") /\ UNCHANGED <<record, used, harmed>>
  BY DEF HelperRoutesFail
<1>2. TypeOK /\ helpers[h] \in HelperType /\ helpers \in [Helpers -> HelperType]
  BY Parts DEF IInv
<1>3. Calm(procs')
  BY <1>1, <1>2, Parts, EndedCalm DEF KilledByPidFile
<1>4. helpers' \in [Helpers -> HelperType]
  BY <1>1, <1>2 DEF HelperType
<1> QED
  BY <1>1, <1>3, <1>4, HelperFine

LEMMA HelperStopsFine ==
    ASSUME IInv, NEW h \in Helpers, HelperStops(h) PROVE IInv'
<1>1. /\ procs' = KilledByPidFile /\ pidFile' = NoPid
      /\ helpers' = [helpers EXCEPT ![h].request = "none", ![h].tracks = FALSE]
      /\ AnswerTo(h, "none") /\ UNCHANGED <<used, harmed>>
      /\ record' = IF Waits(h) THEN NoPid ELSE record
  BY DEF HelperStops
<1>2. TypeOK /\ helpers[h] \in HelperType /\ helpers \in [Helpers -> HelperType]
  BY Parts DEF IInv
<1>3. Calm(procs')
  BY <1>1, <1>2, Parts, EndedCalm DEF KilledByPidFile
<1>4. helpers' \in [Helpers -> HelperType]
  BY <1>1, <1>2 DEF HelperType
<1> QED
  BY <1>1, <1>3, <1>4, HelperFine

LEMMA QuitsFine ==
    ASSUME IInv, NEW h \in Helpers, Quits(h) PROVE IInv'
<1>1. /\ procs' = IF helpers[h].tracks THEN KilledByPidFile ELSE procs
      /\ pidFile' \in {pidFile, NoPid} /\ helpers' = [helpers EXCEPT ![h] = NoHelper]
      /\ UNCHANGED <<app, record, used, harmed>>
  BY DEF Quits
<1>2. TypeOK /\ helpers[h] \in HelperType /\ helpers \in [Helpers -> HelperType]
  BY Parts DEF IInv
<1>3. Calm(procs')
  BY <1>1, <1>2, KilledCalm DEF HelperType
<1>4. helpers' \in [Helpers -> HelperType]
  BY <1>1, <1>2, NoHelperType
<1> QED
  BY <1>1, <1>2, <1>3, <1>4, NamedStays, Parts, Combine DEF IInv

LEMMA WatchdogTickFine ==
    ASSUME IInv, NEW h \in Helpers, WatchdogTick(h) PROVE IInv'
<1>1. CASE Quits(h)
  BY <1>1, QuitsFine
<1>2. CASE /\ UNCHANGED <<procs, app, files, used, harmed>>
           /\ \/ helpers' = [helpers EXCEPT ![h].misses = 0]
              \/ helpers[h].misses < 2 /\ helpers' = [helpers EXCEPT ![h].misses = @ + 1]
  <2>1. TypeOK /\ helpers[h] \in HelperType /\ helpers \in [Helpers -> HelperType]
        /\ Calm(procs)
    BY Parts DEF IInv
  <2>2. helpers' \in [Helpers -> HelperType]
    BY <1>2, <2>1 DEF HelperType
  <2> QED
    BY <1>2, <2>1, <2>2, NamedStays, Parts, Combine DEF IInv, files, Calm
<1> QED
  BY <1>1, <1>2 DEF WatchdogTick, Watches

LEMMA HelperStepFine ==
    ASSUME IInv, NEW h \in Helpers,
           ConnectTun(h) \/ HelperStep(h) \/ WatchdogTick(h) \/ HelperIdles(h)
    PROVE  IInv'
  BY ConnectTunFine, HelperLaunchesFine, HelperRefusesFine, HelperStartedFine,
     HelperRoutesFailFine, HelperStopsFine, WatchdogTickFine, QuitsFine
     DEF HelperStep, HelperIdles, HelperShutsDown

LEMMA TunnelUpFine ==
    ASSUME IInv, TunnelUp PROVE IInv'
<1>1. TypeOK
  BY DEF IInv
<1>2. app' \in AppType
  BY <1>1, TunnelType DEF TunnelUp
<1>3. record' \in {record, pidFile} /\ app.phase = "up"
      /\ UNCHANGED <<procs, pidFile, helpers, used, harmed>>
  BY DEF TunnelUp, Up
<1> QED
  BY <1>1, <1>2, <1>3, NoneNamed, Parts, Combine DEF IInv

LEMMA AskStopFine ==
    ASSUME IInv, AskStop PROVE IInv'
<1>1. TypeOK
  BY DEF IInv
<1>2. app' \in AppType
  BY <1>1, TunnelType DEF AskStop
<1>3. /\ helpers' = [helpers EXCEPT ![app.helper].request = "stop"] /\ app.phase = "up"
      /\ UNCHANGED <<procs, files, used, harmed>>
  BY DEF AskStop, Up
<1>4. helpers' \in [Helpers -> HelperType]
  <2>1. helpers \in [Helpers -> HelperType]
    BY <1>1, Parts
  <2>2. CASE app.helper \in Helpers
    BY <1>3, <2>1, <2>2 DEF HelperType
  <2>3. CASE app.helper \notin Helpers
    BY <1>3, <2>1, <2>3
  <2> QED
    BY <2>2, <2>3
<1> QED
  BY <1>1, <1>2, <1>3, <1>4, NoneNamed, Parts, Combine DEF IInv, files

-----------------------------------------------------------------------------
(* Steps: the end of the application, and processes outside *)

LEMMA OffType ==
    ASSUME TypeOK, Off PROVE app' \in AppType /\ app'.phase = "off"
<1>1. app \in AppType /\ NoPid \in Pid0 /\ 0 \in 0 .. MaxHelpers
  BY Parts, Constants
<1> QED
  BY <1>1 DEF Off, AppType

\* A crash names the child that the record names then.
LEMMA CrashFine ==
    ASSUME IInv, Crash PROVE IInv'
<1>1. /\ procs' = Ended(Orphaned(procs), app.pid) /\ Off
      /\ UNCHANGED <<files, helpers, used, harmed>>
  BY DEF Crash
<1>2. TypeOK
  BY DEF IInv
<1> DEFINE qs == Orphaned(procs)
<1>3. \A p \in Pids : qs[p] = IF procs[p].kind = "child" /\ procs[p].life = app.life
                              THEN [procs[p] EXCEPT !.named = (record = p)] ELSE procs[p]
  BY DEF Orphaned
<1>4. ASSUME NEW p \in Pids
      PROVE  /\ qs[p] \in ProcType /\ qs[p].kind = procs[p].kind
             /\ qs[p].named => record = p /\ procs[p].kind = "child"
  <2> DEFINE n == record = p
  <2>1. procs[p] \in ProcType /\ n \in BOOLEAN
    BY <1>2, Parts
  <2>2. CASE procs[p].kind = "child" /\ procs[p].life = app.life
    <3>1. qs[p] = [procs[p] EXCEPT !.named = n]
      BY <1>3, <2>2
    <3> HIDE DEF n
    <3>2. qs[p] \in ProcType /\ qs[p].kind = procs[p].kind /\ qs[p].named = n
      BY <2>1, <3>1 DEF ProcType
    <3> QED
      BY <2>2, <3>2 DEF n
  <2>3. CASE ~(procs[p].kind = "child" /\ procs[p].life = app.life)
    BY <1>3, <2>1, <2>3 DEF IInv, NamedOK
  <2> QED
    BY <2>2, <2>3
<1>5. qs \in [Pids -> ProcType]
  BY <1>4 DEF Orphaned
<1> HIDE DEF qs
<1>6. /\ procs' \in [Pids -> ProcType]
      /\ \A p \in Pids : procs'[p].named => record = p /\ procs'[p].kind = "child"
  BY <1>1, <1>4, <1>5, NothingType DEF qs, Ended
<1>7. app' \in AppType /\ app'.phase = "off"
  BY <1>1, <1>2, OffType
<1>8. NamedOK'
  BY <1>1, <1>6, <1>7 DEF NamedOK, files
<1> QED
  BY <1>1, <1>2, <1>6, <1>7, <1>8, Parts DEF IInv, TypeOK, files

LEMMA LeavingType ==
    ASSUME NEW r \in HelperType, NEW l \in BOOLEAN, NEW t \in BOOLEAN,
           NEW q \in {"none", "start", "stop"}
    PROVE  [r EXCEPT !.leaving = l, !.tracks = t, !.request = q] \in HelperType
  BY DEF HelperType

LEMMA QuitFine ==
    ASSUME IInv, Quit PROVE IInv'
<1> DEFINE i == app.helper
           managed == app.tunnel \in {"tun", "stopping"} /\ helpers[i].up
           stopped == IF managed THEN KilledByPidFile
                      ELSE IF Likely(pidFile) THEN Killed(pidFile) ELSE procs
<1>1. /\ Up /\ procs' = Ended(Ended(stopped, app.runtime), app.pid)
      /\ record' = NoPid /\ pidFile' = NoPid /\ Off /\ UNCHANGED <<used, harmed>>
      /\ helpers' = IF i = 0 THEN helpers
                    ELSE [helpers EXCEPT ![i].leaving = helpers[i].up,
                                         ![i].tracks = @ /\ ~managed,
                                         ![i].request = IF managed THEN "none" ELSE @]
  BY DEF Quit
<1>2. TypeOK /\ helpers \in [Helpers -> HelperType]
  BY Parts DEF IInv
<1>3. Calm(stopped)
  BY <1>2, Parts, EndedCalm DEF KilledByPidFile, Killed
<1>4. Calm(procs')
  <2> HIDE DEF stopped
  <2>1. Calm(Ended(stopped, app.runtime))
    BY <1>3, EndedCalm
  <2> QED
    BY <1>1, <2>1, EndedCalm
<1>5. helpers' \in [Helpers -> HelperType]
  <2>1. i \in Helpers \/ i = 0
    BY <1>2, Parts, Constants DEF AppType, Helpers
  <2>2. CASE i = 0
    BY <1>1, <1>2, <2>2
  <2>3. CASE i \in Helpers /\ i # 0
    <3> DEFINE r == helpers[i]
               t == r.tracks /\ ~managed
               q == IF managed THEN "none" ELSE r.request
               e == [r EXCEPT !.leaving = r.up, !.tracks = t, !.request = q]
    <3>1. r \in HelperType
      BY <1>2, <2>3
    <3>2. r.up \in BOOLEAN /\ t \in BOOLEAN /\ q \in {"none", "start", "stop"}
      BY <3>1 DEF HelperType
    <3>3. helpers' = [helpers EXCEPT ![i] = e]
      <4> HIDE DEF managed
      <4> QED
        BY <1>1, <1>2, <2>3
    <3>4. e \in HelperType
      <4> HIDE DEF r, t, q
      <4> QED
        BY <3>1, <3>2, LeavingType
    <3> HIDE DEF e
    <3> QED
      BY <1>2, <3>3, <3>4
  <2> QED
    BY <2>1, <2>2, <2>3
<1>6. app' \in AppType
  BY <1>1, <1>2, OffType
<1>7. NamedOK'
  BY <1>1, <1>4, NoneNamed DEF Up
<1> QED
  BY <1>1, <1>2, <1>4, <1>5, <1>6, <1>7, Parts, Combine DEF IInv

LEMMA OutsideFine ==
    ASSUME IInv, NEW p \in Pids, RuntimeExits(p) \/ StrangerStarts(p) \/ StrangerEnds(p)
    PROVE  IInv'
<1>1. TypeOK
  BY DEF IInv
<1>2. CASE procs' = Ended(procs, p) /\ UNCHANGED <<app, files, helpers, used, harmed>>
  <2>1. Calm(procs')
    BY <1>1, <1>2, Parts, EndedCalm
  <2> QED
    BY <1>1, <1>2, <2>1, NamedStays, Parts, Combine DEF IInv, files
<1>3. CASE StrangerStarts(p)
  <2>1. /\ used.strangers < MaxStrangers /\ procs' = [procs EXCEPT ![p] = Process("stranger", 0)]
        /\ used' = [used EXCEPT !.strangers = @ + 1]
        /\ UNCHANGED <<app, files, helpers, harmed>>
    BY <1>3 DEF StrangerStarts
  <2>2. 0 \in Lives
    BY Constants DEF Lives
  <2>3. Calm(procs')
    BY <1>1, <2>1, <2>2, Parts, LaunchedCalm
  <2>4. used \in [runtimes : 0 .. MaxRuntimes, strangers : 0 .. MaxStrangers]
    BY <1>1, Parts
  <2>5. used' \in [runtimes : 0 .. MaxRuntimes, strangers : 0 .. MaxStrangers]
    BY <2>1, <2>4, Constants
  <2> QED
    BY <1>1, <2>1, <2>3, <2>5, NamedStays, Parts, Combine DEF IInv, files
<1> QED
  BY <1>2, <1>3 DEF RuntimeExits, StrangerEnds

-----------------------------------------------------------------------------
(* Theorems *)

LEMMA InitIInv == Init => IInv
<1> SUFFICES ASSUME Init PROVE IInv
  OBVIOUS
<1> USE DEF Init
<1>1. FirstPid \in Pids
  BY Constants DEF FirstPid
<1>2. 0 \in Lives /\ 1 \in Lives
  BY Constants DEF Lives
<1>3. procs \in [Pids -> ProcType]
  BY <1>2, NothingType, ProcessType
<1>4. app \in AppType
  BY <1>1, <1>2, Constants DEF Started, AppType, Pid0
<1>5. TypeOK
  <2>1. helpers \in [Helpers -> HelperType]
    BY NoHelperType
  <2>2. used \in [runtimes : 0 .. MaxRuntimes, strangers : 0 .. MaxStrangers]
    BY Constants
  <2>3. {record, pidFile} \subseteq Pid0 /\ harmed \in BOOLEAN
    BY DEF Pid0
  <2> HIDE DEF Init
  <2> QED
    BY <1>3, <1>4, <2>1, <2>2, <2>3 DEF TypeOK
<1>6. NamedOK
  BY <1>2, NothingType, ProcessType DEF NamedOK
<1> QED
  BY <1>5, <1>6 DEF IInv

LEMMA NextFine == IInv /\ [Next]_vars => IInv'
<1> SUFFICES ASSUME IInv, [Next]_vars PROVE IInv'
  OBVIOUS
<1>1. CASE UNCHANGED vars
  BY <1>1 DEF vars, files, IInv, TypeOK, NamedOK
<1>2. CASE \E p \in Pids : Start(p) \/ ConnectProxy(p)
  BY <1>2, StartFine, ConnectProxyFine
<1>3. CASE \E p \in Pids : RuntimeExits(p) \/ StrangerStarts(p) \/ StrangerEnds(p)
  BY <1>3, OutsideFine
<1>4. CASE \E h \in Helpers : ConnectTun(h) \/ HelperStep(h) \/ WatchdogTick(h)
                                \/ HelperIdles(h)
  BY <1>4, HelperStepFine
<1>5. CASE CleanupKills \/ CleanupClears \/ CleanupFindsNone
  BY <1>5, CleanupKillsFine, CleanupClearsFine, CleanupFindsNoneFine
<1>6. CASE ProcessStarted \/ ProcessReadError \/ ProcessEnds
  BY <1>6, ProcessStartedFine, ProcessReadErrorFine, ProcessEndsFine
<1>7. CASE TunnelUp \/ AskStop \/ Crash \/ Quit
  BY <1>7, TunnelUpFine, AskStopFine, CrashFine, QuitFine
<1> QED
  BY <1>1, <1>2, <1>3, <1>4, <1>5, <1>6, <1>7 DEF Next

LEMMA IInvAlways == Spec => []IInv
  BY InitIInv, NextFine, PTL DEF Spec

\* Every variable of the start-up recovery keeps its type.
THEOREM TypeCorrect == Spec => []TypeOK
<1>1. IInv => TypeOK
  BY DEF IInv
<1> QED
  BY IInvAlways, <1>1, PTL

\* When the clean-up of a start is through, no child runs that the record named when an
\* earlier life crashed, and the controller has killed no process that is not a runtime,
\* whoever has got the pids since (cleanupManagedRuntimeOnStartup).
THEOREM CleanUpIsSoundAlways == Spec => []CleanUpIsSound
<1>1. IInv => CleanUpIsSound
  BY DEF IInv, NamedOK, CleanUpIsSound, NoRecordedOrphan, StrangersSurvive, Up
<1> QED
  BY IInvAlways, <1>1, PTL
=============================================================================
