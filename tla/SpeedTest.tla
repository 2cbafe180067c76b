----------------------------- MODULE SpeedTest ------------------------------
(***************************************************************************)
(* The speed test of vpncontroller.cpp: latency probes, a download and an  *)
(* upload with fallback endpoints, the download's second round past the    *)
(* tunnel, stall detection, cancelling.                                    *)
(*                                                                         *)
(* Everything runs on the GUI thread; what interleaves are single-shot     *)
(* timers, socket signals, the replies and the 100 ms tick.  A timer or a  *)
(* socket of an earlier test may still be there when the next one runs.    *)
(* Bytes are none, some or all that is expected (Full); time is counted in *)
(* units of the shorter of the two stall limits; rates are left out but    *)
(* for whether there is one.  The phases Preparing and Analyzing begin and *)
(* end within one handler.                                                 *)
(***************************************************************************)
EXTENDS Integers

CONSTANTS
    Probes,             \* kSpeedTestLatencyProbeCount
    DownloadEndpoints,  \* fallback urls of the download
    UploadEndpoints,    \* fallback urls of the upload
    UploadIdle,         \* kSpeedTestUploadResponseIdleFinalizeMs
    NoProgress,         \* kSpeedTestNoProgressTimeoutMs
    TunMode,            \* m_tunMode
    MaxTests,           \* bound: tests started
    MaxTimers           \* bound: latency timers and sockets of earlier tests

ASSUME SpeedTestAssumption ==
    /\ Probes \in Nat \ {0}
    /\ DownloadEndpoints \in Nat \ {0} /\ UploadEndpoints \in Nat \ {0}
    /\ UploadIdle \in Nat \ {0} /\ NoProgress \in Nat /\ NoProgress > UploadIdle
    /\ TunMode \in BOOLEAN
    /\ MaxTests \in Nat /\ MaxTimers \in Nat \ {0}

VARIABLES
    connected,  \* connected()
    t,          \* the test's fields, see TestType
    proxy,      \* m_speedTestNetworkManager's proxy: the tunnel's, or none
    reply,      \* m_speedTestReply, see ReplyType
    calls,      \* timers that will run runNextSpeedTestLatencyProbe
    sockets,    \* latency probes under way
    tests       \* tests started

vars == <<connected, t, proxy, reply, calls, sockets, tests>>

Full == 2
MaxEndpoints == IF UploadEndpoints > DownloadEndpoints THEN UploadEndpoints ELSE DownloadEndpoints

TestType ==
    [running : BOOLEAN,
     phase : {"Idle", "Latency", "Download", "Upload", "Completed", "Cancelled", "Failed"},
     attempt : 0..MaxEndpoints,     \* m_speedTestAttempt
     direct : BOOLEAN,              \* m_speedTestUsingDirectFallback
     received : 0..Full,            \* m_speedTestBytesReceived
     elapsed : 0..NoProgress,       \* m_speedTestPhaseTimer, up to the limit
     since : 0..NoProgress,         \* the tick's sinceProgressMs, up to the limit
     probed : 0..Probes,            \* m_speedTestLatencyAttemptCount
     answered : 0..(Probes + MaxTimers),    \* m_speedTestLatencySuccessCount
     down : BOOLEAN, up : BOOLEAN]  \* there is a download, an upload figure

ReplyType ==
    [kind : {"none", "get", "post"}, got : 0..Full,
     quiet : 0..NoProgress]         \* history: time since it began or last progressed

\* own: of the running test; old: left over from an earlier one
TimersType == [own : 0..1, old : 0..MaxTimers]

NoReply == [kind |-> "none", got |-> 0, quiet |-> 0]
NoTimers == [own |-> 0, old |-> 0]

\* resetSpeedTestState
Blank ==
    [running |-> FALSE, phase |-> "Idle", attempt |-> 0, direct |-> FALSE, received |-> 0,
     elapsed |-> 0, since |-> 0, probed |-> 0, answered |-> 0, down |-> FALSE, up |-> FALSE]

Transfer == t.phase \in {"Download", "Upload"}
Endpoints(phase) == IF phase = "Upload" THEN UploadEndpoints ELSE DownloadEndpoints

-----------------------------------------------------------------------------
(* Requests and phases: x is t as the caller leaves it *)

\* fault: the request is left to end by itself
FinishOnly(x, phase) ==
    /\ t' = [x EXCEPT !.running = FALSE, !.phase = phase]
    /\ UNCHANGED reply

\* finishSpeedTest; a test that is being cancelled passes "Cancelled".
Finish(x, phase) ==
    /\ t' = [x EXCEPT !.running = FALSE, !.phase = phase]
    /\ reply' = NoReply

\* fault: one endpoint too many
OneMoreEndpoint(x) == x.attempt <= Endpoints(x.phase)

HasEndpoint(x) == x.attempt < Endpoints(x.phase)

\* startCurrentSpeedTestRequest and startSpeedTestRequest.  The time of the last
\* progress is set to the start of the phase, not of the request.
StartRequest(x) ==
    IF ~HasEndpoint(x) THEN Finish(x, "Failed")
    ELSE /\ t' = [x EXCEPT !.attempt = @ + 1, !.since = x.elapsed]
         /\ reply' = [NoReply EXCEPT !.kind = IF x.phase = "Upload" THEN "post" ELSE "get"]

StartPhase(x, phase) ==
    StartRequest([x EXCEPT !.phase = phase, !.attempt = 0, !.received = 0, !.elapsed = 0,
                           !.since = 0])

Measured(x) ==
    IF x.phase = "Upload" THEN [x EXCEPT !.up = x.received > 0]
                          ELSE [x EXCEPT !.down = x.received > 0]

\* A transfer that counts: on to the upload, or done.
Accept(x) ==
    IF x.phase = "Upload" THEN Finish(Measured(x), "Completed")
                          ELSE StartPhase(Measured(x), "Upload")

\* fault: the second round may begin again and again
DirectAgain(x) == x.phase = "Download" /\ ~TunMode

DirectAllowed(x) == x.phase = "Download" /\ ~TunMode /\ ~x.direct

\* What a stall and a failed reply have in common: the next endpoint, or the round past
\* the tunnel.
CanRetry(x) == HasEndpoint(x) \/ DirectAllowed(x)

Retry(x) ==
    IF HasEndpoint(x) THEN StartRequest(x) /\ UNCHANGED proxy
    ELSE /\ StartRequest([x EXCEPT !.direct = TRUE, !.attempt = 0])
         /\ proxy' = "none"

-----------------------------------------------------------------------------
(* Start, cancel, and the end of the tunnel *)

\* The timers and sockets of a test that ends stay.
LeftOver(timers) == [own |-> 0, old |-> timers.old + timers.own]

\* fault: the proxy is kept from the test before
KeepProxy == UNCHANGED proxy

SetProxy == proxy' = IF TunMode THEN "none" ELSE "tunnel"

StartSpeedTest ==
    /\ connected /\ ~t.running
    /\ tests < MaxTests
    /\ calls.old + calls.own + sockets.old + sockets.own < MaxTimers
    /\ t' = [Blank EXCEPT !.running = TRUE, !.phase = "Latency"]        \* startPingPhase
    /\ SetProxy
    /\ calls' = [LeftOver(calls) EXCEPT !.own = 1]
    /\ sockets' = LeftOver(sockets)
    /\ tests' = tests + 1
    /\ UNCHANGED <<connected, reply>>

\* The window's button cancels while a test runs, connected or not.
StartRefused ==
    /\ ~connected /\ ~t.running
    /\ t' = [t EXCEPT !.phase = "Failed"]
    /\ UNCHANGED <<connected, proxy, reply, calls, sockets, tests>>

\* cancelSpeedTest
Cancelled ==
    IF t.running THEN Finish(t, "Cancelled") ELSE t' = Blank /\ reply' = NoReply

\* The window's button while a test runs.
CancelSpeedTest ==
    /\ t.running
    /\ Cancelled
    /\ UNCHANGED <<connected, proxy, calls, sockets, tests>>

\* disconnect(), onProcessStopped and onProcessError cancel.
TunnelGoes ==
    /\ connected
    /\ connected' = FALSE
    /\ Cancelled
    /\ UNCHANGED <<proxy, calls, sockets, tests>>

\* The late answer of a TUN start or of a second TUN stop changes the state and cancels
\* nothing: the test goes on.
TunnelLost ==
    /\ connected
    /\ connected' = FALSE
    /\ UNCHANGED <<t, proxy, reply, calls, sockets, tests>>

TunnelComes ==
    /\ ~connected
    /\ connected' = TRUE
    /\ UNCHANGED <<t, proxy, reply, calls, sockets, tests>>

-----------------------------------------------------------------------------
(* The latency phase *)

Without(timers, whose) == [timers EXCEPT ![whose] = @ - 1]

\* fault: only whether a test runs is looked at
ProbeWhileRunning == t.running

ProbeWanted == t.running /\ t.phase = "Latency"

\* runNextSpeedTestLatencyProbe, whichever timer calls it.
RunNextProbe ==
    /\ \E whose \in {"own", "old"} :
          /\ calls[whose] > 0
          /\ calls' = Without(calls, whose)
          /\ IF ~ProbeWanted THEN UNCHANGED <<t, reply, sockets>>
             ELSE IF t.probed >= Probes
             THEN StartPhase(t, "Download") /\ UNCHANGED sockets
             ELSE /\ sockets' = [sockets EXCEPT ![whose] = @ + 1]
                  /\ t' = [t EXCEPT !.probed = @ + 1]
                  /\ UNCHANGED reply
    /\ UNCHANGED <<connected, proxy, tests>>

\* finishProbe: the socket connects, fails or takes too long.
ProbeEnds ==
    /\ \E whose \in {"own", "old"}, success \in {0, 1} :
          /\ sockets[whose] > 0
          /\ sockets' = Without(sockets, whose)
          /\ IF t.running /\ t.phase = "Latency"
             THEN /\ t' = [t EXCEPT !.answered = @ + success]
                  /\ calls' = [calls EXCEPT ![whose] = @ + 1]
             ELSE UNCHANGED <<t, calls>>
    /\ UNCHANGED <<connected, proxy, reply, tests>>

-----------------------------------------------------------------------------
(* The transfers *)

\* onSpeedTestDownloadProgress, onSpeedTestUploadProgress: what an earlier request of
\* the phase moved counts too.
Progress ==
    /\ reply.kind # "none" /\ reply.got < Full
    /\ reply' = [reply EXCEPT !.got = @ + 1, !.quiet = 0]
    /\ t' = IF reply'.got > t.received THEN [t EXCEPT !.received = reply'.got, !.since = 0] ELSE t
    /\ UNCHANGED <<connected, proxy, calls, sockets, tests>>

Next1(n) == IF n < NoProgress THEN n + 1 ELSE n

TimePasses ==
    /\ t.running /\ Transfer
    /\ t' = [t EXCEPT !.elapsed = Next1(@), !.since = Next1(@)]
    /\ reply' = [reply EXCEPT !.quiet = Next1(@)]
    /\ t' # t \/ reply' # reply
    /\ UNCHANGED <<connected, proxy, calls, sockets, tests>>

PayloadSent(x) == x.phase = "Upload" /\ x.received = Full
Stalled(x) == x.elapsed = NoProgress /\ x.since = NoProgress

\* onSpeedTestTick, where it does something.
Tick ==
    /\ t.running /\ Transfer
    /\ IF PayloadSent(t) /\ t.since >= UploadIdle THEN Accept(t) /\ UNCHANGED proxy
       ELSE /\ Stalled(t)
            /\ IF CanRetry(t) THEN Retry(t)
               ELSE /\ IF t.received > 0 THEN Accept(t) ELSE Finish(t, "Failed")
                    /\ UNCHANGED proxy
    /\ UNCHANGED <<connected, calls, sockets, tests>>

\* fault: a reply without data counts
AcceptAny(x) == Accept(x)

AcceptData(x) == IF x.received = 0 THEN Finish(x, "Failed") ELSE Accept(x)

\* onSpeedTestFinished: the reply succeeds, ...
ReplySucceeds ==
    /\ reply.kind # "none"
    /\ AcceptData(t)
    /\ UNCHANGED <<connected, proxy, calls, sockets, tests>>

\* ... or fails; its timeout and a TLS error cancel it.
ReplyFails ==
    /\ reply.kind # "none"
    /\ \E canceled \in BOOLEAN :
          IF canceled /\ t.received = Full THEN Accept(t) /\ UNCHANGED proxy
          ELSE IF CanRetry(t) THEN Retry(t)
          ELSE /\ IF t.phase = "Upload" THEN Finish([t EXCEPT !.up = FALSE], "Completed")
                                        ELSE Finish(t, "Failed")
               /\ UNCHANGED proxy
    /\ UNCHANGED <<connected, calls, sockets, tests>>

Init ==
    /\ connected = FALSE
    /\ t = Blank
    /\ proxy = "none"
    /\ reply = NoReply
    /\ calls = NoTimers /\ sockets = NoTimers
    /\ tests = 0

Next ==
    \/ StartSpeedTest
    \/ StartRefused
    \/ CancelSpeedTest
    \/ TunnelGoes
    \/ TunnelLost
    \/ TunnelComes
    \/ RunNextProbe
    \/ ProbeEnds
    \/ Progress
    \/ TimePasses
    \/ Tick
    \/ ReplySucceeds
    \/ ReplyFails

\* Timers fire, a probe has its timeout and a request its transfer timeout.  Nothing is
\* assumed of the user, the tunnel or the progress.
Fairness ==
    /\ WF_vars(RunNextProbe)
    /\ WF_vars(ProbeEnds)
    /\ WF_vars(ReplySucceeds \/ ReplyFails)

Spec == Init /\ [][Next]_vars /\ Fairness

-----------------------------------------------------------------------------
(* Properties *)

TypeOK ==
    /\ connected \in BOOLEAN
    /\ t \in TestType
    /\ proxy \in {"tunnel", "none"}
    /\ reply \in ReplyType
    /\ calls \in TimersType /\ sockets \in TimersType
    /\ tests \in 0..MaxTests

\* A running test always has a probe, a timer or a request that takes it on, and no
\* request outlives the phase it belongs to, whichever of reply, tick, timer and button
\* came first.
TestIsBacked ==
    /\ t.running /\ t.phase = "Latency" => calls.own + sockets.own > 0
    /\ t.running /\ t.phase = "Download" <=> reply.kind = "get"
    /\ t.running /\ t.phase = "Upload" <=> reply.kind = "post"

\* A completed test has measured a download.
CompletedIsMeasured == t.phase = "Completed" => t.down

\* What is measured goes through the tunnel unless this very test has fallen back.
ProxyIsOfTest == t.running => (proxy = "none" <=> t.direct \/ TunMode)

\* What carries a test on, what it reports and the way it takes are its own.
TestIsSound == TestIsBacked /\ CompletedIsMeasured /\ ProxyIsOfTest

\* The phases of a test follow each other, and within a phase nothing that was counted is
\* lost: a timer left over from the latency phase or from an earlier test does not start the
\* download a second time, neither from another phase nor during the download itself.
PhasesInOrder ==
    [][t.running /\ t'.running =>
          \/ t.phase = t'.phase /\ t.received <= t'.received
          \/ <<t.phase, t'.phase>> \in {<<"Latency", "Download">>, <<"Download", "Upload">>}]_vars

\* A test ends, whatever its endpoints do.
TestEnds == t.running ~> ~t.running
=============================================================================
