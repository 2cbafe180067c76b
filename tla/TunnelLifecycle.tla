--------------------------- MODULE TunnelLifecycle ---------------------------
(***************************************************************************)
(* What VpnController (src/src/vpncontroller.cpp) promises about a tunnel, *)
(* whichever process carries it: the four states of                        *)
(* src/src/connectionstate.cppm, the runtime behind them, the stop that is *)
(* under way and the reconnect that follows it.  Module Connection refines *)
(* it with a child process, TunConnection with a privileged helper.        *)
(*                                                                         *)
(* Nothing goes up again before it has come down; a tunnel under way       *)
(* ignores every command but a disconnect; and one stop brings one         *)
(* reconnect at most.                                                      *)
(***************************************************************************)
EXTENDS Naturals

VARIABLES
    state,      \* the connection state
    runtime,    \* whether the controller holds a runtime
    leaving,    \* whether a stop is under way
    again,      \* whether a reconnect follows it
    owed        \* how many reconnects are posted

vars == <<state, runtime, leaving, again, owed>>

Busy == state = "Connecting"

\* A command comes from the user or from a reconnect that is owed.
Served == owed' = owed \/ (owed > 0 /\ owed' = owed - 1)

-----------------------------------------------------------------------------
Start ==
    /\ ~Busy /\ ~runtime
    /\ state' = "Connecting"
    /\ runtime' \in BOOLEAN
    /\ Served
    /\ UNCHANGED <<leaving, again>>

Refuse ==
    /\ ~Busy
    /\ state' = "Error"
    /\ Served
    /\ UNCHANGED <<runtime, leaving, again>>

\* A runtime that is still held is called connected again.
Resume ==
    /\ ~Busy /\ runtime
    /\ state' = "Connected"
    /\ Served
    /\ UNCHANGED <<runtime, leaving, again>>

\* A reconnect that finds the tunnel under way is dropped.
Ignore ==
    /\ Busy
    /\ Served
    /\ UNCHANGED <<state, runtime, leaving, again>>

Stop ==
    /\ runtime
    /\ state' = "Connecting"
    /\ leaving'
    /\ again' \in {again, TRUE}
    /\ Served
    /\ UNCHANGED runtime

\* The selection is removed while the tunnel goes down.
Forget ==
    /\ ~again'
    /\ UNCHANGED <<state, runtime, leaving, owed>>

Acknowledge ==
    /\ state = "Error"
    /\ state' = "Disconnected"
    /\ UNCHANGED <<runtime, leaving, again, owed>>

-----------------------------------------------------------------------------
ComesUp ==
    /\ Busy /\ ~leaving
    /\ state' = "Connected"
    /\ runtime'
    /\ UNCHANGED <<leaving, again, owed>>

\* A disconnect that has nothing to stop, or the end of a stop.
Down ==
    /\ ~runtime \/ leaving
    /\ state' = "Disconnected"
    /\ ~runtime' /\ ~leaving' /\ ~again'
    /\ owed' \in {owed, IF again THEN owed + 1 ELSE owed}

\* A start fails, or the runtime ends although nobody stopped it.
Lost ==
    /\ ~leaving
    /\ state' \in {"Error", "Disconnected"}
    /\ ~runtime' /\ ~again'
    /\ UNCHANGED <<leaving, owed>>

\* An error that leaves the runtime running.
Fault ==
    /\ ~leaving
    /\ state' = "Error"
    /\ UNCHANGED <<runtime, leaving, again, owed>>

\* The runtime of a stop that is under way never ran.
Vanishes ==
    /\ leaving
    /\ ~runtime'
    /\ UNCHANGED <<state, leaving, again, owed>>

-----------------------------------------------------------------------------
Init ==
    /\ state = "Disconnected"
    /\ ~runtime /\ ~leaving /\ ~again
    /\ owed = 0

Next ==
    \/ Start \/ Refuse \/ Resume \/ Ignore
    \/ Stop \/ Forget \/ Acknowledge
    \/ ComesUp \/ Down \/ Lost \/ Fault \/ Vanishes

Spec == Init /\ [][Next]_vars
=============================================================================
