-------------------------- MODULE MCSignalLogging --------------------------
(* SignalLogging for TLC: how often each signal is sent. SIGUSR1 is sent   *)
(* twice, so that it can meet its own handler on the same thread and on    *)
(* another; SIGTERM once, because its flag is only ever set. The handler   *)
(* of SIGHUP does what that of SIGTERM does with another flag.             *)
EXTENDS SignalLogging

TwoToggles == [SIGUSR1 |-> 2, SIGTERM |-> 1, SIGHUP |-> 0]
OneOfEach == [s \in Signals |-> 1]
=============================================================================
