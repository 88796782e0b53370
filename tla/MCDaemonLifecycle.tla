-------------------------- MODULE MCDaemonLifecycle --------------------------
(* Two starts, two stops and two maintenance tasks of one daemon.          *)
EXTENDS DaemonLifecycle
=============================================================================
