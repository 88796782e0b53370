-------------------------------- MODULE MCBoot --------------------------------
(* Instances of Boot for TLC. *)
EXTENDS Boot, TLC

CONSTANTS start1, start2, other, daemon, daemon2, process1, process2

\* Two starts of one runtime, and one in a process of its own.
MCRuntime == start1 :> daemon @@ start2 :> daemon @@ other :> daemon2
MCProcess == start1 :> process1 @@ start2 :> process1 @@ other :> process2
=============================================================================
