-------------------------- MODULE MCHostOwnership --------------------------
(* Instances of HostOwnership for TLC. *)
EXTENDS HostOwnership, TLC

CONSTANTS c1, c2, w1, w2

\* All connections of the host reach the same server process.
OneProcess == [c \in Conn |-> w1]

\* The replacement daemon connects to another process.
TwoProcesses == (c1 :> w1) @@ (c2 :> w2)

=============================================================================
