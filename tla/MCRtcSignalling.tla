-------------------------- MODULE MCRtcSignalling --------------------------
(* Signalling on small instances. *)
EXTENDS RtcSignalling

CONSTANTS s1, r1, r2

WideCaps == [host |-> 4, daemon |-> 4, browser |-> 4, user |-> 4, view |-> 4]

EitherRelay == Permutations({r1, r2})

=============================================================================
