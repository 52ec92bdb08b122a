------------------------- MODULE MCSessionLifecycle -------------------------
(* A window's life on small instances: h1 and h2 are hosts. *)
EXTENDS SessionLifecycle

CONSTANTS h1, h2

=============================================================================
