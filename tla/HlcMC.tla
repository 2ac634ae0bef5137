------------------------------- MODULE HlcMC -------------------------------
(* Model-checking instances of HlcHosts. *)
EXTENDS HlcHosts

CONSTANTS h1, h2

\* One host's clock may be stepped back and forth by more than the drift.
SteppedSkew == {0, -1}
=============================================================================
