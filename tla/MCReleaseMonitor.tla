-------------------------- MODULE MCReleaseMonitor --------------------------
(* Instances of ReleaseMonitor for TLC. *)
EXTENDS ReleaseMonitor

CONSTANTS c1, c2

TwoChecks == {c1, c2}

\* A monthly advisory before, between and after two quarterly ones.
MCQuarterly == {2, 4}
=============================================================================
