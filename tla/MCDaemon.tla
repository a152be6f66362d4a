------------------------------ MODULE MCDaemon ------------------------------
(* Instances of Daemon for TLC. *)
EXTENDS Daemon

CONSTANTS k1, k2, p1, p2, p3

OneTerminal == {k1}
TwoTerminals == {k1, k2}
TwoPids == {p1, p2}
ThreePids == {p1, p2, p3}
=============================================================================
