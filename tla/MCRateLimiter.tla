--------------------------- MODULE MCRateLimiter ---------------------------
(* Instances of RateLimiter for TLC. *)
EXTENDS RateLimiter

CONSTANTS c1, c2, free

TwoClients == {c1, c2}

\* Two limited services and an unlimited one.
Mixed == {"tight", "loose", "open"}
MixedLimits == [s \in Mixed |-> CASE s = "tight" -> 1 [] s = "loose" -> 2 [] OTHER -> 0]
=============================================================================
