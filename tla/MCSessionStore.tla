--------------------------- MODULE MCSessionStore ---------------------------
(* Two sessions for TLC: one lives its whole life, the other is a window    *)
(* that starts again and again next to it.                                  *)
EXTENDS SessionStore

CONSTANT Sibling

(* The sibling launches, recovers orphans and is gone: a state in which it  *)
(* has got its own daemon is not expanded.                                  *)
SiblingOnlyLaunches == daemon[Sibling] = "down"
=============================================================================
