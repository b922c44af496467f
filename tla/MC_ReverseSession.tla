--------------------------- MODULE MC_ReverseSession ---------------------------
(* Reverses set on one device, say tcp:5000 and tcp:6000, and the streams  *)
(* adbd opens toward the host.                                             *)
EXTENDS ReverseSession

CONSTANTS h1, h2

\* One reverse: its relay, its main task and two app connections.
MCOneReverse == {h1}

\* Two reverses waiting for OPENs at the same time.
MCReverses == {h1, h2}
====
