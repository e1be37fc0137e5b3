---------------------------- MODULE MCConsoleFeed ----------------------------
(* Instances of ConsoleFeed for TLC. *)
EXTENDS ConsoleFeed

\* Bound: next to a fault of the agent or the API, the page has one failure.
\* No fair action needs a failure, so nothing fair is cut off.
FewFailures == faults = 0 \/ drops <= 1
=============================================================================
