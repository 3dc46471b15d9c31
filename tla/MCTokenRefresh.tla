--------------------------- MODULE MCTokenRefresh ---------------------------
(* Small instances of TokenRefresh for TLC. *)
EXTENDS TokenRefresh, TLC

\* A request that may use the cache, a forced one for a channel, and the one that yields
\* to a lease: between them they take every branch.
MixedRequests == {ClientRequest, PollRequest("graph", TRUE), KeepaliveRequest}

WorkerSymmetry == Permutations(Workers)
=============================================================================
