--------------------------- MODULE MCPeerLifecycle --------------------------
(* Small instances of PeerLifecycle for TLC. *)
EXTENDS PeerLifecycle, TLC

CONSTANTS a, b, c1, c2, l1, l2

MCNodeIDs == {a, b}
MCConns == {c1, c2}
MCLoops == {l1, l2}
MCTargets == {a}
MCReachable == {a}

Symmetry == Permutations(MCConns) \cup Permutations(MCLoops)
=============================================================================
