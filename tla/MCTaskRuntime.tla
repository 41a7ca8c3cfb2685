--------------------------- MODULE MCTaskRuntime ----------------------------
(* An instance of TaskRuntime: one task carries a signature, one may be    *)
(* approved and reported twice.                                            *)
EXTENDS TaskRuntime, TLC

CONSTANTS plain, twice, signed

MCAsks == (twice :> 2) @@ (signed :> 0) @@ (plain :> 0)
MCPosts == (twice :> 2) @@ (signed :> 0) @@ (plain :> 0)
RuntimeSymmetry == Permutations(Approvals) \cup Permutations(Posts)
=============================================================================
