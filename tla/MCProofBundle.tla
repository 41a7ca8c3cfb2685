--------------------------- MODULE MCProofBundle ---------------------------
(* A small instance of ProofBundle: one bundle of a trace of up to four    *)
(* events, three calls of which two overlap, a chain whose anchors can be  *)
(* read back and one whose anchors cannot, two transactions.               *)
EXTENDS ProofBundle, TLC

CONSTANTS plain, summary, c1, c2, k1, k2

TwoChains == <<c1, c2>>

MCMode == [c \in {c1, c2} |-> IF c = c1 THEN "memo" ELSE "contract"]

Same == Permutations({k1, k2})

MCData == {plain, summary}
=============================================================================
