-------------------------- MODULE MCTokenRotation --------------------------
(* TokenRotation for TLC.                                                  *)
EXTENDS TokenRotationInvariant, LedgerInvariant, TLC

CONSTANT MaxVersion   \* bound: the last resourceVersion explored

\* Tokens, and operator processes, are interchangeable.
Symmetry == Permutations(Token) \cup Permutations(Operator)

\* Two processes can fence past each other for ever, so writes are bounded.
VersionBound == secret.rv <= MaxVersion
=============================================================================
