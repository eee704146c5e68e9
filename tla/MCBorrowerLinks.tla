--------------------------- MODULE MCBorrowerLinks ---------------------------
EXTENDS BorrowerLinks, TLC

\* No guard or property names a particular link, issuer or visitor.
Symmetry == Permutations(Link) \cup Permutations(Issuer)
              \cup Permutations(Visitor)
=============================================================================
