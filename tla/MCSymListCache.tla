---- MODULE MCSymListCache ----
EXTENDS SymListCache, TLC
CONSTANTS g1, g2, f1, f2, f3, f4, f5, a1, a2, a3, a4, a5
MCSymmetry == Permutations({g1, g2}) \cup Permutations({f1, f2, f3, f4, f5})
====
