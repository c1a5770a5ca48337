---- MODULE MCRwzCache ----
EXTENDS RwzCache, TLC
CONSTANTS r1, r2, r3
MCSymmetry == Permutations({r1, r2, r3})
====
