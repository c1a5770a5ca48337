---- MODULE MCElevationSources ----
EXTENDS ElevationSources
CONSTANTS t1, t2, a, b, bad, main, off

\* neighbouring cells share a raster, and one cell has an irregular one first
MCCover == [p \in Points |-> CASE p = 1 -> <<a, b>> [] p = 2 -> <<bad, b>> [] OTHER -> <<>>]
MCKeys == [g \in Rings |-> IF g = main THEN 2 ELSE 0]
====
