---- MODULE DemPool ----
(***************************************************************************)
(* The rasters behind DEMARRAY.height.  A raster is opened when a point    *)
(* first needs it and stays open; when more than MAXOPENDEM are in the open*)
(* list, opening one more first closes those not used for longest.  A call *)
(* goes through the rasters of the point's cell under the critical section *)
(* of DEMARRAY.  A raster that GDAL opens but that turns out irregular (no *)
(* transform, no band, no sane box) keeps its data set and stays out of    *)
(* the list.                                                               *)
(***************************************************************************)
EXTENDS TickCount, Sequences, FiniteSets

CONSTANTS Rasters,   \* the DEM files
          Bad,       \* those whose data set opens but is irregular
          Points,
          Cover,     \* for each point, the rasters of its cell, in order
          MaxOpen    \* MAXOPENDEM

ASSUME RastersAssumption == IsFiniteSet(Rasters) /\ Bad \subseteq Rasters
ASSUME CoverAssumption == Cover \in [Points -> Seq(Rasters)]
ASSUME MaxOpenAssumption == MaxOpen \in Nat

VARIABLES openlist,  \* how often each raster is in the list
          valid,     \* rasters whose handle is not Invalid()
          datasets,  \* GDAL data sets each raster holds
          cc,        \* the caller inside DEMArray::height
          rest,      \* rasters of the cell it has yet to try
          hit        \* it has an elevation

pool == <<openlist, valid, datasets, cc, rest, hit>>

DemInit ==
    /\ openlist = [f \in Rasters |-> 0]
    /\ valid = {}
    /\ datasets = [f \in Rasters |-> 0]
    /\ cc = None /\ rest = <<>> /\ hit = FALSE

Listed == {f \in Rasters : openlist[f] > 0}

\* as many elements as the counts n add up to
Entries(n) == UNION {{f} \X (1..n[f]) : f \in Rasters}
ListSize == Cardinality(Entries(openlist))

Enter(t, p) ==
    /\ cc = None
    /\ cc' = t
    /\ rest' = Cover[p]
    /\ UNCHANGED <<openlist, valid, datasets, hit>>

\* Purge sorts by lasttime, newest first, and closes from index MAXOPENDEM on.
\* Tick counts wrap, and rasters used in the same tick come in any order: any
\* raster may be the oldest.
Purged ==
    IF ListSize <= MaxOpen THEN {{}}
    ELSE {C \in SUBSET Listed : Cardinality(C) = ListSize - MaxOpen}

\* mutant: a raster is closed and stays in the list
CloseKept(C) ==
    [valid |-> valid \ C,
     openlist |-> openlist,
     datasets |-> [f \in Rasters |-> IF f \in C THEN 0 ELSE datasets[f]]]

Close(C) ==
    [valid |-> valid \ C,
     openlist |-> [f \in Rasters |-> IF f \in C THEN 0 ELSE openlist[f]],
     datasets |-> [f \in Rasters |-> IF f \in C THEN 0 ELSE datasets[f]]]

\* mutant: GDALFILE::Open forgets the data set of an earlier attempt
OpenAgain(f, after) ==
    IF f \in Bad
    THEN /\ datasets' = [after.datasets EXCEPT ![f] = @ + 1]
         /\ valid' = after.valid /\ openlist' = after.openlist
    ELSE /\ datasets' = [after.datasets EXCEPT ![f] = 1]
         /\ valid' = after.valid \cup {f}
         /\ openlist' = [after.openlist EXCEPT ![f] = @ + 1]

\* GDALFILE::Open destroys what an earlier attempt left, and may not get a data
\* set at all
Open(f, after) ==
    \/ /\ datasets' = [after.datasets EXCEPT ![f] = 0]
       /\ valid' = after.valid /\ openlist' = after.openlist
    \/ /\ f \in Bad
       /\ datasets' = [after.datasets EXCEPT ![f] = 1]
       /\ valid' = after.valid /\ openlist' = after.openlist
    \/ /\ f \notin Bad
       /\ datasets' = [after.datasets EXCEPT ![f] = 1]
       /\ valid' = after.valid \cup {f}
       /\ openlist' = [after.openlist EXCEPT ![f] = @ + 1]

\* the point is outside this raster of its cell
Outside(t) ==
    /\ cc = t /\ rest # <<>>
    /\ rest' = Tail(rest)
    /\ UNCHANGED <<openlist, valid, datasets, cc, hit>>

OpenStep(t) ==
    /\ cc = t /\ rest # <<>> /\ Head(rest) \notin valid
    /\ \E C \in Purged : Open(Head(rest), Close(C))
    /\ rest' = IF Head(rest) \in valid' THEN rest ELSE Tail(rest)
    /\ UNCHANGED <<cc, hit>>

\* with highres the first raster that has an elevation is the last one asked
Read(t) ==
    /\ cc = t /\ rest # <<>> /\ Head(rest) \in valid
    /\ \/ hit' = TRUE /\ rest' \in {<<>>, Tail(rest)}
       \/ hit' = hit /\ rest' = Tail(rest)
    /\ UNCHANGED <<openlist, valid, datasets, cc>>

Leave(t) ==
    /\ cc = t /\ rest = <<>>
    /\ cc' = None
    /\ hit' = FALSE
    /\ UNCHANGED <<openlist, valid, datasets, rest>>

DemStep(t) == Outside(t) \/ OpenStep(t) \/ Read(t)

----------------------------------------------------------------------------
DemTypeOK ==
    /\ openlist \in [Rasters -> Nat]
    /\ valid \subseteq Rasters
    /\ datasets \in [Rasters -> Nat]
    /\ cc \in Callers \cup {None}
    /\ rest \in Seq(Rasters)
    /\ hit \in BOOLEAN

\* The list that Purge works from is exact: a raster is in it once when its
\* handle can be read, and not at all when it cannot, whatever was purged,
\* opened again or failed to open in between (Elevation.cpp:1990, 2034).
ListExact == \A f \in Rasters : openlist[f] = IF f \in valid THEN 1 ELSE 0

\* The process holds at most MAXOPENDEM + 1 data sets, and one more for each
\* irregular raster: those are never closed, since they are not in the list.
DataSetsBounded ==
    Cardinality(Entries(datasets)) <= MaxOpen + 1 + Cardinality(Bad)
====
