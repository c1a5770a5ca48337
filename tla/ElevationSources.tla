---- MODULE ElevationSources ----
(***************************************************************************)
(* Where the points of a path get their elevation: the rasters first, one  *)
(* call of DEMARRAY.height for each point, then Google, which is asked for *)
(* the chunks that have a point without one.  Both have a critical section *)
(* of their own, and both read the same tick count.                        *)
(***************************************************************************)
EXTENDS DemPool, GoogleKeys

ASSUME PathAssumption == 1..N \subseteq Points

VARIABLES pt,      \* the point each thread asks the rasters for
          none     \* points the rasters have no elevation for

vars == <<clock, pool, keyvars, pt, none>>

Init ==
    /\ ClockInit /\ DemInit /\ KeyInit
    /\ pt = [t \in Callers |-> 1]
    /\ none = [t \in Callers |-> {}]

Tick ==
    /\ NextTick
    /\ UNCHANGED <<pool, keyvars, pt, none>>

\* getelevationDEM
AskRasters(t) ==
    /\ st[t] = "idle" /\ pt[t] <= N /\ Enter(t, pt[t])
    /\ UNCHANGED <<clock, keyvars, pt, none>>

Rasterize(t) == DemStep(t) /\ UNCHANGED <<clock, keyvars, pt, none>>

NextPoint(t) ==
    /\ Leave(t)
    /\ pt' = [pt EXCEPT ![t] = @ + 1]
    /\ none' = [none EXCEPT ![t] = IF hit THEN @ ELSE @ \cup {pt[t]}]
    /\ UNCHANGED <<clock, keyvars>>

\* processPath hands the same points to the ring of its mode, and starts anew
AskGoogle(t, g) ==
    /\ pt[t] > N /\ Call(t, g, none[t])
    /\ pt' = [pt EXCEPT ![t] = 1]
    /\ none' = [none EXCEPT ![t] = {}]
    /\ UNCHANGED <<clock, pool>>

Elsewhere == UNCHANGED <<clock, pool, pt, none>>

Next ==
    \/ Tick
    \/ \E t \in Callers :
          \/ AskRasters(t) \/ Rasterize(t) \/ NextPoint(t)
          \/ \E g \in Rings : AskGoogle(t, g)
          \/ Elsewhere /\ (TakeCC(t) \/ CodeStep(t) \/ Google(t))

\* time goes on, a thread inside CC goes on, and a download ends
Fairness ==
    /\ WF_vars(Tick)
    /\ \A t \in Callers : /\ WF_vars(Elsewhere /\ CodeStep(t))
                          /\ WF_vars(Elsewhere /\ Google(t))

Spec == Init /\ [][Next]_vars /\ Fairness

\* Google is in service: of the replies it sends, some hold elevations
InService == \A t \in Callers : SF_vars(Elsewhere /\ SomePoints(t))

ServedSpec == Spec /\ InService

TypeOK == ClockTypeOK /\ DemTypeOK /\ KeyTypeOK
            /\ pt \in [Callers -> 1..(N + 1)]
            /\ none \in [Callers -> SUBSET (1..N)]
====
