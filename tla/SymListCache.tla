---- MODULE SymListCache ----
(***************************************************************************)
(* The cache of river lists (CSymListCache rivercache), shared by all the  *)
(* query threads.  Lists are loaded on demand and pinned by a count while a*)
(* guard object on some stack (CRiverCache: one file, CRiversCache: the    *)
(* files of a box) uses them; an insertion over the size limit destroys    *)
(* lists nobody pins.  A query may nest guards, and two of them may pin the*)
(* same list.  Lock and Unlock run under the critical section CC, so each  *)
(* call is one step; a guard's calls interleave with those of others.      *)
(***************************************************************************)
EXTENDS Integers, FiniteSets

CONSTANTS Guards,     \* guard objects on the stacks of the query threads
          Files,      \* river files
          Addrs,      \* addresses malloc can return for a CCachedObj
          MaxSize,    \* maxsize (MAXOPENSYM)
          MaxBoxes,   \* most files one guard pins
          Garbage     \* what an uninitialised pointer may hold: null, stale

ASSUME SizeAssumption == MaxSize \in Nat /\ MaxBoxes \in Nat
ASSUME FiniteAssumption ==
    IsFiniteSet(Guards) /\ IsFiniteSet(Files) /\ IsFiniteSet(Addrs)

VARIABLES list,     \* the entries: [id, obj, lock], obj being the pointer
          csize,    \* the cache's own count of them
          phase,    \* where each guard is
          todo,     \* the files it has yet to lock
          held       \* the pointers it will unlock

vars == <<list, csize, phase, todo, held>>

Objs == {e.obj : e \in list}

Init ==
    /\ list = {}
    /\ csize = 0
    /\ phase = [g \in Guards |-> "idle"]
    /\ todo = [g \in Guards |-> {}]
    /\ held = [g \in Guards |-> {}]

\* the constructor knows the files of its box, or of its point
Begin(g) ==
    /\ phase[g] = "idle"
    /\ \E F \in SUBSET Files :
          /\ F # {} /\ Cardinality(F) <= MaxBoxes
          /\ todo' = [todo EXCEPT ![g] = F]
    /\ phase' = [phase EXCEPT ![g] = "use"]
    /\ UNCHANGED <<list, csize, held>>

\* CRiverCache(param, r) returns before Lock when RiverLL finds no point in
\* the parameters: obj is never assigned
BeginInvalid(g) ==
    /\ phase[g] = "idle"
    /\ phase' = [phase EXCEPT ![g] = "uninit"]
    /\ UNCHANGED <<list, csize, todo, held>>

Took(g, f, o) ==
    /\ todo' = [todo EXCEPT ![g] = @ \ {f}]
    /\ held' = [held EXCEPT ![g] = @ \cup {o}]
    /\ UNCHANGED phase

\* mutant: a cached list is handed out without counting the guard
LockHitUncounted(g) ==
    \E f \in todo[g], e \in list :
        /\ e.id = f
        /\ list' = list
        /\ Took(g, f, e.obj)
        /\ UNCHANGED csize

LockHit(g) ==
    \E f \in todo[g], e \in list :
        /\ e.id = f
        /\ list' = (list \ {e}) \cup {[e EXCEPT !.lock = @ + 1]}
        /\ Took(g, f, e.obj)
        /\ UNCHANGED csize

Unlocked(L) == {e \in L : e.lock = 0}

Smaller(m, n) == IF m < n THEN m ELSE n

\* mutant: Purge takes the oldest lists, pinned or not
EvictedAny(L, n) ==
    {V \in SUBSET L : Cardinality(V) = Smaller(Cardinality(L), n - MaxSize)}

\* mutant: Purge finds nothing to evict
EvictedNone(L, n) == {{}}

\* Purge goes from the oldest list to the newest, skips the locked ones and
\* stops at the limit.  Ages are an int difference of tick counts, which wraps:
\* any unlocked list may be the oldest.
Evicted(L, n) ==
    {V \in SUBSET Unlocked(L) :
        Cardinality(V) = Smaller(Cardinality(Unlocked(L)), n - MaxSize)}

\* mutant: the list is loaded without looking for it again under CC
LockMissUnchecked(g) ==
    \E f \in todo[g], a \in Addrs \ Objs :
        LET L == list \cup {[id |-> f, obj |-> a, lock |-> 1]} IN
        \E V \in IF csize + 1 > MaxSize THEN Evicted(L, csize + 1) ELSE {{}} :
            /\ list' = L \ V
            /\ csize' = csize + 1 - Cardinality(V)
            /\ Took(g, f, a)

\* the list is loaded and inserted, already pinned, before Purge runs
LockMiss(g) ==
    \E f \in todo[g], a \in Addrs \ Objs :
        /\ \A e \in list : e.id # f
        /\ LET L == list \cup {[id |-> f, obj |-> a, lock |-> 1]} IN
           \E V \in IF csize + 1 > MaxSize THEN Evicted(L, csize + 1) ELSE {{}} :
              /\ list' = L \ V
              /\ csize' = csize + 1 - Cardinality(V)
              /\ Took(g, f, a)

\* mutant: the first guard to leave releases the list for all of them
DropAll(o) == {IF e.obj = o THEN [e EXCEPT !.lock = 0] ELSE e : e \in list}

Drop(o) == {IF e.obj = o THEN [e EXCEPT !.lock = @ - 1] ELSE e : e \in list}

\* the destructor unlocks what the constructor locked, one call at a time
Unlock(g) ==
    /\ phase[g] = "use" /\ todo[g] = {}
    /\ \E o \in held[g] :
          /\ list' = Drop(o)
          /\ held' = [held EXCEPT ![g] = @ \ {o}]
          /\ phase' = [phase EXCEPT ![g] = IF held[g] = {o} THEN "idle" ELSE @]
    /\ UNCHANGED <<csize, todo>>

\* the destructor of a guard that never locked: Unlock ignores NULL, but a
\* pointer left on the stack by an earlier guard is unlocked once more
UnlockUninit(g) ==
    /\ phase[g] = "uninit"
    /\ \/ "null" \in Garbage /\ UNCHANGED list
       \/ "stale" \in Garbage /\ \E o \in Objs : list' = Drop(o)
    /\ phase' = [phase EXCEPT ![g] = "idle"]
    /\ UNCHANGED <<csize, todo, held>>

\* the __except of ElevationQuery catches a crash of the query that owns the
\* guard: the stack frame is gone and its destructor has not run, so the pins
\* are never taken back (a crash inside Lock would keep CC: not modelled)
Abandon(g) ==
    /\ phase[g] = "use"
    /\ phase' = [phase EXCEPT ![g] = "dead"]
    /\ todo' = [todo EXCEPT ![g] = {}]
    /\ UNCHANGED <<list, csize, held>>

\* the bounded supply of guards is used up
Exhausted ==
    /\ \A g \in Guards : phase[g] = "dead"
    /\ UNCHANGED vars

Next ==
    \/ \E g \in Guards :
          \/ Begin(g) \/ BeginInvalid(g)
          \/ LockHit(g) \/ LockMiss(g)
          \/ Unlock(g) \/ UnlockUninit(g)
          \/ Abandon(g)
    \/ Exhausted

Spec == Init /\ [][Next]_vars

----------------------------------------------------------------------------
(* Properties *)

\* Types of the cache's fields and of the guards.
TypeOK ==
    /\ list \subseteq [id : Files, obj : Addrs, lock : Nat]
    /\ csize \in Nat
    /\ phase \in [Guards -> {"idle", "use", "uninit", "dead"}]
    /\ todo \in [Guards -> SUBSET Files]
    /\ held \in [Guards -> SUBSET Addrs]

\* A list that a guard uses is never destroyed under it, whatever the other
\* threads insert, purge and release meanwhile.
NoDangling == \A g \in Guards : held[g] \subseteq Objs

\* The count of a list is the number of guards that pin it, so that it becomes
\* evictable exactly when the last of them, nested or not, is gone ("release
\* lock"); a guard abandoned by a crash counts for ever.
LockCount ==
    \A e \in list : e.lock = Cardinality({g \in Guards : e.obj \in held[g]})

\* A file is never in memory twice: two guards of one file see one list, and
\* what one of them adds to it the other finds.
OneListPerFile ==
    \A e, d \in list : e.id = d.id \/ e.obj = d.obj => e = d

\* The cache exceeds its limit by no more than what the guards can pin: lists
\* left over from a crowded moment, or pinned for ever by crashed queries, do
\* not add to it.  (csize is a running count; the bound is on the real number
\* of lists.)
BoundedByPins ==
    Cardinality(list) <= MaxSize \/ Cardinality(list) <= Cardinality(Guards) * MaxBoxes
====
