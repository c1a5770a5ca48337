---- MODULE GoogleKeys ----
(***************************************************************************)
(* class gkey: elevations asked of Google.  A ring of keys is used one     *)
(* after the other; when all of them fail in a row the ring is disabled for*)
(* 24 hours.  Calls of all threads and all rings go through one critical   *)
(* section, held until the last point of a path is done.  A path is asked  *)
(* for in chunks; the reply may hold fewer points than were asked for (the *)
(* URL is cut at 2000 characters) and the next request starts after them.  *)
(* Times are tick counts, a DWORD.                                         *)
(***************************************************************************)
EXTENDS TickCount, FiniteSets

CONSTANTS Rings,     \* gkey objects: maingkey, scangONkey, scangOFFkey
          Keys,      \* how many keys each has
          N,         \* points of a path
          Chunk,     \* MAXALTPERCALL - 1
          Day        \* 24 hours

ASSUME RingsAssumption == Rings # {} /\ Keys \in [Rings -> Nat]
ASSUME ChunkAssumption == N \in Nat /\ Chunk \in Nat \ {0}
ASSUME DayAssumption == Day \in 0..(Wrap - 1)

VARIABLES k,         \* the key in use of each ring
          disabled,  \* when it may be used again
          lock,      \* the thread that owns CC
          st,        \* each thread
          ring,      \* the ring it uses
          start,     \* in CC: points of the path that are done
          error,     \* in CC: failures in a row
          miss,      \* points without a DEM elevation (res < 0)
          got,       \* history: points Google has given an elevation
          void,      \* history: points whose element of a reply gave none
          failed     \* history: keys that failed since the last success

keyvars == <<k, disabled, lock, st, ring, start, error, miss, got, void, failed>>

KeyInit ==
    /\ k = [g \in Rings |-> 0]
    /\ disabled = [g \in Rings |-> 0]
    /\ lock = None
    /\ st = [t \in Callers |-> "idle"]
    /\ ring = [t \in Callers |-> CHOOSE g \in Rings : TRUE]
    /\ start = 0
    /\ error = 0
    /\ miss = [t \in Callers |-> {}]
    /\ got = {} /\ void = {} /\ failed = {}

Goto(t, s) == st' = [st EXCEPT ![t] = s]

IsDisabled(g) == Keys[g] = 0 \/ disabled[g] > clock

\* getelevationGOOG tests IsDisabled before it waits for CC
Call(t, g, M) ==
    /\ st[t] = "idle"
    /\ ring' = [ring EXCEPT ![t] = g]
    /\ miss' = [miss EXCEPT ![t] = M]
    /\ Goto(t, IF IsDisabled(g) THEN "refused" ELSE "lock")
    /\ UNCHANGED <<k, disabled, lock, start, error, got, void, failed>>

\* a disable found under CC is taken for an old one, even when the thread that
\* has just left CC has set it
TakeCC(t) ==
    /\ st[t] = "lock" /\ lock = None
    /\ lock' = t
    /\ disabled' = [disabled EXCEPT ![ring[t]] = 0]
    /\ Goto(t, "chunk")
    /\ UNCHANGED <<k, ring, start, error, miss, got, void, failed>>

ChunkEnd == IF start + Chunk < N THEN start + Chunk ELSE N
Missing(t) == \E p \in miss[t] : start < p /\ p <= ChunkEnd

\* needs: a chunk with a point without elevation is asked for; another one
\* when its relief and resolution (or forced) call for it
NextChunk(t) ==
    /\ st[t] = "chunk" /\ start < N
    /\ \/ /\ Goto(t, "ask")
          /\ UNCHANGED start
       \/ /\ ~Missing(t)
          /\ start' = ChunkEnd
          /\ UNCHANGED st
    /\ UNCHANGED <<k, disabled, lock, ring, error, miss, got, void, failed>>

\* mutant: the sum is done in the type of disabled, a double
DisabledUntilDouble == clock + Day

DisabledUntil == (clock + Day) % Wrap

\* mutant: the ring goes on from its first key
NextKeyReset(g) == 0

NextKey(g) == IF k[g] + 1 >= Keys[g] THEN 0 ELSE k[g] + 1

TooMany(g) == error + 1 >= Keys[g]

\* the download failed, or the reply says OVER_QUERY_LIMIT
Fail(t) ==
    LET g == ring[t] IN
    /\ st[t] = "ask"
    /\ failed' = failed \cup {k[g]}
    /\ k' = [k EXCEPT ![g] = NextKey(g)]
    /\ error' = error + 1
    /\ IF TooMany(g)
       THEN Goto(t, "false") /\ disabled' = [disabled EXCEPT ![g] = DisabledUntil]
       ELSE Goto(t, "chunk") /\ UNCHANGED disabled
    /\ UNCHANGED <<lock, ring, start, miss, got, void>>

\* mutant: a short reply is taken for the whole chunk
AdvanceAll(r) == ChunkEnd

\* mutant: the next chunk starts a full chunk further
AdvanceFull(r) == start + Chunk

Advance(r) == start + r

\* a reply with r elements, held one by one against the first points asked for.
\* An element that is not of its point (and no other of the reply is), or with
\* no elevation or no resolution, is passed over together with the point.  (If
\* another is, the code takes the elevation of the wrong one: elevations are no
\* part of this model.)
Reply(t, r) ==
    /\ st[t] = "ask" /\ start + r <= ChunkEnd
    /\ error' = 0
    /\ failed' = {}
    /\ \E V \in SUBSET ((start + 1)..(start + r)) :
          /\ got' = got \cup ((start + 1)..(start + r) \ V)
          /\ void' = void \cup V
    /\ start' = Advance(r)
    /\ Goto(t, "chunk")
    /\ UNCHANGED <<k, disabled, lock, ring, miss>>

Done(t) ==
    /\ st[t] = "chunk" /\ start >= N
    /\ Goto(t, "true")
    /\ UNCHANGED <<k, disabled, lock, ring, start, error, miss, got, void, failed>>

\* the locals of the call are gone
Forget(t) ==
    /\ Goto(t, "idle")
    /\ ring' = [ring EXCEPT ![t] = CHOOSE g \in Rings : TRUE]
    /\ miss' = [miss EXCEPT ![t] = {}]

Refused(t) ==
    /\ st[t] = "refused" /\ Forget(t)
    /\ UNCHANGED <<k, disabled, lock, start, error, got, void, failed>>

\* mutant: CC is not released when getelev gives up
ReturnLocked(t) ==
    /\ st[t] \in {"true", "false"} /\ Forget(t)
    /\ lock' = IF st[t] = "true" THEN None ELSE lock
    /\ start' = 0 /\ error' = 0
    /\ got' = {} /\ void' = {} /\ failed' = {}
    /\ UNCHANGED <<k, disabled>>

Return(t) ==
    /\ st[t] \in {"true", "false"} /\ Forget(t)
    /\ lock' = None
    /\ start' = 0 /\ error' = 0
    /\ got' = {} /\ void' = {} /\ failed' = {}
    /\ UNCHANGED <<k, disabled>>

CodeStep(t) == NextChunk(t) \/ Done(t) \/ Refused(t) \/ Return(t)

\* something comes back from every download
Google(t) == Fail(t) \/ \E r \in 0..Chunk : Reply(t, r)
SomePoints(t) == \E r \in 1..Chunk : Reply(t, r)

----------------------------------------------------------------------------
KeyTypeOK ==
    /\ k \in [Rings -> Nat]
    /\ disabled \in [Rings -> Nat]
    /\ lock \in Callers \cup {None}
    /\ st \in [Callers -> {"idle", "lock", "chunk", "ask", "true", "false", "refused"}]
    /\ ring \in [Callers -> Rings]
    /\ start \in 0..N
    /\ error \in Nat
    /\ miss \in [Callers -> SUBSET (1..N)]
    /\ got \subseteq 1..N /\ void \subseteq 1..N

\* A ring is disabled only when each of its keys has failed since the last
\* success: the count of failures, which knows nothing of which key failed,
\* and the place in the ring, which outlives the calls, agree.
EachKeyTried ==
    \A t \in Callers : st[t] = "false" => failed = 0..(Keys[ring[t]] - 1)

\* Where getelev returns TRUE, every point the rasters have no elevation for has
\* been held against an element of a reply, however the replies cut the path into
\* pieces: a point is without elevation only where its element gave none, never
\* because a request started behind it.
NoneSkipped == \A t \in Callers : st[t] = "true" => miss[t] \subseteq got \cup void

\* No ring stays disabled for ever.  The sum of tick counts wraps like the
\* tick count itself, so that it is reached at the latest before the next wrap.
EnabledAgain ==
    \A g \in Rings : Keys[g] > 0 => []<>(disabled[g] <= clock)

\* CC, which every thread that wants an elevation waits for, is released again
\* (the comment at Elevation.cpp:2846: "start should take care" of replies with
\* fewer points than were asked for).
Released == \A t \in Callers : (lock = t) ~> (lock # t)
====
