---- MODULE ElevationSourcesProofs ----
(***************************************************************************)
(* The list of open rasters is exact and bounded, a ring of keys is given  *)
(* up only when each of its keys has failed, and a path that Google was    *)
(* asked for has no hole: for any rasters, cells, paths, rings and threads.*)
(***************************************************************************)
EXTENDS ElevationSources, FiniteSetTheorems, SequenceTheorems, TLAPS

\* A raster holds a data set while it is open or when it is irregular, one at
\* most; a raster is not both.
OneDataSet ==
    /\ datasets \in [Rasters -> {0, 1}]
    /\ \A f \in Rasters : datasets[f] = 1 => f \in valid \cup Bad
    /\ valid \cap Bad = {}

\* Purge leaves room for the one that is about to be opened.
FewOpen == Cardinality(valid) <= MaxOpen + 1

PoolInv == DemTypeOK /\ ListExact /\ OneDataSet /\ FewOpen

InCC == {"chunk", "ask", "true", "false"}

\* CC is owned by the thread that is in it; what it counts starts at nothing.
Owned ==
    /\ \A t \in Callers : lock = t <=> st[t] \in InCC
    /\ lock = None => start = 0 /\ error = 0 /\ got = {} /\ void = {} /\ failed = {}

\* A ring in use has keys, and points to one of them.
KeyInUse ==
    /\ \A g \in Rings : Keys[g] > 0 => k[g] < Keys[g]
    /\ \A t \in Callers : st[t] \in InCC \cup {"lock"} => Keys[ring[t]] > 0

\* The last e keys of a ring of n before the one at j, around the ring.
Before(n, j, e) == {x \in 0..(n - 1) : (j - e <= x /\ x < j) \/ x >= j + n - e}

\* The keys that failed since the last success are the last ones used, as many
\* as the failures counted.
Failures ==
    \A t \in Callers : lock = t =>
        LET n == Keys[ring[t]] IN
        /\ failed = Before(n, k[ring[t]], error)
        /\ IF st[t] = "false" THEN error = n ELSE error < n

\* The points before start have been held against an element of a reply.
Covered ==
    \A t \in Callers : lock = t =>
        /\ \A p \in miss[t] : p <= start => p \in got \cup void
        /\ st[t] = "true" => start >= N

KeyInv == KeyTypeOK /\ Owned /\ KeyInUse /\ Failures /\ Covered

\* The thread that goes through the rasters does so for a point of its path.
OnPath == \A t \in Callers : cc = t => pt[t] <= N

\* What is of the composition alone.
Mine ==
    /\ ClockTypeOK
    /\ pt \in [Callers -> 1..(N + 1)]
    /\ none \in [Callers -> SUBSET (1..N)]
    /\ OnPath

IInv == PoolInv /\ KeyInv /\ Mine

----------------------------------------------------------------------------
(* Counting rasters *)

\* Sets of rasters are finite.
LEMMA RastersFinite ==
    ASSUME NEW S \in SUBSET Rasters
    PROVE  IsFiniteSet(S) /\ Cardinality(S) \in Nat
BY RastersAssumption, FS_Subset, FS_CardinalityType

\* Counts of 0 and 1 add up to the number of rasters that have 1.
LEMMA EntriesCount ==
    ASSUME NEW n \in [Rasters -> {0, 1}]
    PROVE  Cardinality(Entries(n)) = Cardinality({f \in Rasters : n[f] = 1})
<1> DEFINE S == {f \in Rasters : n[f] = 1}
           b == [f \in S |-> <<f, 1>>]
<1>1. Entries(n) = {<<f, 1>> : f \in S}
  <2>1. ASSUME NEW f \in Rasters
        PROVE  1..n[f] = IF n[f] = 1 THEN {1} ELSE {}
    <3>1. 1..1 = {1} /\ 1..0 = {} /\ n[f] \in {0, 1}
      OBVIOUS
    <3> QED
      BY <3>1
  <2> QED
    BY <2>1 DEF Entries
<1>2. b \in Bijection(S, Entries(n))
  BY <1>1 DEF Bijection, Injection, Surjection, IsInjective
<1>3. IsFiniteSet(S)
  BY RastersFinite
<1> QED
  BY <1>2, <1>3, FS_Bijection DEF ExistsBijection

\* While the list is exact its size is the number of open rasters.
LEMMA ListCount ==
    ASSUME DemTypeOK, ListExact
    PROVE  Listed = valid /\ ListSize = Cardinality(valid)
<1>1. openlist \in [Rasters -> {0, 1}] /\ valid = {f \in Rasters : openlist[f] = 1}
  BY DEF DemTypeOK, ListExact
<1>2. Listed = valid
  BY <1>1 DEF Listed
<1> QED
  BY <1>1, <1>2, EntriesCount DEF ListSize

\* What Purge takes is open, and leaves MaxOpen rasters at most.
LEMMA PurgedFacts ==
    ASSUME PoolInv, NEW C \in Purged
    PROVE  C \subseteq valid /\ Cardinality(valid \ C) <= MaxOpen
<1>1. /\ Listed = valid /\ ListSize = Cardinality(valid)
      /\ IsFiniteSet(valid) /\ Cardinality(valid) \in Nat
  BY ListCount, RastersFinite DEF PoolInv, DemTypeOK
<1>2. CASE C = {} /\ ListSize <= MaxOpen
  BY <1>1, <1>2
<1>3. CASE C \subseteq Listed /\ Cardinality(C) = ListSize - MaxOpen
  <2>1. valid \cap C = C
    BY <1>1, <1>3
  <2>2. Cardinality(valid \ C) = Cardinality(valid) - Cardinality(C)
    BY <1>1, <2>1, FS_Difference
  <2> QED
    BY <1>1, <1>3, <2>2, MaxOpenAssumption
<1> QED
  BY <1>2, <1>3 DEF Purged

----------------------------------------------------------------------------
(* The rasters *)

\* A step that opens nothing keeps the pool as it is.
LEMMA StillPool ==
    ASSUME PoolInv, UNCHANGED <<openlist, valid, datasets>>,
           cc' \in Callers \cup {None}, rest' \in Seq(Rasters), hit' \in BOOLEAN
    PROVE  PoolInv'
BY DEF PoolInv, DemTypeOK, ListExact, OneDataSet, FewOpen

\* Opening a raster, after the purge, adds at most itself.
LEMMA OpenPool ==
    ASSUME PoolInv, NEW t \in Callers, OpenStep(t)
    PROVE  PoolInv'
<1> USE DEF PoolInv
<1>1. PICK C \in Purged : Open(Head(rest), Close(C))
  BY DEF OpenStep
<1> DEFINE f == Head(rest)
<1>2. /\ f \in Rasters /\ f \notin valid /\ C \subseteq valid
      /\ Cardinality(valid \ C) <= MaxOpen
      /\ rest' \in Seq(Rasters) /\ UNCHANGED <<cc, hit>>
  BY PurgedFacts, HeadTailProperties DEF OpenStep, DemTypeOK
<1> HIDE DEF f
<1> DEFINE new == valid' \ (valid \ C)
<1>3. /\ datasets' = [[g \in Rasters |-> IF g \in C THEN 0 ELSE datasets[g]] EXCEPT ![f] = datasets'[f]]
      /\ \/ /\ datasets'[f] = 0 \/ (datasets'[f] = 1 /\ f \in Bad)
            /\ valid' = valid \ C
            /\ openlist' = [g \in Rasters |-> IF g \in C THEN 0 ELSE openlist[g]]
         \/ /\ datasets'[f] = 1 /\ f \notin Bad
            /\ valid' = (valid \ C) \cup {f}
            /\ openlist' = [[g \in Rasters |-> IF g \in C THEN 0 ELSE openlist[g]] EXCEPT ![f] = @ + 1]
  BY <1>1, <1>2 DEF Open, Close, f
<1>4. \A g \in Rasters : g # f =>
         /\ datasets'[g] = IF g \in C THEN 0 ELSE datasets[g]
         /\ openlist'[g] = IF g \in C THEN 0 ELSE openlist[g]
         /\ g \in valid' <=> g \in valid \ C
  BY <1>2, <1>3
<1>5. /\ openlist[f] = 0
      /\ openlist'[f] = IF f \in valid' THEN 1 ELSE 0
      /\ datasets'[f] \in {0, 1}
      /\ datasets'[f] = 1 => f \in valid' \cup Bad
      /\ ~(f \in valid' /\ f \in Bad)
  BY <1>2, <1>3 DEF ListExact, DemTypeOK
<1>6. valid' \subseteq Rasters
  BY <1>2, <1>3 DEF DemTypeOK
<1>7. ListExact'
  BY <1>2, <1>4, <1>5 DEF ListExact
<1>8. OneDataSet'
  <2>1. \A g \in Rasters : /\ datasets'[g] \in {0, 1}
                           /\ datasets'[g] = 1 => g \in valid' \cup Bad
                           /\ ~(g \in valid' /\ g \in Bad)
    BY <1>4, <1>5 DEF OneDataSet
  <2>2. datasets' \in [Rasters -> {0, 1}]
    BY <1>3, <2>1
  <2> QED
    BY <1>6, <2>1, <2>2 DEF OneDataSet
<1>9. DemTypeOK'
  <2>1. openlist' \in [Rasters -> Nat]
    <3>1. openlist' = [g \in Rasters |-> openlist'[g]]
      BY <1>3
    <3>2. \A g \in Rasters : openlist'[g] \in Nat
      BY <1>7 DEF ListExact
    <3> QED
      BY <3>1, <3>2
  <2>2. datasets' \in [Rasters -> Nat]
    BY <1>8 DEF OneDataSet
  <2> QED
    BY <1>2, <1>6, <2>1, <2>2 DEF DemTypeOK
<1>10. FewOpen'
  <2>1. IsFiniteSet(valid \ C) /\ Cardinality(valid \ C) \in Nat
    BY RastersFinite DEF DemTypeOK
  <2>2. Cardinality((valid \ C) \cup {f}) = Cardinality(valid \ C) + 1
    BY <1>2, <2>1, FS_AddElement
  <2>3. CASE valid' = valid \ C
    BY <1>2, <2>1, <2>3, MaxOpenAssumption DEF FewOpen
  <2>4. CASE valid' = (valid \ C) \cup {f}
    <3>1. Cardinality(valid') = Cardinality(valid \ C) + 1
      BY <2>2, <2>4
    <3> QED
      BY <1>2, <2>1, <3>1, MaxOpenAssumption DEF FewOpen
  <2> QED
    BY <1>3, <2>3, <2>4
<1> QED
  BY <1>7, <1>8, <1>9, <1>10

\* A thread goes through the rasters of a cell.
LEMMA RasterStep ==
    ASSUME PoolInv, NEW t \in Callers,
           DemStep(t) \/ Leave(t) \/ (\E p \in Points : Enter(t, p))
    PROVE  PoolInv'
<1> USE DEF PoolInv
<1>1. CASE OpenStep(t)
  BY <1>1, OpenPool
<1>2. CASE Outside(t) \/ Read(t)
  <2>1. rest' \in Seq(Rasters) /\ hit' \in BOOLEAN
    BY <1>2, HeadTailProperties, EmptySeq DEF Outside, Read, DemTypeOK
  <2> QED
    BY <1>2, <2>1, StillPool DEF Outside, Read, DemTypeOK
<1>3. CASE Leave(t)
  BY <1>3, StillPool DEF Leave, DemTypeOK
<1>4. ASSUME NEW p \in Points, Enter(t, p)
      PROVE  PoolInv'
  <2>1. rest' \in Seq(Rasters)
    BY <1>4, CoverAssumption DEF Enter
  <2> QED
    BY <1>4, <2>1, StillPool DEF Enter, DemTypeOK
<1> QED
  BY <1>1, <1>2, <1>3, <1>4 DEF DemStep

\* The data sets are those of the open rasters and of the irregular ones.
LEMMA FewDataSets ==
    ASSUME PoolInv
    PROVE  DataSetsBounded
<1> DEFINE D == {f \in Rasters : datasets[f] = 1}
<1>1. Cardinality(Entries(datasets)) = Cardinality(D)
  BY EntriesCount DEF PoolInv, OneDataSet
<1>2. /\ IsFiniteSet(valid) /\ Cardinality(valid) \in Nat
      /\ IsFiniteSet(Bad) /\ Cardinality(Bad) \in Nat
  BY RastersFinite, RastersAssumption DEF PoolInv, DemTypeOK
<1>3. D \subseteq valid \cup Bad /\ valid \cap Bad = {}
  BY DEF PoolInv, OneDataSet
<1>4. /\ IsFiniteSet(valid \cup Bad)
      /\ Cardinality(valid \cup Bad) = Cardinality(valid) + Cardinality(Bad) - Cardinality(valid \cap Bad)
  BY <1>2, FS_Union
<1>5. Cardinality(D) <= Cardinality(valid \cup Bad) /\ Cardinality(valid \cap Bad) = 0
  BY <1>3, <1>4, FS_Subset, FS_EmptySet
<1>6. Cardinality(D) \in Nat
  BY RastersFinite
<1> QED
  BY <1>1, <1>2, <1>4, <1>5, <1>6, MaxOpenAssumption DEF PoolInv, FewOpen, DataSetsBounded

----------------------------------------------------------------------------
(* Around a ring of keys *)

\* A tick count is one again after a sum.
LEMMA Wraps ==
    ASSUME NEW x \in Nat
    PROVE  x % Wrap \in 0..(Wrap - 1)
BY WrapAssumption

\* One more failure is one more key before the next one.
LEMMA BeforeNext ==
    ASSUME NEW n \in Nat, NEW j \in 0..(n - 1), NEW e \in 0..(n - 1)
    PROVE  Before(n, j, e) \cup {j} = Before(n, IF j + 1 >= n THEN 0 ELSE j + 1, e + 1)
<1> DEFINE b == Before(n, j, e) \cup {j}
           a == Before(n, IF j + 1 >= n THEN 0 ELSE j + 1, e + 1)
<1>1. ASSUME NEW x \in 0..(n - 1)
      PROVE  x \in b <=> x \in a
  BY DEF Before
<1>2. a \subseteq 0..(n - 1) /\ b \subseteq 0..(n - 1)
  BY DEF Before
<1> QED
  BY <1>1, <1>2

\* Before no failure there is no key, and n failures are those of all keys.
LEMMA BeforeEnds ==
    ASSUME NEW n \in Nat, NEW j \in 0..n
    PROVE  Before(n, j, 0) = {} /\ Before(n, j, n) = 0..(n - 1)
<1>1. \A x \in 0..(n - 1) : ~(j - 0 <= x /\ x < j) /\ ~(x >= j + n - 0)
  OBVIOUS
<1>2. \A x \in 0..(n - 1) : (j - n <= x /\ x < j) \/ x >= j + n - n
  OBVIOUS
<1> QED
  BY <1>1, <1>2 DEF Before

\* A chunk ends within the path.
LEMMA ChunkFacts ==
    ASSUME KeyTypeOK
    PROVE  ChunkEnd \in 0..N /\ start <= ChunkEnd
BY ChunkAssumption DEF KeyTypeOK, ChunkEnd

----------------------------------------------------------------------------
(* The steps of getelevationGOOG *)

\* The caller that is in CC is the only one.
LEMMA Alone ==
    ASSUME KeyInv, NEW t \in Callers, st[t] \in InCC
    PROVE  lock = t /\ \A u \in Callers \ {t} : lock # u /\ st[u] \notin InCC
BY DEF KeyInv, Owned

\* A call outside CC changes nothing that CC protects.
LEMMA CallStep ==
    ASSUME KeyInv, NEW t \in Callers, NEW g \in Rings, NEW M \in SUBSET (1..N), Call(t, g, M)
    PROVE  KeyInv'
<1> USE DEF KeyInv, InCC
<1>1. /\ st[t] = "idle" /\ lock # t
      /\ ring' = [ring EXCEPT ![t] = g] /\ miss' = [miss EXCEPT ![t] = M]
      /\ UNCHANGED <<k, disabled, lock, start, error, got, void, failed>>
  BY DEF Call, Owned
<1>2. /\ st' = [st EXCEPT ![t] = st'[t]] /\ st'[t] \in {"refused", "lock"}
      /\ st'[t] = "lock" => Keys[g] # 0
  BY DEF Call, Goto, IsDisabled, KeyTypeOK
<1>3. KeyTypeOK'
  BY <1>1, <1>2 DEF KeyTypeOK
<1>4. Owned'
  BY <1>1, <1>2 DEF Owned, KeyTypeOK
<1>5. KeyInUse'
  BY <1>1, <1>2, RingsAssumption DEF KeyInUse, KeyTypeOK
<1>6. Failures' /\ Covered'
  BY <1>1, <1>2 DEF Failures, Covered, KeyTypeOK
<1> QED
  BY <1>3, <1>4, <1>5, <1>6

\* CC is taken with every count at nothing.
LEMMA TakeStep ==
    ASSUME KeyInv, NEW t \in Callers, TakeCC(t)
    PROVE  KeyInv'
<1> USE DEF KeyInv, InCC
<1>1. /\ st[t] = "lock" /\ lock = None /\ lock' = t
      /\ disabled' = [disabled EXCEPT ![ring[t]] = 0]
      /\ st' = [st EXCEPT ![t] = "chunk"]
      /\ UNCHANGED <<k, ring, start, error, miss, got, void, failed>>
  BY DEF TakeCC, Goto
<1>2. start = 0 /\ error = 0 /\ got = {} /\ void = {} /\ failed = {}
  BY <1>1 DEF Owned
<1>3. KeyTypeOK'
  BY <1>1 DEF KeyTypeOK
<1>4. Owned'
  BY <1>1, CallersAssumption DEF Owned, KeyTypeOK
<1>5. KeyInUse'
  BY <1>1 DEF KeyInUse, KeyTypeOK
<1>6. Failures'
  <2>1. /\ ring[t] \in Rings /\ Keys[ring[t]] \in Nat /\ Keys[ring[t]] > 0
        /\ k[ring[t]] \in 0..Keys[ring[t]]
    <3>1. ring[t] \in Rings /\ k[ring[t]] \in Nat /\ Keys[ring[t]] \in Nat
      BY RingsAssumption DEF KeyTypeOK
    <3>2. Keys[ring[t]] > 0
      BY <1>1 DEF KeyInUse
    <3> QED
      BY <3>1, <3>2 DEF KeyInUse
  <2>2. Before(Keys[ring[t]], k[ring[t]], 0) = {}
    BY <2>1, BeforeEnds
  <2> QED
    BY <1>1, <1>2, <2>1, <2>2 DEF Failures, KeyTypeOK
<1>7. Covered'
  BY <1>1, <1>2 DEF Covered, KeyTypeOK
<1> QED
  BY <1>3, <1>4, <1>5, <1>6, <1>7

\* A chunk that is skipped has no point without elevation.
LEMMA ChunkStep ==
    ASSUME KeyInv, NEW t \in Callers, NextChunk(t) \/ Done(t)
    PROVE  KeyInv'
<1> USE DEF KeyInv, InCC
<1>1. /\ st[t] = "chunk" /\ st' = [st EXCEPT ![t] = st'[t]]
      /\ st'[t] \in {"chunk", "ask", "true"} /\ (st'[t] = "true" => start >= N)
      /\ UNCHANGED <<k, disabled, lock, ring, error, miss, got, void, failed>>
      /\ start' = start \/ (start' = ChunkEnd /\ ~Missing(t))
      /\ st'[t] = "true" => start' = start
  BY DEF NextChunk, Done, Goto, KeyTypeOK
<1>2. lock = t /\ \A u \in Callers \ {t} : lock # u /\ st[u] \notin InCC
  BY <1>1, Alone
<1>3. start' \in 0..N /\ start <= start'
  BY <1>1, ChunkFacts DEF KeyTypeOK
<1>4. KeyTypeOK'
  BY <1>1, <1>3 DEF KeyTypeOK
<1>5. Owned' /\ KeyInUse' /\ Failures'
  BY <1>1, <1>2, CallersAssumption DEF Owned, KeyInUse, Failures, KeyTypeOK
<1>6. \A p \in miss[t] : p <= start' => p \in got \cup void
  BY <1>1, <1>2, <1>3, ChunkFacts DEF Covered, Missing, KeyTypeOK
<1>7. Covered'
  BY <1>1, <1>2, <1>6 DEF Covered, KeyTypeOK
<1> QED
  BY <1>4, <1>5, <1>7

\* The key that fails is the next of those that failed.
LEMMA FailStep ==
    ASSUME KeyInv, ClockTypeOK, NEW t \in Callers, Fail(t)
    PROVE  KeyInv'
<1> USE DEF KeyInv, InCC
<1> DEFINE g == ring[t]
           n == Keys[g]
<1>1. /\ st[t] = "ask"
      /\ failed' = failed \cup {k[g]} /\ k' = [k EXCEPT ![g] = NextKey(g)]
      /\ error' = error + 1
      /\ st' = [st EXCEPT ![t] = IF TooMany(g) THEN "false" ELSE "chunk"]
      /\ disabled' = [disabled EXCEPT ![g] = IF TooMany(g) THEN DisabledUntil ELSE @]
      /\ UNCHANGED <<lock, ring, start, miss, got, void>>
  BY DEF Fail, Goto, KeyTypeOK
<1>2. lock = t /\ \A u \in Callers \ {t} : lock # u /\ st[u] \notin InCC
  BY <1>1, Alone
<1>3. /\ g \in Rings /\ n \in Nat /\ k[g] \in 0..(n - 1) /\ error \in 0..(n - 1)
      /\ failed = Before(n, k[g], error)
  <2>1. g \in Rings /\ k[g] \in Nat /\ n \in Nat /\ error \in Nat
    BY RingsAssumption DEF KeyTypeOK
  <2>2. n > 0
    BY <1>1 DEF KeyInUse
  <2>3. error < n /\ failed = Before(n, k[g], error)
    BY <1>1, <1>2 DEF Failures
  <2> QED
    BY <2>1, <2>2, <2>3 DEF KeyInUse
<1>4. NextKey(g) \in 0..(n - 1) /\ NextKey(g) = IF k[g] + 1 >= n THEN 0 ELSE k[g] + 1
  BY <1>3 DEF NextKey
<1>5. DisabledUntil \in Nat
  <2>1. clock + Day \in Nat
    BY DayAssumption, WrapAssumption DEF ClockTypeOK
  <2> QED
    BY <2>1, Wraps, WrapAssumption DEF DisabledUntil
<1>6. KeyTypeOK'
  BY <1>1, <1>3, <1>4, <1>5 DEF KeyTypeOK
<1>7. Owned'
  BY <1>1, <1>2, CallersAssumption DEF Owned, KeyTypeOK
<1>8. KeyInUse'
  BY <1>1, <1>2, <1>3, <1>4 DEF KeyInUse, KeyTypeOK
<1>9. Failures'
  <2>1. failed' = Before(n, NextKey(g), error + 1)
    <3>1. Before(n, k[g], error) \cup {k[g]}
            = Before(n, IF k[g] + 1 >= n THEN 0 ELSE k[g] + 1, error + 1)
      BY <1>3, BeforeNext
    <3> QED
      BY <1>1, <1>3, <1>4, <3>1
  <2>2. IF st'[t] = "false" THEN error' = n ELSE error' < n
    BY <1>1, <1>3 DEF TooMany, KeyTypeOK
  <2>3. k'[g] = NextKey(g) /\ ring' = ring /\ error' = error + 1
    BY <1>1, <1>3 DEF KeyTypeOK
  <2> QED
    BY <1>1, <1>2, <2>1, <2>2, <2>3 DEF Failures
<1>10. Covered'
  BY <1>1, <1>2 DEF Covered, KeyTypeOK
<1> QED
  BY <1>6, <1>7, <1>8, <1>9, <1>10

\* A reply covers the points it has elements for, and forgives the failures.
LEMMA ReplyStep ==
    ASSUME KeyInv, NEW t \in Callers, NEW r \in 0..Chunk, Reply(t, r)
    PROVE  KeyInv'
<1> USE DEF KeyInv, InCC
<1>1. /\ st[t] = "ask" /\ start + r <= ChunkEnd
      /\ error' = 0 /\ failed' = {}
      /\ (got \cup void)' = got \cup void \cup (start + 1)..(start + r)
      /\ start' = start + r
      /\ st' = [st EXCEPT ![t] = "chunk"]
      /\ UNCHANGED <<k, disabled, lock, ring, miss>>
  BY DEF Reply, Goto, Advance
<1>2. lock = t /\ \A u \in Callers \ {t} : lock # u /\ st[u] \notin InCC
  BY <1>1, Alone
<1>3. /\ start \in 0..N /\ start' \in 0..N /\ r \in Nat
      /\ (start + 1)..(start + r) \subseteq 1..N
  BY <1>1, ChunkFacts, ChunkAssumption DEF KeyTypeOK
<1>4. KeyTypeOK'
  BY <1>1, <1>3 DEF KeyTypeOK
<1>5. Owned'
  BY <1>1, <1>2, CallersAssumption DEF Owned, KeyTypeOK
<1>6. KeyInUse'
  BY <1>1 DEF KeyInUse, KeyTypeOK
<1>7. Failures'
  <2>1. /\ Keys[ring[t]] \in Nat /\ Keys[ring[t]] > 0
        /\ k[ring[t]] \in 0..Keys[ring[t]]
    BY <1>1, RingsAssumption DEF KeyInUse, KeyTypeOK
  <2>2. Before(Keys[ring[t]], k[ring[t]], 0) = {}
    BY <2>1, BeforeEnds
  <2> QED
    BY <1>1, <1>2, <2>1, <2>2 DEF Failures, KeyTypeOK
<1>8. \A p \in miss[t] : p <= start + r => p \in got \cup void \cup (start + 1)..(start + r)
  <2>1. \A p \in miss[t] : p \in 1..N /\ (p <= start => p \in got \cup void)
    BY <1>2 DEF Covered, KeyTypeOK
  <2> QED
    BY <1>3, <2>1
<1>9. Covered'
  BY <1>1, <1>2, <1>8 DEF Covered, KeyTypeOK
<1> QED
  BY <1>4, <1>5, <1>6, <1>7, <1>9

\* A call that returns leaves nothing behind in CC.
LEMMA ReturnStep ==
    ASSUME KeyInv, NEW t \in Callers, Return(t) \/ Refused(t)
    PROVE  KeyInv'
<1> USE DEF KeyInv, InCC
<1> DEFINE r0 == CHOOSE g \in Rings : TRUE
<1>1. /\ st' = [st EXCEPT ![t] = "idle"] /\ ring' = [ring EXCEPT ![t] = r0]
      /\ miss' = [miss EXCEPT ![t] = {}] /\ UNCHANGED <<k, disabled>>
  BY DEF Return, Refused, Forget, Goto
<1>2. r0 \in Rings
  BY RingsAssumption
<1> HIDE DEF r0
<1>3. CASE Return(t)
  <2>1. /\ lock' = None /\ start' = 0 /\ error' = 0 /\ got' = {} /\ void' = {} /\ failed' = {}
    BY <1>3 DEF Return
  <2>2. \A u \in Callers \ {t} : st[u] \notin InCC
    BY <1>3, Alone DEF Return
  <2>3. KeyTypeOK'
    BY <1>1, <1>2, <2>1, ChunkAssumption DEF KeyTypeOK
  <2>4. Owned'
    BY <1>1, <2>1, <2>2, CallersAssumption DEF Owned, KeyTypeOK
  <2>5. KeyInUse'
    BY <1>1 DEF KeyInUse, KeyTypeOK
  <2>6. Failures' /\ Covered'
    BY <2>1, CallersAssumption DEF Failures, Covered
  <2> QED
    BY <2>3, <2>4, <2>5, <2>6
<1>4. CASE Refused(t)
  <2>1. /\ st[t] = "refused" /\ lock # t /\ UNCHANGED <<lock, start, error, got, void, failed>>
    BY <1>4 DEF Refused, Owned
  <2>2. KeyTypeOK'
    BY <1>1, <1>2, <2>1 DEF KeyTypeOK
  <2>3. Owned' /\ KeyInUse' /\ Failures' /\ Covered'
    BY <1>1, <2>1 DEF Owned, KeyInUse, Failures, Covered, KeyTypeOK
  <2> QED
    BY <2>2, <2>3
<1> QED
  BY <1>3, <1>4

\* Whatever leaves the state of the keys alone.
LEMMA KeysStill ==
    ASSUME KeyInv, UNCHANGED keyvars
    PROVE  KeyInv'
BY DEF keyvars, KeyInv, KeyTypeOK, Owned, KeyInUse, Failures, Covered, InCC

\* Whatever leaves the rasters alone.
LEMMA PoolStill ==
    ASSUME PoolInv, UNCHANGED pool
    PROVE  PoolInv'
BY StillPool DEF pool, PoolInv, DemTypeOK

----------------------------------------------------------------------------
(* The two together *)

\* A step of a thread keeps the invariant.
LEMMA ThreadStep ==
    ASSUME IInv, NEW t \in Callers,
           \/ AskRasters(t) \/ Rasterize(t) \/ NextPoint(t)
           \/ \E g \in Rings : AskGoogle(t, g)
           \/ Elsewhere /\ (TakeCC(t) \/ CodeStep(t) \/ Google(t))
    PROVE  IInv'
<1>1. PoolInv /\ KeyInv /\ Mine
  BY DEF IInv
<1>2. CASE AskRasters(t) \/ Rasterize(t)
  <2>1. PoolInv'
    <3>1. CASE AskRasters(t)
      <4>1. pt[t] \in Points
        BY <1>1, <3>1, PathAssumption, ChunkAssumption DEF AskRasters, Mine
      <4> QED
        BY <1>1, <3>1, <4>1, RasterStep DEF AskRasters
    <3>2. CASE Rasterize(t)
      BY <1>1, <3>2, RasterStep DEF Rasterize
    <3> QED
      BY <1>2, <3>1, <3>2
  <2>2. KeyInv' /\ UNCHANGED <<clock, pt, none>>
    BY <1>1, <1>2, KeysStill DEF AskRasters, Rasterize
  <2>3. OnPath'
    <3>1. CASE AskRasters(t)
      BY <1>1, <3>1, <2>2, CallersAssumption DEF AskRasters, Enter, OnPath
    <3>2. CASE Rasterize(t)
      <4>1. cc' = cc
        BY <3>2 DEF Rasterize, DemStep, Outside, OpenStep, Read
      <4> QED
        BY <1>1, <2>2, <4>1 DEF Mine, OnPath
    <3> QED
      BY <1>2, <3>1, <3>2
  <2>4. Mine'
    BY <1>1, <2>2, <2>3 DEF Mine, ClockTypeOK
  <2> QED
    BY <2>1, <2>2, <2>4 DEF IInv
<1>3. CASE NextPoint(t)
  <2>1. PoolInv' /\ KeyInv'
    BY <1>1, <1>3, RasterStep, KeysStill DEF NextPoint
  <2>2. Mine'
    <3>1. pt[t] \in 1..N /\ cc' = None
      BY <1>1, <1>3, ChunkAssumption DEF NextPoint, Leave, Mine, OnPath
    <3>2. /\ clock' = clock
          /\ pt' = [pt EXCEPT ![t] = @ + 1]
          /\ none' = [none EXCEPT ![t] = IF hit THEN @ ELSE @ \cup {pt[t]}]
      BY <1>3 DEF NextPoint
    <3>3. OnPath'
      BY <3>1, CallersAssumption DEF OnPath
    <3>4. pt' \in [Callers -> 1..(N + 1)] /\ none' \in [Callers -> SUBSET (1..N)]
      BY <1>1, <3>1, <3>2, ChunkAssumption DEF Mine
    <3> QED
      BY <1>1, <3>2, <3>3, <3>4 DEF Mine, ClockTypeOK
  <2> QED
    BY <2>1, <2>2 DEF IInv
<1>4. ASSUME NEW g \in Rings, AskGoogle(t, g)
      PROVE  IInv'
  <2>1. PoolInv'
    BY <1>1, <1>4, PoolStill DEF AskGoogle
  <2>2. KeyInv'
    BY <1>1, <1>4, CallStep DEF AskGoogle, Mine
  <2>3. Mine'
    <3>1. cc # t
      <4>1. pt[t] \in 1..(N + 1) /\ pt[t] > N
        BY <1>1, <1>4 DEF AskGoogle, Mine
      <4> QED
        BY <1>1, <4>1, ChunkAssumption DEF Mine, OnPath
    <3>2. /\ UNCHANGED <<clock, cc>> /\ pt' = [pt EXCEPT ![t] = 1]
          /\ none' = [none EXCEPT ![t] = {}]
      BY <1>4 DEF AskGoogle, pool
    <3> QED
      BY <1>1, <3>1, <3>2, ChunkAssumption DEF Mine, ClockTypeOK, OnPath
  <2> QED
    BY <2>1, <2>2, <2>3 DEF IInv
<1>5. CASE Elsewhere /\ (TakeCC(t) \/ CodeStep(t) \/ Google(t))
  <2>1. PoolInv' /\ Mine'
    BY <1>1, <1>5, PoolStill DEF Elsewhere, pool, Mine, ClockTypeOK, OnPath
  <2>2. KeyInv'
    BY <1>1, <1>5, TakeStep, ChunkStep, ReturnStep, FailStep, ReplyStep
    DEF CodeStep, Google, Mine
  <2> QED
    BY <2>1, <2>2 DEF IInv
<1> QED
  BY <1>2, <1>3, <1>4, <1>5

LEMMA Inductive ==
    ASSUME IInv, [Next]_vars
    PROVE  IInv'
<1>1. CASE Tick
  <2>1. PoolInv /\ KeyInv /\ Mine
    BY DEF IInv
  <2>2. clock' \in 0..(Wrap - 1)
    <3>1. clock + 1 \in Nat
      BY <2>1, WrapAssumption DEF Mine, ClockTypeOK
    <3> QED
      BY <1>1, <3>1, Wraps DEF Tick, NextTick
  <2>3. PoolInv' /\ KeyInv'
    BY <1>1, <2>1, PoolStill, KeysStill DEF Tick
  <2>4. Mine'
    BY <1>1, <2>1, <2>2 DEF Tick, pool, Mine, ClockTypeOK, OnPath
  <2> QED
    BY <2>3, <2>4 DEF IInv
<1>2. CASE UNCHANGED vars
  <2>1. PoolInv /\ KeyInv /\ Mine
    BY DEF IInv
  <2>2. UNCHANGED pool /\ UNCHANGED keyvars /\ UNCHANGED <<clock, pt, none>>
    BY <1>2 DEF vars
  <2>3. PoolInv' /\ KeyInv'
    BY <2>1, <2>2, PoolStill, KeysStill
  <2>4. Mine'
    BY <2>1, <2>2 DEF pool, Mine, ClockTypeOK, OnPath
  <2> QED
    BY <2>3, <2>4 DEF IInv
<1> QED
  BY <1>1, <1>2, ThreadStep DEF Next

\* No raster is open, no thread is in a critical section, no key has failed.
LEMMA Initially == Init => IInv
<1> SUFFICES ASSUME Init PROVE IInv
  OBVIOUS
<1>1. PoolInv
  <2>1. rest \in Seq(Rasters)
    BY EmptySeq DEF Init, DemInit
  <2>2. DemTypeOK
    BY <2>1 DEF Init, DemInit, DemTypeOK
  <2>3. ListExact /\ OneDataSet
    BY DEF Init, DemInit, ListExact, OneDataSet
  <2>4. FewOpen
    BY FS_EmptySet, MaxOpenAssumption DEF Init, DemInit, FewOpen
  <2> QED
    BY <2>2, <2>3, <2>4 DEF PoolInv
<1>2. KeyInv
  <2>1. KeyTypeOK
    <3>1. (CHOOSE g \in Rings : TRUE) \in Rings
      BY RingsAssumption
    <3> QED
      BY <3>1, ChunkAssumption DEF Init, KeyInit, KeyTypeOK
  <2>2. Owned /\ Failures /\ Covered
    BY CallersAssumption DEF Init, KeyInit, Owned, Failures, Covered, InCC
  <2>3. KeyInUse
    BY RingsAssumption DEF Init, KeyInit, KeyInUse, InCC
  <2> QED
    BY <2>1, <2>2, <2>3 DEF KeyInv
<1>3. Mine
  BY ChunkAssumption, CallersAssumption DEF Init, ClockInit, DemInit, Mine, ClockTypeOK, OnPath
<1> QED
  BY <1>1, <1>2, <1>3 DEF IInv

----------------------------------------------------------------------------
(* The theorems *)

\* The inductive invariant holds in every reachable state.
THEOREM Invariance == Spec => []IInv
BY Initially, Inductive, PTL DEF Spec

\* Type correctness of the rasters, of the keys and of the threads on their path.
THEOREM TypeCorrect == Spec => []TypeOK
<1>1. IInv => TypeOK
  BY DEF IInv, PoolInv, KeyInv, Mine, TypeOK
<1> QED
  BY Invariance, <1>1, PTL

\* The list Purge works from holds each raster that can be read, once, and no
\* other.
THEOREM ListExactThm == Spec => []ListExact
<1>1. IInv => ListExact
  BY DEF IInv, PoolInv
<1> QED
  BY Invariance, <1>1, PTL

\* No more data sets than MAXOPENDEM + 1 and one for each irregular raster.
THEOREM DataSetsBoundedThm == Spec => []DataSetsBounded
<1>1. IInv => DataSetsBounded
  BY FewDataSets DEF IInv
<1> QED
  BY Invariance, <1>1, PTL

\* A ring is given up only when each of its keys failed since the last success.
THEOREM EachKeyTriedThm == Spec => []EachKeyTried
<1>1. ASSUME IInv, NEW t \in Callers, st[t] = "false"
      PROVE  failed = 0..(Keys[ring[t]] - 1)
  <2>1. lock = t
    BY <1>1, Alone DEF IInv, InCC
  <2>2. /\ failed = Before(Keys[ring[t]], k[ring[t]], error) /\ error = Keys[ring[t]]
        /\ Keys[ring[t]] \in Nat /\ k[ring[t]] \in 0..Keys[ring[t]]
    BY <1>1, <2>1, RingsAssumption DEF IInv, KeyInv, Failures, KeyInUse, KeyTypeOK, InCC
  <2> QED
    BY <2>2, BeforeEnds
<1>2. IInv => EachKeyTried
  BY <1>1 DEF EachKeyTried
<1> QED
  BY Invariance, <1>2, PTL

\* On a path that is done every point without elevation has been held against an
\* element of a reply.
THEOREM NoneSkippedThm == Spec => []NoneSkipped
<1>1. ASSUME IInv, NEW t \in Callers, st[t] = "true"
      PROVE  miss[t] \subseteq got \cup void
  <2>1. lock = t
    BY <1>1, Alone DEF IInv, InCC
  <2>2. start >= N /\ start \in 0..N /\ miss[t] \subseteq 1..N
    BY <1>1, <2>1 DEF IInv, KeyInv, Covered, KeyTypeOK
  <2> QED
    BY <1>1, <2>1, <2>2, ChunkAssumption DEF IInv, KeyInv, Covered
<1>2. IInv => NoneSkipped
  BY <1>1 DEF NoneSkipped
<1> QED
  BY Invariance, <1>2, PTL
====
