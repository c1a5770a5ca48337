---- MODULE SymListCacheProofs ----
(***************************************************************************)
(* The pin counts of the river cache are right, and no pinned list is ever *)
(* destroyed, for any number of guards, files and addresses, as long as    *)
(* every guard is initialised ("stale" \notin Garbage).                    *)
(***************************************************************************)
EXTENDS SymListCache, FiniteSetTheorems, TLAPS

\* The guards that pin the entry at an address.
Pinners(o) == {g \in Guards : o \in held[g]}

\* A guard pins nothing outside its use, but for one that was abandoned, which
\* locks nothing more.
IdleHoldsNothing ==
    \A g \in Guards : /\ phase[g] # "use" => todo[g] = {}
                      /\ phase[g] \notin {"use", "dead"} => held[g] = {}

\* A guard holds no entry of a file it has yet to lock.
TodoUnheld ==
    \A g \in Guards : \A e \in list : e.id \in todo[g] => e.obj \notin held[g]

\* csize is the number of lists.
CountRight == IsFiniteSet(list) /\ csize = Cardinality(list)

IInv == /\ TypeOK /\ NoDangling /\ LockCount /\ OneListPerFile
        /\ IdleHoldsNothing /\ TodoUnheld /\ CountRight

\* What a guard pins and what it is yet to pin are no more than its files.
FewPins == \A g \in Guards : Cardinality(held[g]) + Cardinality(todo[g]) <= MaxBoxes

\* No list could be evicted.
AllPinned == \A e \in list : e.lock # 0

\* BoundedByPins is inductive with the two.
Bounded == IInv /\ FewPins /\ BoundedByPins

----------------------------------------------------------------------------
(* Counting pins *)

\* The pinners of an address are finitely many.
LEMMA PinnersFinite == \A o : IsFiniteSet(Pinners(o)) /\ Cardinality(Pinners(o)) \in Nat
<1>1. \A o : Pinners(o) \subseteq Guards
  BY DEF Pinners
<1> QED
  BY <1>1, FiniteAssumption, FS_Subset, FS_CardinalityType

\* LockCount in terms of Pinners.
LEMMA LockCountPinners == LockCount <=> \A e \in list : e.lock = Cardinality(Pinners(e.obj))
BY DEF LockCount, Pinners

\* A set without some of its elements has that many fewer.
LEMMA WithoutFacts ==
    ASSUME NEW S, IsFiniteSet(S), NEW T \in SUBSET S
    PROVE  IsFiniteSet(S \ T) /\ Cardinality(S \ T) = Cardinality(S) - Cardinality(T)
<1>1. S \cap T = T
  OBVIOUS
<1> QED
  BY <1>1, FS_Difference

\* Purge takes unlocked entries, and no more than it needs.
LEMMA EvictedFacts ==
    ASSUME NEW L, NEW k, NEW V \in Evicted(L, k)
    PROVE  /\ V \subseteq Unlocked(L)
           /\ Cardinality(V) = Smaller(Cardinality(Unlocked(L)), k - MaxSize)
BY DEF Evicted

\* An entry that Purge may take is pinned by nobody.
LEMMA UnlockedUnpinned ==
    ASSUME LockCount, NEW e \in list, e.lock = 0
    PROVE  \A g \in Guards : e.obj \notin held[g]
<1>1. Cardinality(Pinners(e.obj)) = 0
  BY LockCountPinners
<1>2. Pinners(e.obj) = {}
  BY <1>1, PinnersFinite, FS_EmptySet
<1> QED
  BY <1>2 DEF Pinners

----------------------------------------------------------------------------
(* One lemma per action *)

\* Locking a cached list adds one pin and one to its count.
LEMMA LockHitStep ==
    ASSUME IInv, NEW g \in Guards, LockHit(g)
    PROVE  IInv'
<1> USE DEF IInv, TypeOK
<1>1. PICK f \in todo[g], e \in list :
          /\ e.id = f
          /\ list' = (list \ {e}) \cup {[e EXCEPT !.lock = @ + 1]}
          /\ todo' = [todo EXCEPT ![g] = @ \ {f}]
          /\ held' = [held EXCEPT ![g] = @ \cup {e.obj}]
          /\ UNCHANGED <<csize, phase>>
  BY DEF LockHit, Took
<1> DEFINE n == [e EXCEPT !.lock = @ + 1]
<1>2. /\ e.obj \notin held[g] /\ phase[g] = "use"
      /\ n \in [id : Files, obj : Addrs, lock : Nat]
      /\ n.id = e.id /\ n.obj = e.obj /\ n.lock = e.lock + 1
  BY <1>1 DEF TodoUnheld, IdleHoldsNothing
<1>3. TypeOK'
  BY <1>1, <1>2
<1>4. \A d \in list' : d = n \/ (d \in list /\ d.obj # e.obj /\ d.id # e.id)
  BY <1>1 DEF OneListPerFile
<1>5. OneListPerFile'
  BY <1>1, <1>2, <1>4 DEF OneListPerFile
<1>6. Objs' = Objs
  BY <1>1, <1>2 DEF Objs
<1>7. NoDangling'
  BY <1>1, <1>6 DEF NoDangling, Objs
<1>8. LockCount'
  <2>1. Pinners(e.obj)' = Pinners(e.obj) \cup {g} /\ g \notin Pinners(e.obj)
    BY <1>1, <1>2 DEF Pinners
  <2>2. Cardinality(Pinners(e.obj) \cup {g}) = Cardinality(Pinners(e.obj)) + 1
    BY <2>1, PinnersFinite, FS_AddElement
  <2>5. Cardinality(Pinners(e.obj)') = n.lock
    BY <1>2, <2>1, <2>2, LockCountPinners
  <2>3. \A d \in list : d.obj # e.obj => Pinners(d.obj)' = Pinners(d.obj)
    BY <1>1 DEF Pinners
  <2>4. \A d \in list' : d.lock = Cardinality(Pinners(d.obj)')
    BY <1>2, <1>4, <2>5, <2>3, LockCountPinners
  <2> QED
    BY <2>4 DEF LockCount, Pinners
<1>9. IdleHoldsNothing' /\ TodoUnheld'
  BY <1>1, <1>2, <1>4 DEF IdleHoldsNothing, TodoUnheld
<1>10. CountRight'
  <2>1. IsFiniteSet(list \ {e}) /\ Cardinality(list \ {e}) = Cardinality(list) - 1
    BY FS_RemoveElement DEF CountRight
  <2>2. n \notin list \ {e}
    BY <1>2 DEF OneListPerFile
  <2>3. /\ IsFiniteSet((list \ {e}) \cup {n})
        /\ Cardinality((list \ {e}) \cup {n}) = Cardinality(list \ {e}) + 1
    BY <2>1, <2>2, FS_AddElement
  <2> QED
    BY <1>1, <2>1, <2>3 DEF CountRight
<1> QED
  BY <1>3, <1>5, <1>7, <1>8, <1>9, <1>10

\* Loading a list pins it once at a free address; Purge takes only lists that
\* no guard pins, never the new one.
LEMMA LockMissStep ==
    ASSUME IInv, NEW g \in Guards, LockMiss(g)
    PROVE  IInv'
<1> USE DEF IInv, TypeOK
<1>1. PICK f \in todo[g], a \in Addrs \ Objs :
          /\ \A e \in list : e.id # f
          /\ \E V \in IF csize + 1 > MaxSize
                      THEN Evicted(list \cup {[id |-> f, obj |-> a, lock |-> 1]}, csize + 1)
                      ELSE {{}} :
                /\ list' = (list \cup {[id |-> f, obj |-> a, lock |-> 1]}) \ V
                /\ csize' = csize + 1 - Cardinality(V)
          /\ todo' = [todo EXCEPT ![g] = @ \ {f}]
          /\ held' = [held EXCEPT ![g] = @ \cup {a}]
          /\ UNCHANGED phase
  BY DEF LockMiss, Took
<1> DEFINE new == [id |-> f, obj |-> a, lock |-> 1]
           grown == list \cup {new}
           U == Unlocked(grown)
<1>2. /\ new \notin list /\ phase[g] = "use" /\ \A h \in Guards : a \notin held[h]
      /\ f \in Files /\ new \in [id : Files, obj : Addrs, lock : Nat]
  BY <1>1 DEF Objs, NoDangling, IdleHoldsNothing
<1>3. IsFiniteSet(grown) /\ Cardinality(grown) = csize + 1
  BY <1>2, FS_AddElement DEF CountRight
<1>4. PICK V : /\ V \subseteq U
               /\ Cardinality(V) <= csize + 1
               /\ list' = grown \ V /\ csize' = csize + 1 - Cardinality(V)
  <2>1. IsFiniteSet(U) /\ Cardinality(U) \in Nat
    BY <1>3, FS_Subset, FS_CardinalityType DEF Unlocked
  <2>2. CASE csize + 1 > MaxSize
    <3>1. PICK V : /\ V \in Evicted(grown, csize + 1)
                   /\ list' = grown \ V /\ csize' = csize + 1 - Cardinality(V)
      BY <1>1, <2>2
    <3>2. V \subseteq U /\ Cardinality(V) = Smaller(Cardinality(U), (csize + 1) - MaxSize)
      BY <3>1, EvictedFacts
    <3>3. Cardinality(V) <= csize + 1
      BY <2>1, <3>2, SizeAssumption DEF Smaller
    <3> QED
      BY <3>1, <3>2, <3>3
  <2>3. CASE ~(csize + 1 > MaxSize)
    <3>1. list' = grown \ {} /\ csize' = csize + 1 - Cardinality({})
      BY <1>1, <2>3
    <3>2. Cardinality({}) <= csize + 1
      BY FS_EmptySet
    <3> QED
      BY <3>1, <3>2
  <2> QED
    BY <2>2, <2>3
<1>5. V \subseteq list /\ new \notin V /\ IsFiniteSet(V) /\ Cardinality(V) \in Nat
  <2>1. V \subseteq grown /\ new \notin V
    BY <1>4 DEF Unlocked
  <2>2. IsFiniteSet(V) /\ Cardinality(V) \in Nat
    BY <2>1, <1>3, FS_Subset, FS_CardinalityType
  <2> QED
    BY <2>1, <2>2
<1>6. \A d \in V : \A h \in Guards : d.obj \notin held[h]
  BY <1>4, <1>5, UnlockedUnpinned DEF Unlocked
<1>7. \A d \in list' : d = new \/ (d \in list /\ d.obj # a /\ d.id # f)
  BY <1>1, <1>4 DEF Objs
<1>8. TypeOK'
  <2>1. list' \subseteq [id : Files, obj : Addrs, lock : Nat]
    BY <1>2, <1>7
  <2>2. csize' \in Nat
    BY <1>4, <1>5
  <2> QED
    BY <1>1, <2>1, <2>2
<1>9. OneListPerFile'
  BY <1>7 DEF OneListPerFile
<1>10. NoDangling'
  <2>1. a \in Objs'
    BY <1>4, <1>5 DEF Objs
  <2>2. ASSUME NEW h \in Guards, NEW o \in held[h]
        PROVE  o \in Objs'
    <3>1. PICK d \in list : d.obj = o
      BY <2>2 DEF NoDangling, Objs
    <3>2. d \in list'
      BY <1>4, <1>6, <2>2, <3>1
    <3> QED
      BY <3>1, <3>2 DEF Objs
  <2> QED
    BY <1>1, <2>1, <2>2 DEF NoDangling
<1>11. LockCount'
  <2>1. Pinners(a)' = {g}
    BY <1>1 DEF Pinners, NoDangling
  <2>2. Cardinality(Pinners(new.obj)') = new.lock
    BY <2>1, FS_Singleton
  <2>3. \A d \in list : d.obj # a => Pinners(d.obj)' = Pinners(d.obj)
    BY <1>1 DEF Pinners
  <2>4. \A d \in list' : d.lock = Cardinality(Pinners(d.obj)')
    BY <1>7, <2>2, <2>3, LockCountPinners
  <2> QED
    BY <2>4 DEF LockCount, Pinners
<1>12. IdleHoldsNothing' /\ TodoUnheld'
  <2>1. IdleHoldsNothing'
    BY <1>1, <1>2 DEF IdleHoldsNothing
  <2>2. ASSUME NEW h \in Guards, NEW d \in list', d.id \in todo'[h]
        PROVE  d.obj \notin held'[h]
    <3>1. CASE d = new
      BY <1>1, <1>2, <2>2, <3>1
    <3>2. CASE d \in list /\ d.obj # a /\ d.id # f
      BY <1>1, <2>2, <3>2 DEF TodoUnheld
    <3> QED
      BY <1>7, <3>1, <3>2
  <2> QED
    BY <2>1, <2>2 DEF TodoUnheld
<1>13. CountRight'
  <2>1. V \subseteq grown
    BY <1>5
  <2>2. IsFiniteSet(grown \ V) /\ Cardinality(grown \ V) = Cardinality(grown) - Cardinality(V)
    BY <1>3, <2>1, WithoutFacts
  <2>3. csize' = Cardinality(grown) - Cardinality(V) /\ list' = grown \ V
    BY <1>3, <1>4, <1>5
  <2>4. IsFiniteSet(list') /\ csize' = Cardinality(list')
    BY <2>2, <2>3
  <2> QED
    BY <2>4 DEF CountRight
<1> QED
  BY <1>8, <1>9, <1>10, <1>11, <1>12, <1>13

\* A destructor's Unlock takes one pin and one from the count.
LEMMA UnlockStep ==
    ASSUME IInv, NEW g \in Guards, Unlock(g)
    PROVE  IInv'
<1> USE DEF IInv, TypeOK
<1>1. PICK o \in held[g] :
          /\ list' = Drop(o)
          /\ held' = [held EXCEPT ![g] = @ \ {o}]
          /\ phase' = [phase EXCEPT ![g] = IF held[g] = {o} THEN "idle" ELSE @]
          /\ todo[g] = {} /\ UNCHANGED <<csize, todo>>
  BY DEF Unlock
<1>2. PICK e \in list : e.obj = o
  BY <1>1 DEF NoDangling, Objs
<1> DEFINE n == [e EXCEPT !.lock = @ - 1]
<1>3. Pinners(o)' = Pinners(o) \ {g} /\ g \in Pinners(o)
  BY <1>1 DEF Pinners
<1>4. /\ Cardinality(Pinners(o) \ {g}) = Cardinality(Pinners(o)) - 1
      /\ Cardinality(Pinners(o) \ {g}) \in Nat
  BY <1>3, PinnersFinite, FS_RemoveElement, FS_CardinalityType
<1>5. /\ n.id = e.id /\ n.obj = o /\ n.lock = e.lock - 1
      /\ n \in [id : Files, obj : Addrs, lock : Nat]
  <2>1. e.lock - 1 \in Nat
    BY <1>2, <1>4, LockCountPinners
  <2> QED
    BY <1>2, <2>1
<1>6. list' = (list \ {e}) \cup {n}
  BY <1>1, <1>2 DEF Drop, OneListPerFile
<1>7. \A d \in list' : d = n \/ (d \in list /\ d.obj # o /\ d.id # e.id)
  BY <1>2, <1>6 DEF OneListPerFile
<1>8. TypeOK'
  BY <1>1, <1>5, <1>6
<1>9. OneListPerFile'
  BY <1>5, <1>7 DEF OneListPerFile
<1>10. NoDangling'
  <2>1. Objs' = Objs
    BY <1>2, <1>5, <1>6 DEF Objs
  <2> QED
    BY <1>1, <2>1 DEF NoDangling
<1>11. LockCount'
  <2>1. Cardinality(Pinners(n.obj)') = n.lock
    BY <1>2, <1>3, <1>4, <1>5, LockCountPinners
  <2>2. \A d \in list : d.obj # o => Pinners(d.obj)' = Pinners(d.obj)
    BY <1>1 DEF Pinners
  <2>3. \A d \in list' : d.lock = Cardinality(Pinners(d.obj)')
    BY <1>7, <2>1, <2>2, LockCountPinners
  <2> QED
    BY <2>3 DEF LockCount, Pinners
<1>12. IdleHoldsNothing' /\ TodoUnheld'
  BY <1>1, <1>5, <1>7 DEF IdleHoldsNothing, TodoUnheld
<1>13. CountRight'
  <2>1. IsFiniteSet(list \ {e}) /\ Cardinality(list \ {e}) = Cardinality(list) - 1
    BY FS_RemoveElement DEF CountRight
  <2>2. n \notin list \ {e}
    BY <1>2, <1>5 DEF OneListPerFile
  <2>3. /\ IsFiniteSet((list \ {e}) \cup {n})
        /\ Cardinality((list \ {e}) \cup {n}) = Cardinality(list \ {e}) + 1
    BY <2>1, <2>2, FS_AddElement
  <2> QED
    BY <1>1, <1>6, <2>1, <2>3 DEF CountRight
<1> QED
  BY <1>8, <1>9, <1>10, <1>11, <1>12, <1>13

\* A guard that begins touches neither the cache nor its pins.
LEMMA BeginStep ==
    ASSUME IInv, NEW g \in Guards, Begin(g) \/ BeginInvalid(g)
    PROVE  IInv'
<1> USE DEF IInv
<1>1. held[g] = {} /\ list' = list /\ held' = held /\ csize' = csize
  BY DEF Begin, BeginInvalid, IdleHoldsNothing
<1>2. TypeOK' /\ IdleHoldsNothing' /\ TodoUnheld'
  <2>1. CASE Begin(g)
    BY <1>1, <2>1 DEF Begin, TypeOK, IdleHoldsNothing, TodoUnheld
  <2>2. CASE BeginInvalid(g)
    BY <1>1, <2>2 DEF BeginInvalid, TypeOK, IdleHoldsNothing, TodoUnheld
  <2> QED
    BY <2>1, <2>2
<1>3. NoDangling' /\ LockCount' /\ OneListPerFile' /\ CountRight'
  BY <1>1 DEF NoDangling, Objs, LockCount, OneListPerFile, CountRight
<1> QED
  BY <1>2, <1>3

\* An uninitialised guard whose pointer happens to be null does nothing.
LEMMA UnlockUninitStep ==
    ASSUME IInv, NEW g \in Guards, UnlockUninit(g), "stale" \notin Garbage
    PROVE  IInv'
<1> USE DEF IInv
<1>1. /\ list' = list /\ held' = held /\ csize' = csize /\ todo' = todo
      /\ phase' = [phase EXCEPT ![g] = "idle"] /\ phase[g] = "uninit"
  BY DEF UnlockUninit
<1>2. TypeOK' /\ IdleHoldsNothing' /\ TodoUnheld'
  BY <1>1 DEF TypeOK, IdleHoldsNothing, TodoUnheld
<1>3. NoDangling' /\ LockCount' /\ OneListPerFile' /\ CountRight'
  BY <1>1 DEF NoDangling, Objs, LockCount, OneListPerFile, CountRight
<1> QED
  BY <1>2, <1>3

\* An abandoned guard keeps its pins.
LEMMA AbandonStep ==
    ASSUME IInv, NEW g \in Guards, Abandon(g)
    PROVE  IInv'
<1> USE DEF IInv
<1>1. /\ list' = list /\ held' = held /\ csize' = csize
      /\ phase' = [phase EXCEPT ![g] = "dead"] /\ todo' = [todo EXCEPT ![g] = {}]
  BY DEF Abandon
<1>2. TypeOK' /\ IdleHoldsNothing' /\ TodoUnheld'
  BY <1>1 DEF TypeOK, IdleHoldsNothing, TodoUnheld
<1>3. NoDangling' /\ LockCount' /\ OneListPerFile' /\ CountRight'
  BY <1>1 DEF NoDangling, Objs, LockCount, OneListPerFile, CountRight
<1> QED
  BY <1>2, <1>3

----------------------------------------------------------------------------
(* Steps of all guards *)

LEMMA Inductive ==
    ASSUME IInv, [Next]_vars, "stale" \notin Garbage
    PROVE  IInv'
<1>1. CASE UNCHANGED vars \/ Exhausted
  BY <1>1 DEF Exhausted, vars, IInv, TypeOK, NoDangling, Objs, LockCount, OneListPerFile,
              IdleHoldsNothing, TodoUnheld, CountRight
<1>2. CASE \E g \in Guards : \/ Begin(g) \/ BeginInvalid(g) \/ LockHit(g) \/ LockMiss(g)
                              \/ Unlock(g) \/ UnlockUninit(g) \/ Abandon(g)
  BY <1>2, BeginStep, LockHitStep, LockMissStep, UnlockStep, UnlockUninitStep,
     AbandonStep
<1> QED
  BY <1>1, <1>2 DEF Next

----------------------------------------------------------------------------
(* The size of the cache *)

\* The files and addresses of a guard are finitely many.
LEMMA GuardFinite ==
    ASSUME TypeOK, NEW g \in Guards
    PROVE  /\ IsFiniteSet(held[g]) /\ Cardinality(held[g]) \in Nat
           /\ IsFiniteSet(todo[g]) /\ Cardinality(todo[g]) \in Nat
<1>1. held[g] \subseteq Addrs /\ todo[g] \subseteq Files
  BY DEF TypeOK
<1> QED
  BY <1>1, FiniteAssumption, FS_Subset, FS_CardinalityType

\* When every list is pinned there are no more lists than pins: each list has
\* a guard that pins it and a place among the pins of that guard.
LEMMA PinnedFew ==
    ASSUME IInv, FewPins, AllPinned
    PROVE  Cardinality(list) <= Cardinality(Guards) * MaxBoxes
<1> DEFINE count(g) == Cardinality(held[g])
           pin(g) == CHOOSE b : b \in Bijection(1..count(g), held[g])
           places == Guards \X (1..MaxBoxes)
           f == [e \in list |-> CHOOSE w \in places : pin(w[1])[w[2]] = e.obj]
<1>1. ASSUME NEW g \in Guards
      PROVE  count(g) \in 0..MaxBoxes /\ pin(g) \in Bijection(1..count(g), held[g])
  <2>1. /\ IsFiniteSet(held[g]) /\ count(g) \in Nat /\ Cardinality(todo[g]) \in Nat
        /\ count(g) + Cardinality(todo[g]) <= MaxBoxes
    BY GuardFinite DEF IInv, FewPins
  <2>2. Bijection(1..count(g), held[g]) # {}
    BY <2>1, FS_CardinalityType DEF ExistsBijection
  <2> QED
    BY <2>1, <2>2, SizeAssumption
<1> HIDE DEF pin
<1>2. ASSUME NEW e \in list
      PROVE  \E w \in places : pin(w[1])[w[2]] = e.obj
  <2>1. PICK g \in Guards : e.obj \in held[g]
    <3>1. Pinners(e.obj) # {}
      BY LockCountPinners, FS_EmptySet DEF IInv, AllPinned
    <3> QED
      BY <3>1 DEF Pinners
  <2>2. PICK i \in 1..count(g) : pin(g)[i] = e.obj
    BY <1>1, <2>1 DEF Bijection, Surjection
  <2>3. i \in 1..MaxBoxes
    BY <1>1, SizeAssumption
  <2>4. <<g, i>> \in places /\ <<g, i>>[1] = g /\ <<g, i>>[2] = i
    BY <2>3
  <2> QED
    BY <2>2, <2>4
<1>3. \A e \in list : f[e] \in places /\ pin(f[e][1])[f[e][2]] = e.obj
  BY <1>2
<1>4. f \in Injection(list, places)
  <2>1. f \in [list -> places]
    BY <1>3
  <2>2. \A d, e \in list : f[d] = f[e] => d = e
    BY <1>3 DEF IInv, OneListPerFile
  <2> QED
    BY <2>1, <2>2 DEF Injection, IsInjective
<1>5. /\ IsFiniteSet(places)
      /\ Cardinality(places) = Cardinality(Guards) * MaxBoxes
  <2>1. IsFiniteSet(1..MaxBoxes) /\ Cardinality(1..MaxBoxes) = MaxBoxes
    BY FS_Interval, SizeAssumption
  <2> QED
    BY <2>1, FiniteAssumption, FS_Product
<1> QED
  BY <1>4, <1>5, FS_Injection

\* A guard never pins more than the files it began with.
LEMMA PinsStep ==
    ASSUME IInv, FewPins, [Next]_vars, "stale" \notin Garbage
    PROVE  FewPins'
<1> USE DEF IInv
<1>1. SUFFICES ASSUME NEW h \in Guards
               PROVE  Cardinality(held'[h]) + Cardinality(todo'[h]) <= MaxBoxes
  BY DEF FewPins
<1>2. /\ IsFiniteSet(held[h]) /\ Cardinality(held[h]) \in Nat
      /\ IsFiniteSet(todo[h]) /\ Cardinality(todo[h]) \in Nat
      /\ Cardinality(held[h]) + Cardinality(todo[h]) <= MaxBoxes
  BY GuardFinite DEF FewPins
<1>3. CASE held'[h] = held[h] /\ todo'[h] = todo[h]
  BY <1>2, <1>3
<1>4. ASSUME NEW f \in todo[h], NEW o,
             held'[h] = held[h] \cup {o}, todo'[h] = todo[h] \ {f}
      PROVE  Cardinality(held'[h]) + Cardinality(todo'[h]) <= MaxBoxes
  <2>1. Cardinality(held'[h]) \in {Cardinality(held[h]), Cardinality(held[h]) + 1}
    BY <1>2, <1>4, FS_AddElement
  <2>2. Cardinality(todo'[h]) = Cardinality(todo[h]) - 1
    BY <1>2, <1>4, FS_RemoveElement
  <2> QED
    BY <1>2, <2>1, <2>2, SizeAssumption
<1>5. ASSUME held'[h] \subseteq held[h], todo'[h] \subseteq todo[h]
      PROVE  Cardinality(held'[h]) + Cardinality(todo'[h]) <= MaxBoxes
  <2>1. /\ Cardinality(held'[h]) <= Cardinality(held[h]) /\ Cardinality(held'[h]) \in Nat
        /\ Cardinality(todo'[h]) <= Cardinality(todo[h]) /\ Cardinality(todo'[h]) \in Nat
    BY <1>2, <1>5, FS_Subset, FS_CardinalityType
  <2> QED
    BY <1>2, <2>1, SizeAssumption
<1>6. ASSUME NEW F \in SUBSET Files, Cardinality(F) <= MaxBoxes,
             held'[h] = {}, todo'[h] = F
      PROVE  Cardinality(held'[h]) + Cardinality(todo'[h]) <= MaxBoxes
  <2>1. Cardinality(F) \in Nat
    BY FiniteAssumption, FS_Subset, FS_CardinalityType
  <2> QED
    BY <1>6, <2>1, FS_EmptySet, SizeAssumption
<1>7. ASSUME NEW g \in Guards,
             \/ Begin(g) \/ BeginInvalid(g) \/ LockHit(g) \/ LockMiss(g)
             \/ Unlock(g) \/ UnlockUninit(g) \/ Abandon(g)
      PROVE  Cardinality(held'[h]) + Cardinality(todo'[h]) <= MaxBoxes
  <2>1. CASE g # h
    BY <1>3, <1>7, <2>1
    DEF Begin, BeginInvalid, LockHit, LockMiss, Took, Unlock, UnlockUninit, Abandon, TypeOK
  <2>2. CASE g = h /\ Begin(g)
    BY <1>6, <2>2 DEF Begin, TypeOK, IdleHoldsNothing
  <2>3. CASE g = h /\ (BeginInvalid(g) \/ UnlockUninit(g))
    BY <1>3, <2>3 DEF BeginInvalid, UnlockUninit
  <2>4. CASE g = h /\ (LockHit(g) \/ LockMiss(g))
    <3>1. \E f \in todo[h], o \in Addrs : Took(h, f, o)
      BY <2>4 DEF LockHit, LockMiss, TypeOK
    <3> QED
      BY <1>4, <3>1 DEF Took, TypeOK
  <2>5. CASE g = h /\ (Unlock(g) \/ Abandon(g))
    BY <1>5, <2>5 DEF Unlock, Abandon, TypeOK
  <2> QED
    BY <1>7, <2>1, <2>2, <2>3, <2>4, <2>5
<1>8. CASE UNCHANGED vars \/ Exhausted
  BY <1>3, <1>8 DEF vars, Exhausted
<1> QED
  BY <1>7, <1>8 DEF Next

\* An insertion over the limit ends at the limit, or has thrown out every list
\* that is not pinned.
LEMMA MissBound ==
    ASSUME IInv, NEW g \in Guards, LockMiss(g)
    PROVE  Cardinality(list') <= MaxSize \/ AllPinned'
<1> USE DEF IInv, AllPinned
<1>1. PICK f \in todo[g], a \in Addrs \ Objs :
          /\ \A e \in list : e.id # f
          /\ \E V \in IF csize + 1 > MaxSize
                      THEN Evicted(list \cup {[id |-> f, obj |-> a, lock |-> 1]}, csize + 1)
                      ELSE {{}} :
                list' = (list \cup {[id |-> f, obj |-> a, lock |-> 1]}) \ V
  BY DEF LockMiss
<1> DEFINE new == [id |-> f, obj |-> a, lock |-> 1]
           grown == list \cup {new}
           U == Unlocked(grown)
<1>2. new \notin list
  BY <1>1 DEF Objs
<1>3. IsFiniteSet(grown) /\ Cardinality(grown) = csize + 1 /\ csize \in Nat
  BY <1>2, FS_AddElement DEF CountRight, TypeOK
<1>4. IsFiniteSet(U) /\ Cardinality(U) \in Nat
  BY <1>3, FS_Subset, FS_CardinalityType DEF Unlocked
<1>5. CASE csize + 1 > MaxSize
  <2>1. PICK V : V \in Evicted(grown, csize + 1) /\ list' = grown \ V
    BY <1>1, <1>5
  <2>2. V \subseteq U /\ Cardinality(V) = Smaller(Cardinality(U), (csize + 1) - MaxSize)
    BY <2>1, EvictedFacts
  <2>3. CASE Cardinality(V) = Cardinality(U)
    <3>1. V = U
      BY <1>4, <2>2, <2>3, FS_Subset
    <3> QED
      BY <2>1, <3>1 DEF Unlocked
  <2>4. CASE Cardinality(V) = (csize + 1) - MaxSize
    <3>1. V \subseteq grown
      BY <2>2 DEF Unlocked
    <3>2. Cardinality(grown \ V) = Cardinality(grown) - Cardinality(V)
      BY <1>3, <3>1, WithoutFacts
    <3>3. Cardinality(grown \ V) <= MaxSize
      BY <1>3, <2>4, <3>2, SizeAssumption
    <3> QED
      BY <2>1, <3>3
  <2> QED
    BY <2>2, <2>3, <2>4 DEF Smaller
<1>6. CASE ~(csize + 1 > MaxSize)
  <2>1. list' = grown
    BY <1>1, <1>6
  <2> QED
    BY <1>3, <1>6, <2>1, SizeAssumption
<1> QED
  BY <1>5, <1>6

\* The same, of the state after a step.
LEMMA PinnedFewNext ==
    IInv' /\ FewPins' /\ AllPinned' => BoundedByPins'
<1>1. IInv /\ FewPins /\ AllPinned => BoundedByPins
  BY PinnedFew DEF BoundedByPins
<1> QED
  BY <1>1, PTL

\* Only an insertion changes the number of lists.
LEMMA BoundStep ==
    ASSUME Bounded, [Next]_vars, "stale" \notin Garbage
    PROVE  Bounded'
<1>1. IInv' /\ FewPins'
  BY Inductive, PinsStep DEF Bounded
<1>2. ASSUME NEW g \in Guards, LockMiss(g)
      PROVE  BoundedByPins'
  <2>1. CASE Cardinality(list') <= MaxSize
    BY <2>1 DEF BoundedByPins
  <2>2. CASE AllPinned'
    BY <1>1, <2>2, PinnedFewNext
  <2> QED
    BY <1>2, <2>1, <2>2, MissBound DEF Bounded
<1>3. CASE csize' = csize
  <2>1. Cardinality(list') = Cardinality(list)
    BY <1>1, <1>3 DEF Bounded, IInv, CountRight
  <2> QED
    BY <1>1, <2>1 DEF Bounded, BoundedByPins
<1>4. (\E g \in Guards : LockMiss(g)) \/ csize' = csize
  BY DEF Next, vars, Exhausted, Begin, BeginInvalid, LockHit, Unlock, UnlockUninit, Abandon
<1> QED
  BY <1>1, <1>2, <1>3, <1>4 DEF Bounded

----------------------------------------------------------------------------
(* The theorems *)

\* The cache is empty and no guard has begun.
LEMMA Initially == Init => IInv
BY FS_EmptySet DEF Init, IInv, TypeOK, NoDangling, Objs, LockCount,
   OneListPerFile, IdleHoldsNothing, TodoUnheld, CountRight

\* The inductive invariant holds in every reachable state.
THEOREM Invariance ==
    ASSUME "stale" \notin Garbage
    PROVE  Spec => []IInv
BY Initially, Inductive, PTL DEF Spec

\* Type correctness of the cache and its guards: a count never goes below zero.
THEOREM TypeCorrect ==
    ASSUME "stale" \notin Garbage
    PROVE  Spec => []TypeOK
<1>1. IInv => TypeOK
  BY DEF IInv
<1> QED
  BY Invariance, <1>1, PTL

\* A list in use is never destroyed, whatever other queries lock and purge.
THEOREM NoDanglingThm ==
    ASSUME "stale" \notin Garbage
    PROVE  Spec => []NoDangling
<1>1. IInv => NoDangling
  BY DEF IInv
<1> QED
  BY Invariance, <1>1, PTL

\* The count of a list is the number of guards that pin it.
THEOREM LockCountThm ==
    ASSUME "stale" \notin Garbage
    PROVE  Spec => []LockCount
<1>1. IInv => LockCount
  BY DEF IInv
<1> QED
  BY Invariance, <1>1, PTL

\* A file is in memory at most once.
THEOREM OneListPerFileThm ==
    ASSUME "stale" \notin Garbage
    PROVE  Spec => []OneListPerFile
<1>1. IInv => OneListPerFile
  BY DEF IInv
<1> QED
  BY Invariance, <1>1, PTL

\* The cache stays within its limit or within what the guards pin, whatever
\* was left over from a crowded moment.
THEOREM BoundedByPinsThm ==
    ASSUME "stale" \notin Garbage
    PROVE  Spec => []BoundedByPins
<1>1. Init => FewPins /\ BoundedByPins
  BY FS_EmptySet, SizeAssumption DEF Init, FewPins, BoundedByPins
<1>2. Bounded => BoundedByPins
  BY DEF Bounded
<1>3. IInv /\ FewPins /\ BoundedByPins => Bounded
  BY DEF Bounded
<1>4. Init => IInv
  BY Initially
<1> QED
  BY <1>1, <1>2, <1>3, <1>4, BoundStep, PTL DEF Spec

\* The limit is compared with the real number of lists: the running count of
\* Lock and Purge never drifts from it.
THEOREM CountRightThm ==
    ASSUME "stale" \notin Garbage
    PROVE  Spec => []CountRight
<1>1. IInv => CountRight
  BY DEF IInv
<1> QED
  BY Invariance, <1>1, PTL

\* While a guard pins an address the list of the same file stays there: what
\* other guards insert, purge and release never puts another list in its place.
PinnedStays ==
    \A g \in Guards : \A e \in list :
        e.obj \in held[g] => \E d \in list' : d.id = e.id /\ d.obj = e.obj

\* A step keeps the lists, or takes only some that nobody pins.
LEMMA PinnedStaysStep ==
    ASSUME IInv, [Next]_vars, "stale" \notin Garbage
    PROVE  PinnedStays
<1> USE DEF IInv
<1> SUFFICES ASSUME NEW g \in Guards, NEW e \in list, e.obj \in held[g]
             PROVE  \E d \in list' : d.id = e.id /\ d.obj = e.obj
  BY DEF PinnedStays
<1>1. CASE list' = list
  BY <1>1
<1>2. ASSUME NEW h \in Guards, LockHit(h)
      PROVE  \E d \in list' : d.id = e.id /\ d.obj = e.obj
  <2>1. PICK c \in list : list' = (list \ {c}) \cup {[c EXCEPT !.lock = @ + 1]}
    BY <1>2 DEF LockHit
  <2>2. [c EXCEPT !.lock = @ + 1].id = c.id /\ [c EXCEPT !.lock = @ + 1].obj = c.obj
    BY DEF TypeOK
  <2> QED
    BY <2>1, <2>2
<1>3. ASSUME NEW h \in Guards, Unlock(h)
      PROVE  \E d \in list' : d.id = e.id /\ d.obj = e.obj
  <2>1. PICK o : list' = Drop(o)
    BY <1>3 DEF Unlock
  <2>2. [e EXCEPT !.lock = @ - 1].id = e.id /\ [e EXCEPT !.lock = @ - 1].obj = e.obj
    BY DEF TypeOK
  <2> QED
    BY <2>1, <2>2 DEF Drop
<1>4. ASSUME NEW h \in Guards, LockMiss(h)
      PROVE  \E d \in list' : d.id = e.id /\ d.obj = e.obj
  <2>1. PICK f \in todo[h], a \in Addrs \ Objs :
            \E V \in IF csize + 1 > MaxSize
                     THEN Evicted(list \cup {[id |-> f, obj |-> a, lock |-> 1]}, csize + 1)
                     ELSE {{}} :
                list' = (list \cup {[id |-> f, obj |-> a, lock |-> 1]}) \ V
    BY <1>4 DEF LockMiss
  <2>2. PICK V : /\ V = {} \/ V \in Evicted(list \cup {[id |-> f, obj |-> a, lock |-> 1]}, csize + 1)
                 /\ list' = (list \cup {[id |-> f, obj |-> a, lock |-> 1]}) \ V
    BY <2>1
  <2>3. \A d \in V : d.lock = 0
    <3>1. V \subseteq Unlocked(list \cup {[id |-> f, obj |-> a, lock |-> 1]})
      BY <2>2, EvictedFacts
    <3> QED
      BY <3>1 DEF Unlocked
  <2>4. e \notin V
    BY <2>3, UnlockedUnpinned
  <2> QED
    BY <2>2, <2>4
<1>5. \/ list' = list
      \/ \E h \in Guards : LockHit(h) \/ LockMiss(h) \/ Unlock(h)
  BY DEF Next, vars, Exhausted, Begin, BeginInvalid, UnlockUninit, Abandon
<1> QED
  BY <1>1, <1>2, <1>3, <1>4, <1>5

\* No step takes a pinned list from its address.
THEOREM PinnedStaysThm ==
    ASSUME "stale" \notin Garbage
    PROVE  Spec => [][PinnedStays]_vars
<1>1. IInv /\ [Next]_vars => [PinnedStays]_vars
  BY PinnedStaysStep
<1> QED
  BY Invariance, <1>1, PTL DEF Spec
====
