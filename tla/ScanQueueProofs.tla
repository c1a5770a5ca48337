---- MODULE ScanQueueProofs ----
(***************************************************************************)
(* No quad is taken for a second pass that had no first one: for any quads *)
(* and priorities, with the server and rw -scanbk each saving what it has  *)
(* loaded over what the other one saves, and killed at any point of a save.*)
(***************************************************************************)
EXTENDS ScanQueue, TLAPS

\* No quad of the list is there for a second pass that had no first one.
Passed(l) == \A q \in DOMAIN l : l[q] < 0 => data[q] # "none"

\* Nor in any list or call that may still be saved.
PassedEverywhere ==
    /\ Passed(file) /\ Passed(list)
    /\ adding # None => Passed(adding.list) /\ (adding.p < 0 => data[adding.q] # "none")
    /\ \A c \in asked : c.p < 0 => data[c.q] # "none"

\* What rw -scanbk knows of the quad it scans, and of Google, where it is.
Known ==
    /\ at = "scan" => /\ sym.p < 0 => data[sym.q] # "none"
                      /\ off => sym.p > 0
    /\ at \in {"again", "readd"} => sym.p > 0 /\ data[sym.q] = "google"
    /\ at \in {"done", "delete"} => \/ data[sym.q] = "good"
                                    \/ data[sym.q] = "google" /\ sym.p > 0

IInv == TypeOK /\ PassedEverywhere /\ Known

----------------------------------------------------------------------------
(* Lists *)

\* Priorities and their negatives are not zero.
LEMMA SignedFacts == \A p \in Signed : p \in Int /\ p # 0 /\ -p \in Signed
<1> TAKE p \in Signed
<1>1. PICK n \in Prios : n \in Nat \ {0} /\ (p = n \/ p = -n)
  BY PriosAssumption DEF Signed
<1>2. n \in Signed /\ -n \in Signed
  BY DEF Signed
<1>3. n = -(-n)
  BY <1>1
<1> QED
  BY <1>1, <1>2, <1>3

\* A list gives a nonzero priority to some of the quads.
LEMMA ListFacts ==
    ASSUME NEW l \in Lists
    PROVE  /\ DOMAIN l \subseteq Quads
           /\ l \in [DOMAIN l -> Signed]
           /\ \A q \in DOMAIN l : l[q] \in Int /\ l[q] # 0
BY PriosAssumption DEF Lists, Signed

\* The list with no quad.
LEMMA NothingIsList == Nothing \in Lists /\ DOMAIN Nothing = {}
BY DEF Nothing, Lists

\* What Added does: the quad is listed, with the new priority or the one it
\* had; a call for a second pass prevails; the others stay as they are.
LEMMA AddedFacts ==
    ASSUME NEW l \in Lists, NEW q \in Quads, NEW p \in Signed
    PROVE  /\ Added(l, q, p) \in Lists
           /\ DOMAIN Added(l, q, p) = DOMAIN l \cup {q}
           /\ \A x \in DOMAIN l \ {q} : Added(l, q, p)[x] = l[x]
           /\ Added(l, q, p)[q] = p \/ (p > 0 /\ q \in DOMAIN l /\ Added(l, q, p)[q] = l[q])
<1>1. /\ DOMAIN l \subseteq Quads /\ l \in [DOMAIN l -> Signed]
      /\ p \in Int /\ p # 0
  BY ListFacts, PriosAssumption DEF Signed
<1>2. Put(l, q, p) \in [DOMAIN l \cup {q} -> Signed] /\ DOMAIN l \cup {q} \in SUBSET Quads
  BY <1>1 DEF Put
<1>3. CASE Added(l, q, p) = Put(l, q, p)
  BY <1>2, <1>3 DEF Put, Lists
<1>4. CASE Added(l, q, p) = l /\ q \in DOMAIN l /\ ~(p < 0)
  BY <1>1, <1>4
<1> QED
  BY <1>3, <1>4 DEF Added

\* What Deleted does.
LEMMA DeletedFacts ==
    ASSUME NEW l \in Lists, NEW q
    PROVE  /\ Deleted(l, q) \in Lists
           /\ DOMAIN Deleted(l, q) = DOMAIN l \ {q}
           /\ \A x \in DOMAIN l \ {q} : Deleted(l, q)[x] = l[x]
<1>1. DOMAIN l \subseteq Quads /\ l \in [DOMAIN l -> Signed]
  BY ListFacts
<1>2. Deleted(l, q) \in [DOMAIN l \ {q} -> Signed]
  BY <1>1 DEF Deleted
<1> QED
  BY <1>1, <1>2 DEF Deleted, Lists

\* What a kill leaves of a list that is being saved: some of its entries.
LEMMA CutFacts ==
    ASSUME NEW l \in Lists, NEW c \in Cuts(l)
    PROVE  /\ c \in Lists /\ DOMAIN c \subseteq DOMAIN l
           /\ \A x \in DOMAIN c : c[x] = l[x]
           /\ Passed(l) => Passed(c)
<1>1. PICK D \in SUBSET DOMAIN l : c = [x \in D |-> l[x]]
  BY DEF Cuts
<1>2. DOMAIN l \subseteq Quads /\ l \in [DOMAIN l -> Signed]
  BY ListFacts
<1>3. c \in [D -> Signed] /\ D \in SUBSET Quads
  BY <1>1, <1>2
<1> QED
  BY <1>1, <1>3 DEF Lists, Passed

\* Adding a call for a second pass only when there was a first keeps the list
\* passed.
LEMMA AddedPassed ==
    ASSUME NEW l \in Lists, NEW q \in Quads, NEW p \in Signed,
           Passed(l), p < 0 => data[q] # "none"
    PROVE  Passed(Added(l, q, p))
<1> SUFFICES ASSUME NEW x \in DOMAIN Added(l, q, p), Added(l, q, p)[x] < 0
             PROVE  data[x] # "none"
  BY DEF Passed
<1> DEFINE new == Added(l, q, p)
<1>1. /\ x \in DOMAIN l \cup {q} /\ p \in Int
      /\ x # q => new[x] = l[x]
      /\ new[q] = p \/ (p > 0 /\ q \in DOMAIN l /\ new[q] = l[q])
  <2>1. /\ DOMAIN Added(l, q, p) = DOMAIN l \cup {q}
        /\ \A z \in DOMAIN l \ {q} : Added(l, q, p)[z] = l[z]
        /\ Added(l, q, p)[q] = p \/ (p > 0 /\ q \in DOMAIN l /\ Added(l, q, p)[q] = l[q])
    BY AddedFacts
  <2>2. p \in Int
    BY SignedFacts
  <2>3. x \in DOMAIN l \cup {q}
    BY <2>1
  <2>4. x # q => new[x] = l[x]
    BY <2>1, <2>3
  <2> QED
    BY <2>1, <2>2, <2>3, <2>4
<1>2. new[x] < 0
  OBVIOUS
<1> HIDE DEF new
<1> QED
  BY <1>1, <1>2 DEF Passed

----------------------------------------------------------------------------
(* The server *)

\* A query asks a second pass only of a quad that had its first.
LEMMA QueryStep ==
    ASSUME IInv, NEW q \in Quads, NEW p \in Prios, Query(q, p)
    PROVE  IInv'
<1> USE DEF IInv
<1> DEFINE c == [q |-> q, p |-> IF data[q] = "google" THEN -p ELSE p]
<1>1. /\ asked' = asked \cup {c} /\ asks' = asks + 1 /\ asks < MaxAsks
      /\ UNCHANGED <<file, google, adding, scanner, kills>>
  BY DEF Query
<1>2. c \in [q : Quads, p : Signed] /\ (c.p < 0 => data[c.q] # "none")
  BY PriosAssumption DEF Signed
<1>3. TypeOK'
  BY <1>1, <1>2, BoundsAssumption DEF TypeOK, google, scanner
<1>4. PassedEverywhere'
  BY <1>1, <1>2 DEF PassedEverywhere, Passed, google, scanner
<1>5. Known'
  BY <1>1 DEF Known, google, scanner
<1> QED
  BY <1>3, <1>4, <1>5

\* ScanAdd loads the list.
LEMMA AddLoadStep ==
    ASSUME IInv, AddLoad
    PROVE  IInv'
<1> USE DEF IInv
<1>1. PICK c \in asked : /\ adding' = [q |-> c.q, p |-> c.p, list |-> file]
                         /\ asked' = asked \ {c}
                         /\ UNCHANGED <<file, google, asks, scanner, kills>>
  BY DEF AddLoad
<1>2. TypeOK'
  BY <1>1 DEF TypeOK, google, scanner
<1>3. PassedEverywhere'
  BY <1>1 DEF PassedEverywhere, Passed, google, scanner
<1>4. Known'
  BY <1>1 DEF Known, google, scanner
<1> QED
  BY <1>2, <1>3, <1>4

\* What ScanAdd saves has no quad for a second pass that had no first one.
LEMMA AddingPassed ==
    ASSUME IInv, adding # None
    PROVE  LET new == Added(adding.list, adding.q, adding.p)
           IN new \in Lists /\ Passed(new)
<1>1. PICK l \in Lists, q \in Quads, p \in Signed :
          l = adding.list /\ q = adding.q /\ p = adding.p
  BY DEF IInv, TypeOK
<1>2. Added(l, q, p) \in Lists
  BY AddedFacts
<1>3. Passed(Added(l, q, p))
  BY <1>1, AddedPassed DEF IInv, PassedEverywhere
<1> QED
  BY <1>1, <1>2, <1>3

\* ScanAdd saves the list, or the server is killed, maybe while it saves it.
LEMMA AddSaveStep ==
    ASSUME IInv, AddSave \/ ServerKilled
    PROVE  IInv'
<1> USE DEF IInv
<1>1. /\ adding' = None /\ asked' \in {asked, {}}
      /\ UNCHANGED <<google, asks, scanner>>
  BY DEF AddSave, ServerKilled
<1>2. kills' \in 0..MaxKills
  BY BoundsAssumption DEF AddSave, ServerKilled, TypeOK
<1>3. file' \in Lists /\ Passed(file')
  <2>1. CASE UNCHANGED file
    BY <2>1 DEF TypeOK, PassedEverywhere
  <2>2. CASE adding # None
    <3> DEFINE new == Added(adding.list, adding.q, adding.p)
    <3>1. new \in Lists /\ Passed(new)
      BY <2>2, AddingPassed
    <3>2. file' = new \/ file' \in Cuts(new) \/ UNCHANGED file
      BY DEF AddSave, ServerKilled
    <3> HIDE DEF new
    <3> QED
      BY <2>1, <3>1, <3>2, CutFacts
  <2> QED
    BY <2>1, <2>2 DEF AddSave, ServerKilled
<1>4. TypeOK'
  BY <1>1, <1>2, <1>3 DEF TypeOK, google, scanner
<1>5. PassedEverywhere'
  BY <1>1, <1>3 DEF PassedEverywhere, Passed, google, scanner
<1>6. Known'
  BY <1>1 DEF Known, google, scanner
<1> QED
  BY <1>4, <1>5, <1>6

----------------------------------------------------------------------------
(* rw -scanbk *)

\* It picks a quad: without Google, one that is listed for a first pass.
LEMMA ToDoStep ==
    ASSUME IInv, ToDo
    PROVE  IInv'
<1> USE DEF IInv
<1>1. PICK q \in NextUp(file) : sym' = [q |-> q, p |-> file[q]]
  BY DEF ToDo
<1>2. /\ at = "todo" /\ at' = "scan"
      /\ UNCHANGED <<file, google, server, list, kills>>
  BY DEF ToDo
<1>3. q \in DOMAIN file /\ ~(off /\ file[q] < 0)
  <2>1. CASE off \/ \A x \in DOMAIN file : file[x] > 0
    BY <1>1, <2>1 DEF NextUp, First
  <2>2. CASE ~(off \/ \A x \in DOMAIN file : file[x] > 0)
    BY <1>1, <2>2 DEF NextUp, Back
  <2> QED
    BY <2>1, <2>2
<1>4. /\ q \in Quads /\ file[q] \in Signed /\ file[q] \in Int /\ file[q] # 0
  BY <1>3, ListFacts DEF TypeOK
<1>5. TypeOK'
  BY <1>1, <1>2, <1>4 DEF TypeOK, google, server
<1>6. PassedEverywhere'
  BY <1>2 DEF PassedEverywhere, Passed, google, server
<1>7. Known'
  BY <1>1, <1>2, <1>3, <1>4 DEF Known, PassedEverywhere, Passed, google
<1> QED
  BY <1>5, <1>6, <1>7

\* Where there is a quad, it is one of the list's.
LEMMA SymType ==
    ASSUME TypeOK, at # "todo"
    PROVE  sym.q \in Quads /\ sym.p \in Signed /\ sym.p \in Int /\ sym.p # 0
<1>1. sym \in [q : Quads, p : Signed]
  BY DEF TypeOK
<1> QED
  BY <1>1, SignedFacts

\* Scans only add to what is known of a quad.
LEMMA DataGrows ==
    ASSUME IInv, data' \in [Quads -> {"none", "google", "good", "cut"}],
           \A x \in Quads : data[x] # "none" => data'[x] # "none"
    PROVE  \A l \in Lists : Passed(l) => Passed(l)'
BY ListFacts DEF Passed

\* A scan that has nothing to do, fails, or leaves no errors.
LEMMA ScanEndStep ==
    ASSUME IInv, ScanValid \/ ScanFails \/ ScanGood
    PROVE  IInv'
<1> USE DEF IInv
<1>1. /\ at = "scan" /\ UNCHANGED <<file, server, sym, list, kills>>
      /\ off' \in BOOLEAN /\ at' \in {"done", "failed"}
  BY DEF ScanValid, ScanFails, ScanGood, Quota, google, TypeOK
<1>2. \/ UNCHANGED data
      \/ data' = [data EXCEPT ![sym.q] = "good"]
      \/ data' = [data EXCEPT ![sym.q] = "cut"]
  BY DEF ScanValid, ScanFails, ScanGood, Interrupted, google
<1>3. sym.q \in Quads /\ sym.p \in Int /\ sym.p # 0
  BY <1>1, SymType
<1>4. TypeOK'
  BY <1>1, <1>2 DEF TypeOK, server
<1>5. \A x \in Quads : data[x] # "none" => data'[x] # "none"
  BY <1>2, <1>3 DEF TypeOK
<1>6. PassedEverywhere'
  <2>1. \A l \in Lists : Passed(l) => Passed(l)'
    BY <1>4, <1>5, DataGrows DEF TypeOK
  <2> QED
    BY <1>1, <1>5, <2>1 DEF PassedEverywhere, TypeOK, server
<1>7. Known'
  BY <1>1, <1>3 DEF Known, ScanValid, Valid, ScanFails, ScanGood, google, TypeOK
<1> QED
  BY <1>4, <1>6, <1>7

\* A scan that leaves Google errors: a first pass is to be listed for a second.
LEMMA ScanGoogleStep ==
    ASSUME IInv, ScanGoogle
    PROVE  IInv'
<1> USE DEF IInv
<1>1. /\ at = "scan" /\ UNCHANGED <<file, server, list, kills>>
      /\ off' \in BOOLEAN
      /\ data' = [data EXCEPT ![sym.q] = "google"]
      /\ at' = IF sym.p > 0 THEN "again" ELSE "todo"
      /\ sym' = IF sym.p > 0 THEN sym ELSE None
  BY DEF ScanGoogle, Quota, TypeOK
<1>2. sym.q \in Quads /\ sym.p \in Int /\ sym.p # 0
  BY <1>1, SymType
<1>3. /\ data'[sym.q] = "google"
      /\ \A x \in Quads : data[x] # "none" => data'[x] # "none"
  BY <1>1, <1>2 DEF TypeOK
<1>4. TypeOK'
  BY <1>1, <1>2 DEF TypeOK, server
<1>5. PassedEverywhere'
  <2>1. \A l \in Lists : Passed(l) => Passed(l)'
    BY <1>3, <1>4, DataGrows DEF TypeOK
  <2> QED
    BY <1>1, <1>3, <2>1 DEF PassedEverywhere, TypeOK, server
<1>6. Known'
  BY <1>1, <1>3 DEF Known
<1> QED
  BY <1>4, <1>5, <1>6

\* It loads the list.
LEMMA LoadStep ==
    ASSUME IInv, Load
    PROVE  IInv'
<1> USE DEF IInv
<1>1. /\ list' = file /\ UNCHANGED <<file, google, server, sym, kills>>
      /\ \/ at = "again" /\ at' = "readd"
         \/ at = "done" /\ at' = "delete"
         \/ at = "failed" /\ at' = "drop"
  BY DEF Load
<1>2. TypeOK'
  BY <1>1 DEF TypeOK, google, server
<1>3. PassedEverywhere' /\ Known'
  BY <1>1 DEF PassedEverywhere, Passed, Known, google, server
<1> QED
  BY <1>2, <1>3

\* What it saves: the list with the quad for a second pass, after a first one,
\* or without the quad.
LEMMA SavedPassed ==
    ASSUME IInv
    PROVE  /\ at = "readd" => LET new == Added(list, sym.q, -sym.p)
                              IN new \in Lists /\ Passed(new)
           /\ LET new == Deleted(list, sym.q) IN new \in Lists /\ Passed(new)
<1>1. list \in Lists /\ Passed(list)
  BY DEF IInv, TypeOK, PassedEverywhere
<1>2. Deleted(list, sym.q) \in Lists /\ Passed(Deleted(list, sym.q))
  BY <1>1, DeletedFacts DEF Passed
<1>3. CASE at = "readd"
  <2>1. sym.q \in Quads /\ sym.p \in Signed /\ data[sym.q] # "none"
    BY <1>3, SymType DEF IInv, Known
  <2>2. -sym.p \in Signed
    BY <2>1, SignedFacts
  <2>3. -sym.p < 0 => data[sym.q] # "none"
    BY <2>1
  <2>4. Added(list, sym.q, -sym.p) \in Lists
    BY <1>1, <2>1, <2>2, AddedFacts
  <2>5. Passed(Added(list, sym.q, -sym.p))
    <3> DEFINE p == -sym.p
    <3> HIDE DEF p
    <3>1. p \in Signed /\ (p < 0 => data[sym.q] # "none")
      BY <2>2, <2>3 DEF p
    <3>2. Passed(Added(list, sym.q, p))
      BY <1>1, <2>1, <3>1, AddedPassed
    <3> QED
      BY <3>2 DEF p
  <2> QED
    BY <1>2, <2>4, <2>5
<1> QED
  BY <1>2, <1>3

\* It saves the list, or is killed, maybe while it scans or saves.
LEMMA SaveStep ==
    ASSUME IInv, Readd \/ Delete \/ Kill
    PROVE  IInv'
<1> USE DEF IInv
<1>1. /\ at' = "todo" /\ sym' = None /\ list' = Nothing /\ off' \in BOOLEAN
      /\ UNCHANGED server /\ kills' \in 0..MaxKills
  <2>1. kills \in 0..MaxKills /\ off \in BOOLEAN
    BY DEF TypeOK
  <2>2. CASE Readd \/ Delete
    BY <2>1, <2>2 DEF Readd, Delete, google
  <2>3. CASE Kill
    <3>1. kills < MaxKills /\ kills' = kills + 1
      BY <2>3 DEF Kill
    <3>2. kills' \in 0..MaxKills
      BY <2>1, <3>1, BoundsAssumption
    <3> QED
      BY <2>3, <3>2 DEF Kill
  <2> QED
    BY <2>2, <2>3
<1>2. /\ data' \in [Quads -> {"none", "google", "good", "cut"}]
      /\ \A x \in Quads : data[x] # "none" => data'[x] # "none"
  <2>1. UNCHANGED data \/ data' = [data EXCEPT ![sym.q] = "cut"]
    BY DEF Readd, Delete, Kill, Interrupted, google
  <2> QED
    BY <2>1 DEF TypeOK
<1>3. \A l \in Lists : Passed(l) => Passed(l)'
  BY <1>2, DataGrows
<1>4. file' \in Lists /\ Passed(file')
  <2>1. file \in Lists /\ Passed(file)
    BY DEF TypeOK, PassedEverywhere
  <2>2. CASE at = "readd" /\ file' = Added(list, sym.q, -sym.p)
    BY <2>2, SavedPassed
  <2>3. CASE file' = Deleted(list, sym.q)
    BY <2>3, SavedPassed
  <2>4. CASE at = "readd" /\ file' \in Cuts(Added(list, sym.q, -sym.p))
    BY <2>4, SavedPassed, CutFacts
  <2>5. CASE file' \in Cuts(Deleted(list, sym.q))
    BY <2>5, SavedPassed, CutFacts
  <2> QED
    BY <2>1, <2>2, <2>3, <2>4, <2>5 DEF Readd, Delete, Kill
<1>5. TypeOK'
  BY <1>1, <1>2, <1>4, NothingIsList DEF TypeOK, server
<1>6. PassedEverywhere'
  <2>1. Passed(file)' /\ Passed(Nothing)'
    BY <1>3, <1>4, NothingIsList DEF Passed
  <2> QED
    BY <1>1, <1>2, <1>3, <2>1 DEF PassedEverywhere, TypeOK, server
<1>7. Known'
  BY <1>1 DEF Known
<1> QED
  BY <1>5, <1>6, <1>7

\* Google comes back.
LEMMA EnableStep ==
    ASSUME IInv, Enable
    PROVE  IInv'
<1>1. UNCHANGED <<file, data, server, scanner, kills>> /\ off' = FALSE
  BY DEF Enable
<1> QED
  BY <1>1 DEF IInv, TypeOK, PassedEverywhere, Passed, Known, server, scanner

----------------------------------------------------------------------------
(* The theorems *)

\* Every step keeps the inductive invariant.
LEMMA Inductive ==
    ASSUME IInv, [Next]_vars
    PROVE  IInv'
<1>1. CASE UNCHANGED vars
  BY <1>1 DEF vars, google, server, scanner, IInv, TypeOK, PassedEverywhere, Passed, Known
<1>2. CASE \E q \in Quads, p \in Prios : Query(q, p)
  BY <1>2, QueryStep
<1>3. CASE Server \/ ServerKilled
  BY <1>3, AddLoadStep, AddSaveStep DEF Server
<1>4. CASE Scanner \/ Kill
  BY <1>4, ToDoStep, ScanEndStep, ScanGoogleStep, LoadStep, SaveStep DEF Scanner
<1> QED
  BY <1>1, <1>2, <1>3, <1>4, EnableStep DEF Next

\* The inductive invariant holds in every reachable state.
THEOREM Invariance == Spec => []IInv
<1>1. Init => IInv
  <2> SUFFICES ASSUME Init PROVE IInv
    OBVIOUS
  <2>1. TypeOK
    <3>1. 0 \in 0..MaxAsks /\ 0 \in 0..MaxKills
      BY BoundsAssumption
    <3>2. /\ file \in Lists /\ list \in Lists /\ asks = 0 /\ kills = 0
          /\ data \in [Quads -> {"none", "google", "good", "cut"}]
          /\ off = FALSE /\ asked = {} /\ adding = None /\ at = "todo" /\ sym = None
      BY NothingIsList DEF Init
    <3> QED
      BY <3>1, <3>2 DEF TypeOK
  <2>2. PassedEverywhere
    BY NothingIsList DEF Init, PassedEverywhere, Passed
  <2>3. Known
    BY DEF Init, Known
  <2> QED
    BY <2>1, <2>2, <2>3 DEF IInv
<1> QED
  BY <1>1, Inductive, PTL DEF Spec

\* Types of the list, of the calls that wait to change it, and of rw -scanbk.
THEOREM TypeCorrect == Spec => []TypeOK
<1>1. IInv => TypeOK
  BY DEF IInv
<1> QED
  BY Invariance, <1>1, PTL

\* No quad is listed for a second pass that had no first one.
THEOREM FirstPassDoneThm == Spec => []FirstPassDone
<1>1. IInv => FirstPassDone
  BY DEF IInv, PassedEverywhere, Passed, FirstPassDone
<1> QED
  BY Invariance, <1>1, PTL
====
