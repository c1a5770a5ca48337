---- MODULE ScanQueue ----
(***************************************************************************)
(* The list of quads to scan (class ScanList and its file SCAN.csv).  The  *)
(* threads of the server add quads; another process, rw -scanbk, takes the *)
(* next one, scans it and deletes it.  A quad is scanned with Google       *)
(* elevations when they can be had; one left with Google errors goes back  *)
(* into the list with the negative of its priority, for a second pass.     *)
(* Each operation loads the file, changes the list and saves it.  The lock *)
(* CC keeps the threads of one process apart, not the two processes; the   *)
(* file itself is locked only while it is read or written.  A save writes  *)
(* over the old file, so that a process killed in one leaves a part of it. *)
(* This is rw -scanbk with the default -TMODE, -1.                         *)
(***************************************************************************)
EXTENDS Integers

CONSTANTS Quads, Prios, None,
          MaxAsks,   \* bound on the queries
          MaxKills   \* bound on the times a process is killed

ASSUME PriosAssumption == Prios \subseteq Nat \ {0}
ASSUME BoundsAssumption == MaxAsks \in Nat /\ MaxKills \in Nat

VARIABLES file,    \* SCAN.csv: the priority of each quad in it
          data,    \* the scan of a quad: "none", "google" (with errors), "good",
                   \* "cut" (one with errors, overwritten by part of another)
          off,     \* scangONkey of rw -scanbk is disabled
          asked,   \* calls of ScanAdd of the server waiting for CC
          adding,  \* the one that holds CC, with the list it loaded, or None
          at,      \* where rw -scanbk is
          sym,     \* the quad it scans, with the priority it had, or None
          list,    \* the list it has loaded
          asks, kills

vars == <<file, data, off, asked, adding, at, sym, list, asks, kills>>

google == <<data, off>>
server == <<asked, adding, asks>>
scanner == <<at, sym, list>>

Nothing == [q \in {} |-> 0]

Init ==
    /\ file = Nothing /\ data = [q \in Quads |-> "none"] /\ off = FALSE
    /\ asked = {} /\ adding = None /\ asks = 0
    /\ at = "todo" /\ sym = None /\ list = Nothing /\ kills = 0

----------------------------------------------------------------------------
(* The list                                                                *)

Abs(p) == IF p < 0 THEN -p ELSE p

Put(l, q, p) == [x \in DOMAIN l \cup {q} |-> IF x = q THEN p ELSE l[x]]

\* mutant: the priorities of the calls are added up
AddedSum(l, q, p) == Put(l, q, IF q \in DOMAIN l THEN l[q] + p ELSE p)

\* a higher priority, or a call for a second pass, replaces the old one
Added(l, q, p) ==
    IF q \notin DOMAIN l \/ Abs(p) > Abs(l[q]) \/ p < 0 THEN Put(l, q, p) ELSE l

Deleted(l, q) == [x \in DOMAIN l \ {q} |-> l[x]]

\* the list is sorted by priority, highest first; the order of equals, which
\* depends on when they were added, is left open
First(l) == {q \in DOMAIN l : \A x \in DOMAIN l : l[x] <= l[q]}
Back(l) == {q \in DOMAIN l : \A x \in DOMAIN l : l[x] >= l[q]}

\* mutant: a list that ends in second passes is left alone
NextUpFirst(l) == {q \in First(l) : l[q] > 0}

\* the last one when it is a second pass and Google can be used, otherwise the
\* first one, unless only second passes are left and Google is disabled
NextUp(l) ==
    IF off \/ \A q \in DOMAIN l : l[q] > 0
    THEN {q \in First(l) : ~(off /\ l[q] < 0)}
    ELSE Back(l)

\* the file when a process is killed while it saves l, line by line in order; a
\* line of which only a part was written is taken for one that was not
Cuts(l) == {[x \in D |-> l[x]] : D \in
                {E \in SUBSET DOMAIN l : \A x \in E, y \in DOMAIN l \ E : l[x] >= l[y]}}

----------------------------------------------------------------------------
(* The server                                                              *)

\* mutant: every quad that is not complete is asked a second pass
QueryAgain(q, p) ==
    /\ asks < MaxAsks /\ data[q] # "good"
    /\ asked' = asked \cup {[q |-> q, p |-> -p]}
    /\ asks' = asks + 1
    /\ UNCHANGED <<file, google, adding, scanner, kills>>

\* a query looks at the scan of a quad, and calls ScanAdd
Query(q, p) ==
    /\ asks < MaxAsks /\ data[q] # "good"
    /\ asked' = asked \cup {[q |-> q, p |-> IF data[q] = "google" THEN -p ELSE p]}
    /\ asks' = asks + 1
    /\ UNCHANGED <<file, google, adding, scanner, kills>>

AddLoad ==
    /\ adding = None
    /\ \E c \in asked :
          /\ adding' = [q |-> c.q, p |-> c.p, list |-> file]
          /\ asked' = asked \ {c}
    /\ UNCHANGED <<file, google, asks, scanner, kills>>

AddSave ==
    /\ adding # None
    /\ file' = Added(adding.list, adding.q, adding.p)
    /\ adding' = None
    /\ UNCHANGED <<google, asked, asks, scanner, kills>>

\* the watchdog kills the server: the calls that wait are gone, and of the list
\* that is being saved a part is in the file
ServerKilled ==
    /\ kills < MaxKills
    /\ kills' = kills + 1
    /\ \/ UNCHANGED file
       \/ adding # None /\ file' \in Cuts(Added(adding.list, adding.q, adding.p))
    /\ asked' = {} /\ adding' = None
    /\ UNCHANGED <<google, asks, scanner>>

----------------------------------------------------------------------------
(* rw -scanbk                                                              *)

\* when there is nothing to do it sleeps for a minute and looks again
ToDo ==
    /\ at = "todo"
    /\ \E q \in NextUp(file) : sym' = [q |-> q, p |-> file[q]]
    /\ at' = "scan"
    /\ UNCHANGED <<file, google, server, list, kills>>

\* without Google, its errors do not count
Valid == data[sym.q] = "good" \/ (data[sym.q] = "google" /\ off)

\* there is nothing to scan
ScanValid ==
    /\ at = "scan" /\ Valid
    /\ at' = "done"
    /\ UNCHANGED <<file, google, server, sym, list, kills>>

\* a scan runs out of the quota of Google, or does not
Quota == off' \in {off, TRUE}

\* a scan that does not get to its end may have saved its progress, which is not
\* complete and is in the place of what the quad had
Interrupted ==
    \/ UNCHANGED data
    \/ ~Valid /\ data[sym.q] = "google" /\ data' = [data EXCEPT ![sym.q] = "cut"]

\* a scan that fails or crashes is not tried again.  (With -TMODE 1 only, one
\* that runs out of quota fails too, after it has saved what it has.)
ScanFails ==
    /\ at = "scan" /\ Quota /\ Interrupted
    /\ at' = "failed"
    /\ UNCHANGED <<file, server, sym, list, kills>>

\* no errors are left
ScanGood ==
    /\ at = "scan" /\ ~Valid /\ Quota
    /\ data' = [data EXCEPT ![sym.q] = "good"]
    /\ at' = "done"
    /\ UNCHANGED <<file, server, sym, list, kills>>

\* a first pass is asked a second one; a second pass stays where it is
ScanGoogle ==
    /\ at = "scan" /\ ~Valid /\ Quota
    /\ data' = [data EXCEPT ![sym.q] = "google"]
    /\ at' = IF sym.p > 0 THEN "again" ELSE "todo"
    /\ sym' = IF sym.p > 0 THEN sym ELSE None
    /\ UNCHANGED <<file, server, list, kills>>

Load ==
    /\ at \in {"again", "done", "failed"}
    /\ list' = file
    /\ at' = CASE at = "again" -> "readd" [] at = "done" -> "delete"
               [] at = "failed" -> "drop"
    /\ UNCHANGED <<file, google, server, sym, kills>>

\* ScanAdd with the negative priority
Readd ==
    /\ at = "readd"
    /\ file' = Added(list, sym.q, -sym.p)
    /\ at' = "todo" /\ sym' = None /\ list' = Nothing
    /\ UNCHANGED <<google, server, kills>>

\* ToDone deletes the entry of the quad, even one that was changed after it was
\* picked
Delete ==
    /\ at \in {"delete", "drop"}
    /\ file' = IF sym.q \in DOMAIN list THEN Deleted(list, sym.q) ELSE file
    /\ at' = "todo" /\ sym' = None /\ list' = Nothing
    /\ UNCHANGED <<google, server, kills>>

\* the process is killed and started again: what it held in memory is gone, that
\* Google is disabled included, and what it was saving is saved in part
Kill ==
    /\ kills < MaxKills
    /\ kills' = kills + 1
    /\ off' = FALSE
    /\ IF at = "scan" THEN Interrupted ELSE UNCHANGED data
    /\ \/ UNCHANGED file
       \/ at = "readd" /\ file' \in Cuts(Added(list, sym.q, -sym.p))
       \/ /\ at \in {"delete", "drop"} /\ sym.q \in DOMAIN list
          /\ file' \in Cuts(Deleted(list, sym.q))
    /\ at' = "todo" /\ sym' = None /\ list' = Nothing
    /\ UNCHANGED server

\* the time for which the key is disabled is over
Enable == off /\ off' = FALSE /\ UNCHANGED <<file, data, server, scanner, kills>>

Scanner == ToDo \/ ScanValid \/ ScanFails \/ ScanGood \/ ScanGoogle
           \/ Load \/ Readd \/ Delete
Server == AddLoad \/ AddSave

Next == \/ \E q \in Quads, p \in Prios : Query(q, p)
        \/ Server \/ Scanner \/ ServerKilled \/ Kill \/ Enable

Spec == Init /\ [][Next]_vars

\* both processes run, Google comes back after each time it was disabled, and a
\* scan that is tried again and again while it can be asked succeeds
FairSpec == /\ Spec
            /\ WF_vars(Server) /\ WF_vars(Scanner)
            /\ WF_vars(Enable) /\ SF_vars(ScanGood)

----------------------------------------------------------------------------
Signed == Prios \cup {-p : p \in Prios}
Lists == UNION {[D -> Signed] : D \in SUBSET Quads}

TypeOK ==
    /\ file \in Lists /\ list \in Lists
    /\ data \in [Quads -> {"none", "google", "good", "cut"}]
    /\ off \in BOOLEAN
    /\ asked \subseteq [q : Quads, p : Signed]
    /\ adding \in {None} \cup [q : Quads, p : Signed, list : Lists]
    /\ at \in {"todo", "scan", "again", "done", "failed", "readd", "delete", "drop"}
    /\ sym \in IF at = "todo" THEN {None} ELSE [q : Quads, p : Signed]
    /\ asks \in 0..MaxAsks /\ kills \in 0..MaxKills

\* A second pass waits for Google, which may be disabled for a day: no quad that
\* had no first pass is listed for one, whatever the two processes undo of each
\* other and wherever they are killed.
FirstPassDone == \A q \in DOMAIN file : file[q] < 0 => data[q] # "none"

\* When queries stop and Google answers, the list becomes empty, although second
\* passes go first and stay in the list each time they fail.
Drained == <>[](file = Nothing)
====
