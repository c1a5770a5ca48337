---- MODULE ArchiveSlot ----
(***************************************************************************)
(* What the archive cache promises its clients, without files, handles,    *)
(* pipes or threads: a slot that is empty, being built or holds a closed   *)
(* archive, and answers that are each the content of the slot at one       *)
(* instant at which it was not being built.  Builds are numbered.          *)
(***************************************************************************)
EXTENDS Naturals

CONSTANTS Requests,      \* all requests
          KmlRequests    \* those answered without the slot

VARIABLES slot,     \* the content: [kind, gen]
          last,     \* number of builds begun
          answer    \* what each request got

slotVars == <<slot, last, answer>>

NoArchive == [kind |-> "absent", gen |-> 0]
Pending == [kind |-> "pending", gen |-> 0]
Lost == [kind |-> "lost", gen |-> 0]
Streams == {[kind |-> "kml", gen |-> 0], [kind |-> "mixed", gen |-> 0]}
ClosedKinds == {"good", "bad", "torn", "stub"}

BeingBuilt == slot.kind = "open"

Give(r, a) ==
    /\ answer[r] = Pending
    /\ answer' = [answer EXCEPT ![r] = a]

Init ==
    /\ slot \in {NoArchive, [kind |-> "good", gen |-> 0]}
    /\ last = 0
    /\ answer = [r \in Requests |-> Pending]

Build ==
    /\ ~BeingBuilt
    /\ last' = last + 1
    /\ slot' = [kind |-> "open", gen |-> last + 1]
    /\ UNCHANGED answer

Seal ==
    /\ BeingBuilt
    /\ \E k \in ClosedKinds : slot' = [slot EXCEPT !.kind = k]
    /\ UNCHANGED <<last, answer>>

\* the answer is the closed archive as it is now
Serve(r) ==
    /\ slot.kind \in ClosedKinds
    /\ Give(r, slot)
    /\ UNCHANGED <<slot, last>>

\* no answer but for a slot that cannot be read now
Refuse(r) ==
    /\ slot.kind \in {"absent", "open"}
    /\ Give(r, NoArchive)
    /\ UNCHANGED <<slot, last>>

\* a request whose query failed gets nothing, and may empty the slot
Discard(r) ==
    /\ r \notin KmlRequests
    /\ Give(r, NoArchive)
    /\ slot' = slot \/ (~BeingBuilt /\ slot' = NoArchive)
    /\ UNCHANGED last

Relay(r) ==
    /\ r \in KmlRequests
    /\ \E a \in Streams \cup {NoArchive} : Give(r, a)
    /\ UNCHANGED <<slot, last>>

\* the server dies: some requests are lost, a build ends where it is
Crash ==
    /\ \E R \in SUBSET {r \in Requests : answer[r] = Pending} :
          answer' = [r \in Requests |-> IF r \in R THEN Lost ELSE answer[r]]
    /\ IF BeingBuilt
       THEN \E k \in {"torn", "stub"} : slot' = [slot EXCEPT !.kind = k]
       ELSE UNCHANGED slot
    /\ UNCHANGED last

Next ==
    \/ Build \/ Seal \/ Crash
    \/ \E r \in Requests : Serve(r) \/ Refuse(r) \/ Discard(r) \/ Relay(r)

Spec == Init /\ [][Next]_slotVars
====
