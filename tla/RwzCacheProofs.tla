---- MODULE RwzCacheProofs ----
(***************************************************************************)
(* Safety of the archive cache for any number of requests and any faults,  *)
(* and its refinement of ArchiveSlot.                                      *)
(***************************************************************************)
EXTENDS RwzCache, TLAPS

\* The phases of a nozip request
KmlPhases == {"idle", "pipe", "drain", "done", "lost"}

\* A request holds the handle its phase says it holds, and no other.
Handles ==
    /\ \A r \in Requests : writer = r <=> (r \notin KmlRequests /\ pc[r] \in Building)
    /\ \A r \in Requests : r \in readers <=> pc[r] \in Reading
    /\ \A r \in KmlRequests : pc[r] \in KmlPhases

\* The share modes: a file that is written has no readers, and one that is
\* read exists; it is open exactly while it has a writer.
Shares ==
    /\ readers # {} => writer = NoOne /\ Exists
    /\ file.kind = "open" <=> writer # NoOne
    /\ ~Exists => file = Nothing

\* A transfer sends the content that was there when it began.
Transfers ==
    \A r \in Requests : pc[r] = "send" => head[r] = file

\* Builds are numbered in order, and the file never falls behind a build that
\* its request still wants to serve.
Builds ==
    /\ \A r \in Requests : built[r] <= gen
    /\ \A r \in KmlRequests : built[r] = 0
    /\ \A r \in Requests :
          pc[r] \in {"idle", "open", "check", "create"} => built[r] = 0
    /\ \A r \in Requests : writer = r => file.gen = built[r]
    /\ \A r \in Requests :
          pc[r] \in {"decide", "serve", "send"} /\ Exists => file.gen >= built[r]

\* Only an answered request has a body.
Answers ==
    \A r \in Requests : pc[r] # "done" => body[r] = Nothing

\* A file without an end is what a killed build left: the kill loses the build
\* for ever, and takes the file's writer with it.
Wrecks ==
    /\ writer # NoOne => file.gen > 0
    /\ Wreck(file) => Interrupted(file)

IInv == /\ TypeOK /\ Handles /\ Shares /\ Transfers /\ Builds /\ Answers /\ Wrecks
        /\ ServedWhole /\ NeverOlderThanBuilt

\* Every step keeps the types.
LEMMA TypeOKStep ==
    ASSUME TypeOK, [Next]_vars
    PROVE  TypeOK'
<1> USE RequestsAssumption DEF Goto, Reply, Deliver, Exists, Readable, Unopened, InFlight, Building, Reading, Nothing, Mixed, Relayed,
        TypeOK, Kinds, Content, Phases
<1>1. ASSUME NEW r \in Requests, FindCached(r) PROVE TypeOK'
  BY <1>1 DEF FindCached
<1>2. ASSUME NEW r \in Requests, Compute(r) PROVE TypeOK'
  BY <1>2 DEF Compute
<1>3. ASSUME NEW r \in Requests, Open(r) PROVE TypeOK'
  BY <1>3 DEF Open
<1>4. ASSUME NEW r \in Requests, Refuse(r) PROVE TypeOK'
  BY <1>4 DEF Refuse
<1>5. ASSUME NEW r \in Requests, ServeCached(r) PROVE TypeOK'
  BY <1>5 DEF ServeCached
<1>6. ASSUME NEW r \in Requests, Expired(r) PROVE TypeOK'
  BY <1>6 DEF Expired
<1>7. ASSUME NEW r \in Requests, Sent(r) PROVE TypeOK'
  BY <1>7 DEF Sent
<1>8. ASSUME NEW r \in Requests, CreateZip(r) PROVE TypeOK'
  BY <1>8 DEF CreateZip
<1>9. ASSUME NEW r \in Requests, CreateBusy(r) PROVE TypeOK'
  BY <1>9 DEF CreateBusy
<1>10. ASSUME NEW r \in Requests, StartQuery(r) PROVE TypeOK'
  BY <1>10 DEF StartQuery
<1>11. ASSUME NEW r \in Requests, StartNothing(r) PROVE TypeOK'
  BY <1>11 DEF StartNothing
<1>12. ASSUME NEW r \in Requests, PipeFails(r) PROVE TypeOK'
  BY <1>12 DEF PipeFails
<1>13. ASSUME NEW r \in Requests, DrainAll(r) PROVE TypeOK'
  <2>1. Relayed \in Content
    BY DEF Relayed, Content
  <2>2. body' \in [Requests -> Content]
    BY <1>13, <2>1 DEF DrainAll
  <2> QED
    BY <1>13, <2>2 DEF DrainAll
<1>14. ASSUME NEW r \in Requests, DrainCut(r) PROVE TypeOK'
  <2>1. Mixed \in Content
    BY DEF Mixed, Content
  <2>2. body' \in [Requests -> Content]
    BY <1>14, <2>1 DEF DrainCut
  <2>3. doc' \in [Requests -> {"none", "part", "whole"}]
    BY <1>14 DEF DrainCut
  <2>4. \E p \in Phases : pc' = [pc EXCEPT ![r] = p]
    BY <1>14 DEF DrainCut
  <2> QED
    BY <1>14, <2>2, <2>3, <2>4 DEF DrainCut
<1>15. ASSUME NEW r \in Requests, CloseZip(r) PROVE TypeOK'
  BY <1>15 DEF CloseZip
<1>16. ASSUME NEW r \in Requests, KeepZip(r) PROVE TypeOK'
  BY <1>16 DEF KeepZip
<1>17. ASSUME NEW r \in Requests, DeleteZip(r) PROVE TypeOK'
  BY <1>17 DEF DeleteZip
<1>18. ASSUME NEW r \in Requests, ServeOpen(r) PROVE TypeOK'
  BY <1>18 DEF ServeOpen
<1>19. ASSUME NEW r \in Requests, ServeNothing(r) PROVE TypeOK'
  BY <1>19 DEF ServeNothing
<1>20. ASSUME NEW r \in Requests, QueryReturns(r) PROVE TypeOK'
  <2>1. PICK result \in BOOLEAN : ok' = [ok EXCEPT ![r] = result]
    BY <1>20 DEF QueryReturns
  <2> QED
    BY <1>20, <2>1 DEF QueryReturns
<1>21. ASSUME NEW r \in Requests, WorkerEnds(r) PROVE TypeOK'
  BY <1>21 DEF WorkerEnds
<1>22. CASE Expire
  BY <1>22 DEF Expire
<1>23. CASE Kill
  BY <1>23 DEF Kill
<1>24. CASE UNCHANGED vars
  BY <1>24 DEF vars
<1> QED
  BY <1>1, <1>2, <1>3, <1>4, <1>5, <1>6, <1>7, <1>8, <1>9, <1>10, <1>11, <1>12,
     <1>13, <1>14, <1>15, <1>16, <1>17, <1>18, <1>19, <1>20, <1>21, <1>22, <1>23, <1>24
     DEF Next, RequestStep, WorkerStep, Terminated

\* Every step keeps handles and phases in agreement: an action takes a handle
\* exactly when it enters a phase that owns one.
LEMMA HandlesStep ==
    ASSUME TypeOK, Handles, [Next]_vars
    PROVE  Handles'
<1> USE RequestsAssumption DEF Goto, Reply, Deliver, Exists, Readable, Unopened, InFlight, Building, Reading, Nothing, Mixed, Relayed,
        TypeOK, Handles, KmlPhases, Phases
<1>1. ASSUME NEW r \in Requests, FindCached(r) PROVE Handles'
  BY <1>1 DEF FindCached
<1>2. ASSUME NEW r \in Requests, Compute(r) PROVE Handles'
  BY <1>2 DEF Compute
<1>3. ASSUME NEW r \in Requests, Open(r) PROVE Handles'
  BY <1>3 DEF Open
<1>4. ASSUME NEW r \in Requests, Refuse(r) PROVE Handles'
  BY <1>4 DEF Refuse
<1>5. ASSUME NEW r \in Requests, ServeCached(r) PROVE Handles'
  BY <1>5 DEF ServeCached
<1>6. ASSUME NEW r \in Requests, Expired(r) PROVE Handles'
  BY <1>6 DEF Expired
<1>7. ASSUME NEW r \in Requests, Sent(r) PROVE Handles'
  BY <1>7 DEF Sent
<1>8. ASSUME NEW r \in Requests, CreateZip(r) PROVE Handles'
  BY <1>8 DEF CreateZip
<1>9. ASSUME NEW r \in Requests, CreateBusy(r) PROVE Handles'
  BY <1>9 DEF CreateBusy
<1>10. ASSUME NEW r \in Requests, StartQuery(r) PROVE Handles'
  BY <1>10 DEF StartQuery
<1>11. ASSUME NEW r \in Requests, StartNothing(r) PROVE Handles'
  BY <1>11 DEF StartNothing
<1>12. ASSUME NEW r \in Requests, PipeFails(r) PROVE Handles'
  BY <1>12 DEF PipeFails
<1>13. ASSUME NEW r \in Requests, DrainAll(r) PROVE Handles'
  BY <1>13 DEF DrainAll
<1>14. ASSUME NEW r \in Requests, DrainCut(r) PROVE Handles'
  BY <1>14 DEF DrainCut
<1>15. ASSUME NEW r \in Requests, CloseZip(r) PROVE Handles'
  BY <1>15 DEF CloseZip
<1>16. ASSUME NEW r \in Requests, KeepZip(r) PROVE Handles'
  BY <1>16 DEF KeepZip
<1>17. ASSUME NEW r \in Requests, DeleteZip(r) PROVE Handles'
  BY <1>17 DEF DeleteZip
<1>18. ASSUME NEW r \in Requests, ServeOpen(r) PROVE Handles'
  BY <1>18 DEF ServeOpen
<1>19. ASSUME NEW r \in Requests, ServeNothing(r) PROVE Handles'
  BY <1>19 DEF ServeNothing
<1>20. ASSUME NEW r \in Requests, QueryReturns(r) PROVE Handles'
  BY <1>20 DEF QueryReturns
<1>21. ASSUME NEW r \in Requests, WorkerEnds(r) PROVE Handles'
  BY <1>21 DEF WorkerEnds
<1>22. CASE Expire
  BY <1>22 DEF Expire
<1>23. CASE Kill
  BY <1>23 DEF Kill
<1>24. CASE UNCHANGED vars
  BY <1>24 DEF vars
<1> QED
  BY <1>1, <1>2, <1>3, <1>4, <1>5, <1>6, <1>7, <1>8, <1>9, <1>10, <1>11, <1>12,
     <1>13, <1>14, <1>15, <1>16, <1>17, <1>18, <1>19, <1>20, <1>21, <1>22, <1>23, <1>24
     DEF Next, RequestStep, WorkerStep, Terminated

\* Every step respects the share modes: CreateZip and DeleteZip need the file
\* unopened, Open and ServeOpen need it without a writer.
LEMMA SharesStep ==
    ASSUME TypeOK, Handles, Shares, [Next]_vars
    PROVE  Shares'
<1> USE RequestsAssumption DEF Goto, Reply, Deliver, Exists, Readable, Unopened, InFlight, Building, Reading, Nothing, Mixed, Relayed,
        TypeOK, Handles, Shares, Kinds, KmlPhases
<1>1. ASSUME NEW r \in Requests, FindCached(r) PROVE Shares'
  BY <1>1 DEF FindCached
<1>2. ASSUME NEW r \in Requests, Compute(r) PROVE Shares'
  BY <1>2 DEF Compute
<1>3. ASSUME NEW r \in Requests, Open(r) PROVE Shares'
  BY <1>3 DEF Open
<1>4. ASSUME NEW r \in Requests, Refuse(r) PROVE Shares'
  BY <1>4 DEF Refuse
<1>5. ASSUME NEW r \in Requests, ServeCached(r) PROVE Shares'
  BY <1>5 DEF ServeCached
<1>6. ASSUME NEW r \in Requests, Expired(r) PROVE Shares'
  BY <1>6 DEF Expired
<1>7. ASSUME NEW r \in Requests, Sent(r) PROVE Shares'
  BY <1>7 DEF Sent
<1>8. ASSUME NEW r \in Requests, CreateZip(r) PROVE Shares'
  BY <1>8 DEF CreateZip
<1>9. ASSUME NEW r \in Requests, CreateBusy(r) PROVE Shares'
  BY <1>9 DEF CreateBusy
<1>10. ASSUME NEW r \in Requests, StartQuery(r) PROVE Shares'
  BY <1>10 DEF StartQuery
<1>11. ASSUME NEW r \in Requests, StartNothing(r) PROVE Shares'
  BY <1>11 DEF StartNothing
<1>12. ASSUME NEW r \in Requests, PipeFails(r) PROVE Shares'
  BY <1>12 DEF PipeFails
<1>13. ASSUME NEW r \in Requests, DrainAll(r) PROVE Shares'
  BY <1>13 DEF DrainAll
<1>14. ASSUME NEW r \in Requests, DrainCut(r) PROVE Shares'
  BY <1>14 DEF DrainCut
<1>15. ASSUME NEW r \in Requests, CloseZip(r) PROVE Shares'
  BY <1>15 DEF CloseZip
<1>16. ASSUME NEW r \in Requests, KeepZip(r) PROVE Shares'
  BY <1>16 DEF KeepZip
<1>17. ASSUME NEW r \in Requests, DeleteZip(r) PROVE Shares'
  BY <1>17 DEF DeleteZip
<1>18. ASSUME NEW r \in Requests, ServeOpen(r) PROVE Shares'
  BY <1>18 DEF ServeOpen
<1>19. ASSUME NEW r \in Requests, ServeNothing(r) PROVE Shares'
  BY <1>19 DEF ServeNothing
<1>20. ASSUME NEW r \in Requests, QueryReturns(r) PROVE Shares'
  BY <1>20 DEF QueryReturns
<1>21. ASSUME NEW r \in Requests, WorkerEnds(r) PROVE Shares'
  BY <1>21 DEF WorkerEnds
<1>22. CASE Expire
  BY <1>22 DEF Expire
<1>23. CASE Kill
  BY <1>23 DEF Kill
<1>24. CASE UNCHANGED vars
  BY <1>24 DEF vars
<1> QED
  BY <1>1, <1>2, <1>3, <1>4, <1>5, <1>6, <1>7, <1>8, <1>9, <1>10, <1>11, <1>12,
     <1>13, <1>14, <1>15, <1>16, <1>17, <1>18, <1>19, <1>20, <1>21, <1>22, <1>23, <1>24
     DEF Next, RequestStep, WorkerStep, Terminated

\* No step changes the file under a transfer: whoever would has to wait for
\* the reader's handle.
LEMMA TransfersStep ==
    ASSUME TypeOK, Handles, Shares, Transfers, [Next]_vars
    PROVE  Transfers'
<1> USE RequestsAssumption DEF Goto, Reply, Deliver, Exists, Readable, Unopened, InFlight, Building, Reading, Nothing, Mixed, Relayed,
        TypeOK, Handles, Shares, Transfers, KmlPhases
<1>1. ASSUME NEW r \in Requests, FindCached(r) PROVE Transfers'
  BY <1>1 DEF FindCached
<1>2. ASSUME NEW r \in Requests, Compute(r) PROVE Transfers'
  BY <1>2 DEF Compute
<1>3. ASSUME NEW r \in Requests, Open(r) PROVE Transfers'
  BY <1>3 DEF Open
<1>4. ASSUME NEW r \in Requests, Refuse(r) PROVE Transfers'
  BY <1>4 DEF Refuse
<1>5. ASSUME NEW r \in Requests, ServeCached(r) PROVE Transfers'
  BY <1>5 DEF ServeCached
<1>6. ASSUME NEW r \in Requests, Expired(r) PROVE Transfers'
  BY <1>6 DEF Expired
<1>7. ASSUME NEW r \in Requests, Sent(r) PROVE Transfers'
  BY <1>7 DEF Sent
<1>8. ASSUME NEW r \in Requests, CreateZip(r) PROVE Transfers'
  BY <1>8 DEF CreateZip
<1>9. ASSUME NEW r \in Requests, CreateBusy(r) PROVE Transfers'
  BY <1>9 DEF CreateBusy
<1>10. ASSUME NEW r \in Requests, StartQuery(r) PROVE Transfers'
  BY <1>10 DEF StartQuery
<1>11. ASSUME NEW r \in Requests, StartNothing(r) PROVE Transfers'
  BY <1>11 DEF StartNothing
<1>12. ASSUME NEW r \in Requests, PipeFails(r) PROVE Transfers'
  BY <1>12 DEF PipeFails
<1>13. ASSUME NEW r \in Requests, DrainAll(r) PROVE Transfers'
  BY <1>13 DEF DrainAll
<1>14. ASSUME NEW r \in Requests, DrainCut(r) PROVE Transfers'
  BY <1>14 DEF DrainCut
<1>15. ASSUME NEW r \in Requests, CloseZip(r) PROVE Transfers'
  BY <1>15 DEF CloseZip
<1>16. ASSUME NEW r \in Requests, KeepZip(r) PROVE Transfers'
  BY <1>16 DEF KeepZip
<1>17. ASSUME NEW r \in Requests, DeleteZip(r) PROVE Transfers'
  BY <1>17 DEF DeleteZip
<1>18. ASSUME NEW r \in Requests, ServeOpen(r) PROVE Transfers'
  BY <1>18 DEF ServeOpen
<1>19. ASSUME NEW r \in Requests, ServeNothing(r) PROVE Transfers'
  BY <1>19 DEF ServeNothing
<1>20. ASSUME NEW r \in Requests, QueryReturns(r) PROVE Transfers'
  BY <1>20 DEF QueryReturns
<1>21. ASSUME NEW r \in Requests, WorkerEnds(r) PROVE Transfers'
  BY <1>21 DEF WorkerEnds
<1>22. CASE Expire
  BY <1>22 DEF Expire
<1>23. CASE Kill
  BY <1>23 DEF Kill
<1>24. CASE UNCHANGED vars
  BY <1>24 DEF vars
<1> QED
  BY <1>1, <1>2, <1>3, <1>4, <1>5, <1>6, <1>7, <1>8, <1>9, <1>10, <1>11, <1>12,
     <1>13, <1>14, <1>15, <1>16, <1>17, <1>18, <1>19, <1>20, <1>21, <1>22, <1>23, <1>24
     DEF Next, RequestStep, WorkerStep, Terminated

\* Every step keeps the numbering of builds: only CreateZip numbers one, and
\* only the writer's CloseZip publishes it.
LEMMA BuildsStep ==
    ASSUME TypeOK, Handles, Shares, Builds, [Next]_vars
    PROVE  Builds'
<1> USE RequestsAssumption DEF Goto, Reply, Deliver, Exists, Readable, Unopened, InFlight, Building, Reading, Nothing, Mixed, Relayed,
        TypeOK, Handles, Shares, Builds, KmlPhases, Kinds
<1>1. ASSUME NEW r \in Requests, FindCached(r) PROVE Builds'
  BY <1>1 DEF FindCached
<1>2. ASSUME NEW r \in Requests, Compute(r) PROVE Builds'
  BY <1>2 DEF Compute
<1>3. ASSUME NEW r \in Requests, Open(r) PROVE Builds'
  BY <1>3 DEF Open
<1>4. ASSUME NEW r \in Requests, Refuse(r) PROVE Builds'
  BY <1>4 DEF Refuse
<1>5. ASSUME NEW r \in Requests, ServeCached(r) PROVE Builds'
  BY <1>5 DEF ServeCached
<1>6. ASSUME NEW r \in Requests, Expired(r) PROVE Builds'
  BY <1>6 DEF Expired
<1>7. ASSUME NEW r \in Requests, Sent(r) PROVE Builds'
  BY <1>7 DEF Sent
<1>8. ASSUME NEW r \in Requests, CreateZip(r) PROVE Builds'
  BY <1>8 DEF CreateZip
<1>9. ASSUME NEW r \in Requests, CreateBusy(r) PROVE Builds'
  BY <1>9 DEF CreateBusy
<1>10. ASSUME NEW r \in Requests, StartQuery(r) PROVE Builds'
  BY <1>10 DEF StartQuery
<1>11. ASSUME NEW r \in Requests, StartNothing(r) PROVE Builds'
  BY <1>11 DEF StartNothing
<1>12. ASSUME NEW r \in Requests, PipeFails(r) PROVE Builds'
  BY <1>12 DEF PipeFails
<1>13. ASSUME NEW r \in Requests, DrainAll(r) PROVE Builds'
  BY <1>13 DEF DrainAll
<1>14. ASSUME NEW r \in Requests, DrainCut(r) PROVE Builds'
  BY <1>14 DEF DrainCut
<1>15. ASSUME NEW r \in Requests, CloseZip(r) PROVE Builds'
  BY <1>15 DEF CloseZip
<1>16. ASSUME NEW r \in Requests, KeepZip(r) PROVE Builds'
  BY <1>16 DEF KeepZip
<1>17. ASSUME NEW r \in Requests, DeleteZip(r) PROVE Builds'
  BY <1>17 DEF DeleteZip
<1>18. ASSUME NEW r \in Requests, ServeOpen(r) PROVE Builds'
  BY <1>18 DEF ServeOpen
<1>19. ASSUME NEW r \in Requests, ServeNothing(r) PROVE Builds'
  BY <1>19 DEF ServeNothing
<1>20. ASSUME NEW r \in Requests, QueryReturns(r) PROVE Builds'
  BY <1>20 DEF QueryReturns
<1>21. ASSUME NEW r \in Requests, WorkerEnds(r) PROVE Builds'
  BY <1>21 DEF WorkerEnds
<1>22. CASE Expire
  BY <1>22 DEF Expire
<1>23. CASE Kill
  BY <1>23 DEF Kill
<1>24. CASE UNCHANGED vars
  BY <1>24 DEF vars
<1> QED
  BY <1>1, <1>2, <1>3, <1>4, <1>5, <1>6, <1>7, <1>8, <1>9, <1>10, <1>11, <1>12,
     <1>13, <1>14, <1>15, <1>16, <1>17, <1>18, <1>19, <1>20, <1>21, <1>22, <1>23, <1>24
     DEF Next, RequestStep, WorkerStep, Terminated

\* Every step that delivers a body also answers the request.
LEMMA AnswersStep ==
    ASSUME TypeOK, Answers, [Next]_vars
    PROVE  Answers'
<1> USE RequestsAssumption DEF Goto, Reply, Deliver, Exists, Readable, Unopened, InFlight, Building, Reading, Nothing, Mixed, Relayed,
        TypeOK, Answers, Content
<1>1. ASSUME NEW r \in Requests, FindCached(r) PROVE Answers'
  BY <1>1 DEF FindCached
<1>2. ASSUME NEW r \in Requests, Compute(r) PROVE Answers'
  BY <1>2 DEF Compute
<1>3. ASSUME NEW r \in Requests, Open(r) PROVE Answers'
  BY <1>3 DEF Open
<1>4. ASSUME NEW r \in Requests, Refuse(r) PROVE Answers'
  BY <1>4 DEF Refuse
<1>5. ASSUME NEW r \in Requests, ServeCached(r) PROVE Answers'
  BY <1>5 DEF ServeCached
<1>6. ASSUME NEW r \in Requests, Expired(r) PROVE Answers'
  BY <1>6 DEF Expired
<1>7. ASSUME NEW r \in Requests, Sent(r) PROVE Answers'
  BY <1>7 DEF Sent
<1>8. ASSUME NEW r \in Requests, CreateZip(r) PROVE Answers'
  BY <1>8 DEF CreateZip
<1>9. ASSUME NEW r \in Requests, CreateBusy(r) PROVE Answers'
  BY <1>9 DEF CreateBusy
<1>10. ASSUME NEW r \in Requests, StartQuery(r) PROVE Answers'
  BY <1>10 DEF StartQuery
<1>11. ASSUME NEW r \in Requests, StartNothing(r) PROVE Answers'
  BY <1>11 DEF StartNothing
<1>12. ASSUME NEW r \in Requests, PipeFails(r) PROVE Answers'
  BY <1>12 DEF PipeFails
<1>13. ASSUME NEW r \in Requests, DrainAll(r) PROVE Answers'
  BY <1>13 DEF DrainAll
<1>14. ASSUME NEW r \in Requests, DrainCut(r) PROVE Answers'
  BY <1>14 DEF DrainCut
<1>15. ASSUME NEW r \in Requests, CloseZip(r) PROVE Answers'
  BY <1>15 DEF CloseZip
<1>16. ASSUME NEW r \in Requests, KeepZip(r) PROVE Answers'
  BY <1>16 DEF KeepZip
<1>17. ASSUME NEW r \in Requests, DeleteZip(r) PROVE Answers'
  BY <1>17 DEF DeleteZip
<1>18. ASSUME NEW r \in Requests, ServeOpen(r) PROVE Answers'
  BY <1>18 DEF ServeOpen
<1>19. ASSUME NEW r \in Requests, ServeNothing(r) PROVE Answers'
  BY <1>19 DEF ServeNothing
<1>20. ASSUME NEW r \in Requests, QueryReturns(r) PROVE Answers'
  BY <1>20 DEF QueryReturns
<1>21. ASSUME NEW r \in Requests, WorkerEnds(r) PROVE Answers'
  BY <1>21 DEF WorkerEnds
<1>22. CASE Expire
  BY <1>22 DEF Expire
<1>23. CASE Kill
  BY <1>23 DEF Kill
<1>24. CASE UNCHANGED vars
  BY <1>24 DEF vars
<1> QED
  BY <1>1, <1>2, <1>3, <1>4, <1>5, <1>6, <1>7, <1>8, <1>9, <1>10, <1>11, <1>12,
     <1>13, <1>14, <1>15, <1>16, <1>17, <1>18, <1>19, <1>20, <1>21, <1>22, <1>23, <1>24
     DEF Next, RequestStep, WorkerStep, Terminated

\* Only a kill leaves a file without an end.
LEMMA WrecksStep ==
    ASSUME TypeOK, Handles, Shares, Builds, Wrecks, [Next]_vars
    PROVE  Wrecks'
<1> USE RequestsAssumption DEF Goto, Reply, Deliver, Exists, Readable, Unopened, InFlight, Building, Reading, Nothing, Mixed, Relayed,
        TypeOK, Handles, Shares, Builds, Wrecks, Wreck, Interrupted, KmlPhases, Kinds, Content
<1>1. ASSUME NEW r \in Requests, FindCached(r) PROVE Wrecks'
  BY <1>1 DEF FindCached
<1>2. ASSUME NEW r \in Requests, Compute(r) PROVE Wrecks'
  BY <1>2 DEF Compute
<1>3. ASSUME NEW r \in Requests, Open(r) PROVE Wrecks'
  BY <1>3 DEF Open
<1>4. ASSUME NEW r \in Requests, Refuse(r) PROVE Wrecks'
  BY <1>4 DEF Refuse
<1>5. ASSUME NEW r \in Requests, ServeCached(r) PROVE Wrecks'
  BY <1>5 DEF ServeCached
<1>6. ASSUME NEW r \in Requests, Expired(r) PROVE Wrecks'
  BY <1>6 DEF Expired
<1>7. ASSUME NEW r \in Requests, Sent(r) PROVE Wrecks'
  BY <1>7 DEF Sent
<1>8. ASSUME NEW r \in Requests, CreateZip(r) PROVE Wrecks'
  BY <1>8 DEF CreateZip
<1>9. ASSUME NEW r \in Requests, CreateBusy(r) PROVE Wrecks'
  BY <1>9 DEF CreateBusy
<1>10. ASSUME NEW r \in Requests, StartQuery(r) PROVE Wrecks'
  BY <1>10 DEF StartQuery
<1>11. ASSUME NEW r \in Requests, StartNothing(r) PROVE Wrecks'
  BY <1>11 DEF StartNothing
<1>12. ASSUME NEW r \in Requests, PipeFails(r) PROVE Wrecks'
  BY <1>12 DEF PipeFails
<1>13. ASSUME NEW r \in Requests, DrainAll(r) PROVE Wrecks'
  BY <1>13 DEF DrainAll
<1>14. ASSUME NEW r \in Requests, DrainCut(r) PROVE Wrecks'
  BY <1>14 DEF DrainCut
<1>15. ASSUME NEW r \in Requests, CloseZip(r) PROVE Wrecks'
  BY <1>15 DEF CloseZip
<1>16. ASSUME NEW r \in Requests, KeepZip(r) PROVE Wrecks'
  BY <1>16 DEF KeepZip
<1>17. ASSUME NEW r \in Requests, DeleteZip(r) PROVE Wrecks'
  BY <1>17 DEF DeleteZip
<1>18. ASSUME NEW r \in Requests, ServeOpen(r) PROVE Wrecks'
  BY <1>18 DEF ServeOpen
<1>19. ASSUME NEW r \in Requests, ServeNothing(r) PROVE Wrecks'
  BY <1>19 DEF ServeNothing
<1>20. ASSUME NEW r \in Requests, QueryReturns(r) PROVE Wrecks'
  BY <1>20 DEF QueryReturns
<1>21. ASSUME NEW r \in Requests, WorkerEnds(r) PROVE Wrecks'
  BY <1>21 DEF WorkerEnds
<1>22. CASE Expire
  BY <1>22 DEF Expire
<1>23. CASE Kill
  <2>1. \A s \in Requests : pc[s] = "lost" => pc'[s] = "lost"
    BY <1>23 DEF Kill
  <2>2. /\ writer' = NoOne /\ UNCHANGED built /\ file'.gen = file.gen
        /\ writer = NoOne => file' = file
    BY <1>23 DEF Kill
  <2>3. Interrupted(file) => Interrupted(file)'
    BY <2>1, <2>2
  <2>4. writer # NoOne => Interrupted(file)'
    <3> SUFFICES ASSUME writer # NoOne PROVE Interrupted(file)'
      OBVIOUS
    <3>1. writer \in Requests /\ pc[writer] \in Building /\ file.gen = built[writer] /\ file.gen > 0
      OBVIOUS
    <3>2. pc'[writer] = "lost"
      BY <1>23, <3>1 DEF Kill
    <3> QED
      BY <2>2, <3>1, <3>2
  <2> QED
    BY <2>2, <2>3, <2>4
<1>24. CASE UNCHANGED vars
  BY <1>24 DEF vars
<1> QED
  BY <1>1, <1>2, <1>3, <1>4, <1>5, <1>6, <1>7, <1>8, <1>9, <1>10, <1>11, <1>12,
     <1>13, <1>14, <1>15, <1>16, <1>17, <1>18, <1>19, <1>20, <1>21, <1>22, <1>23, <1>24
     DEF Next, RequestStep, WorkerStep, Terminated

\* Every answer is whole: Sent delivers what the transfer began with, which is
\* closed, or a wreck, because the sender still has its read handle.
LEMMA ServedWholeStep ==
    ASSUME TypeOK, Handles, Shares, Transfers, Builds, Wrecks, ServedWhole, [Next]_vars
    PROVE  ServedWhole'
<1> USE RequestsAssumption DEF Goto, Reply, Deliver, Exists, Readable, Unopened, InFlight, Building, Reading, Nothing, Mixed, Relayed,
        TypeOK, Handles, Shares, Transfers, Builds, Wrecks, ServedWhole, Wreck, Interrupted, KmlPhases, Kinds, Content
<1>1. ASSUME NEW r \in Requests, FindCached(r) PROVE ServedWhole'
  BY <1>1 DEF FindCached
<1>2. ASSUME NEW r \in Requests, Compute(r) PROVE ServedWhole'
  BY <1>2 DEF Compute
<1>3. ASSUME NEW r \in Requests, Open(r) PROVE ServedWhole'
  BY <1>3 DEF Open
<1>4. ASSUME NEW r \in Requests, Refuse(r) PROVE ServedWhole'
  BY <1>4 DEF Refuse
<1>5. ASSUME NEW r \in Requests, ServeCached(r) PROVE ServedWhole'
  BY <1>5 DEF ServeCached
<1>6. ASSUME NEW r \in Requests, Expired(r) PROVE ServedWhole'
  BY <1>6 DEF Expired
<1>7. ASSUME NEW r \in Requests, Sent(r) PROVE ServedWhole'
  BY <1>7 DEF Sent
<1>8. ASSUME NEW r \in Requests, CreateZip(r) PROVE ServedWhole'
  BY <1>8 DEF CreateZip
<1>9. ASSUME NEW r \in Requests, CreateBusy(r) PROVE ServedWhole'
  BY <1>9 DEF CreateBusy
<1>10. ASSUME NEW r \in Requests, StartQuery(r) PROVE ServedWhole'
  BY <1>10 DEF StartQuery
<1>11. ASSUME NEW r \in Requests, StartNothing(r) PROVE ServedWhole'
  BY <1>11 DEF StartNothing
<1>12. ASSUME NEW r \in Requests, PipeFails(r) PROVE ServedWhole'
  BY <1>12 DEF PipeFails
<1>13. ASSUME NEW r \in Requests, DrainAll(r) PROVE ServedWhole'
  <2>1. \A q \in Requests \ KmlRequests : body'[q] = body[q]
    BY <1>13 DEF DrainAll
  <2>2. \A s \in Requests : pc[s] = "lost" => pc'[s] = "lost"
    BY <1>13 DEF DrainAll
  <2>3. UNCHANGED built
    BY <1>13 DEF DrainAll
  <2> QED
    BY <2>1, <2>2, <2>3
<1>14. ASSUME NEW r \in Requests, DrainCut(r) PROVE ServedWhole'
  <2>1. CASE r \in KmlRequests
    BY <1>14, <2>1 DEF DrainCut
  <2>2. CASE r \notin KmlRequests
    BY <1>14, <2>2 DEF DrainCut
  <2> QED
    BY <2>1, <2>2
<1>15. ASSUME NEW r \in Requests, CloseZip(r) PROVE ServedWhole'
  BY <1>15 DEF CloseZip
<1>16. ASSUME NEW r \in Requests, KeepZip(r) PROVE ServedWhole'
  BY <1>16 DEF KeepZip
<1>17. ASSUME NEW r \in Requests, DeleteZip(r) PROVE ServedWhole'
  BY <1>17 DEF DeleteZip
<1>18. ASSUME NEW r \in Requests, ServeOpen(r) PROVE ServedWhole'
  BY <1>18 DEF ServeOpen
<1>19. ASSUME NEW r \in Requests, ServeNothing(r) PROVE ServedWhole'
  BY <1>19 DEF ServeNothing
<1>20. ASSUME NEW r \in Requests, QueryReturns(r) PROVE ServedWhole'
  BY <1>20 DEF QueryReturns
<1>21. ASSUME NEW r \in Requests, WorkerEnds(r) PROVE ServedWhole'
  BY <1>21 DEF WorkerEnds
<1>22. CASE Expire
  BY <1>22 DEF Expire
<1>23. CASE Kill
  BY <1>23 DEF Kill
<1>24. CASE UNCHANGED vars
  BY <1>24 DEF vars
<1> QED
  BY <1>1, <1>2, <1>3, <1>4, <1>5, <1>6, <1>7, <1>8, <1>9, <1>10, <1>11, <1>12,
     <1>13, <1>14, <1>15, <1>16, <1>17, <1>18, <1>19, <1>20, <1>21, <1>22, <1>23, <1>24
     DEF Next, RequestStep, WorkerStep, Terminated

\* Every answer is at least as new as the request's own build.
LEMMA NeverOlderThanBuiltStep ==
    ASSUME TypeOK, Handles, Builds, Shares, Transfers, Answers, NeverOlderThanBuilt, [Next]_vars
    PROVE  NeverOlderThanBuilt'
<1> USE RequestsAssumption DEF Goto, Reply, Deliver, Exists, Readable, Unopened, InFlight, Building, Reading, Nothing, Mixed, Relayed,
        TypeOK, Handles, Shares, Transfers, Builds, Answers, NeverOlderThanBuilt, KmlPhases, Kinds, Content
<1>1. ASSUME NEW r \in Requests, FindCached(r) PROVE NeverOlderThanBuilt'
  BY <1>1 DEF FindCached
<1>2. ASSUME NEW r \in Requests, Compute(r) PROVE NeverOlderThanBuilt'
  BY <1>2 DEF Compute
<1>3. ASSUME NEW r \in Requests, Open(r) PROVE NeverOlderThanBuilt'
  BY <1>3 DEF Open
<1>4. ASSUME NEW r \in Requests, Refuse(r) PROVE NeverOlderThanBuilt'
  BY <1>4 DEF Refuse
<1>5. ASSUME NEW r \in Requests, ServeCached(r) PROVE NeverOlderThanBuilt'
  BY <1>5 DEF ServeCached
<1>6. ASSUME NEW r \in Requests, Expired(r) PROVE NeverOlderThanBuilt'
  BY <1>6 DEF Expired
<1>7. ASSUME NEW r \in Requests, Sent(r) PROVE NeverOlderThanBuilt'
  BY <1>7 DEF Sent
<1>8. ASSUME NEW r \in Requests, CreateZip(r) PROVE NeverOlderThanBuilt'
  BY <1>8 DEF CreateZip
<1>9. ASSUME NEW r \in Requests, CreateBusy(r) PROVE NeverOlderThanBuilt'
  BY <1>9 DEF CreateBusy
<1>10. ASSUME NEW r \in Requests, StartQuery(r) PROVE NeverOlderThanBuilt'
  BY <1>10 DEF StartQuery
<1>11. ASSUME NEW r \in Requests, StartNothing(r) PROVE NeverOlderThanBuilt'
  BY <1>11 DEF StartNothing
<1>12. ASSUME NEW r \in Requests, PipeFails(r) PROVE NeverOlderThanBuilt'
  BY <1>12 DEF PipeFails
<1>13. ASSUME NEW r \in Requests, DrainAll(r) PROVE NeverOlderThanBuilt'
  BY <1>13 DEF DrainAll
<1>14. ASSUME NEW r \in Requests, DrainCut(r) PROVE NeverOlderThanBuilt'
  <2>1. CASE r \in KmlRequests
    BY <1>14, <2>1 DEF DrainCut
  <2>2. CASE r \notin KmlRequests
    BY <1>14, <2>2 DEF DrainCut
  <2> QED
    BY <2>1, <2>2
<1>15. ASSUME NEW r \in Requests, CloseZip(r) PROVE NeverOlderThanBuilt'
  BY <1>15 DEF CloseZip
<1>16. ASSUME NEW r \in Requests, KeepZip(r) PROVE NeverOlderThanBuilt'
  BY <1>16 DEF KeepZip
<1>17. ASSUME NEW r \in Requests, DeleteZip(r) PROVE NeverOlderThanBuilt'
  BY <1>17 DEF DeleteZip
<1>18. ASSUME NEW r \in Requests, ServeOpen(r) PROVE NeverOlderThanBuilt'
  BY <1>18 DEF ServeOpen
<1>19. ASSUME NEW r \in Requests, ServeNothing(r) PROVE NeverOlderThanBuilt'
  BY <1>19 DEF ServeNothing
<1>20. ASSUME NEW r \in Requests, QueryReturns(r) PROVE NeverOlderThanBuilt'
  BY <1>20 DEF QueryReturns
<1>21. ASSUME NEW r \in Requests, WorkerEnds(r) PROVE NeverOlderThanBuilt'
  BY <1>21 DEF WorkerEnds
<1>22. CASE Expire
  BY <1>22 DEF Expire
<1>23. CASE Kill
  BY <1>23 DEF Kill
<1>24. CASE UNCHANGED vars
  BY <1>24 DEF vars
<1> QED
  BY <1>1, <1>2, <1>3, <1>4, <1>5, <1>6, <1>7, <1>8, <1>9, <1>10, <1>11, <1>12,
     <1>13, <1>14, <1>15, <1>16, <1>17, <1>18, <1>19, <1>20, <1>21, <1>22, <1>23, <1>24
     DEF Next, RequestStep, WorkerStep, Terminated

LEMMA IInvStep ==
    ASSUME IInv, [Next]_vars
    PROVE  IInv'
BY TypeOKStep, HandlesStep, SharesStep, TransfersStep, BuildsStep, AnswersStep,
   WrecksStep, ServedWholeStep, NeverOlderThanBuiltStep DEF IInv

LEMMA IInvInit == Init => IInv
<1> SUFFICES ASSUME Init PROVE IInv
  OBVIOUS
<1> USE RequestsAssumption DEF Init, Nothing, Exists
<1>1. TypeOK
  BY DEF TypeOK, Kinds, Content, Phases
<1>2. Handles
  BY DEF Handles, KmlPhases, Building, Reading
<1>3. Shares /\ Transfers /\ Builds /\ Answers
  BY DEF Shares, Transfers, Builds, Answers
<1>4. ServedWhole /\ NeverOlderThanBuilt /\ Wrecks
  BY DEF ServedWhole, NeverOlderThanBuilt, Wrecks, Wreck
<1> QED
  BY <1>1, <1>2, <1>3, <1>4 DEF IInv

\* The inductive invariant holds in every reachable state.
THEOREM Invariance == Spec => []IInv
<1> QED
  BY IInvInit, IInvStep, PTL DEF Spec

\* Type correctness of ProcessRWZ, threadzip and the file.
THEOREM TypeCorrect == Spec => []TypeOK
<1>1. IInv => TypeOK
  BY DEF IInv
<1> QED
  BY Invariance, <1>1, PTL

\* Every archive sent by ProcessRWZ is one archive from its first byte to its
\* last, for any number of requests and under every fault, and one without an
\* end only if the server was killed in its build or the disk failed.
THEOREM ServedWholeThm == Spec => []ServedWhole
<1>1. IInv => ServedWhole
  BY DEF IInv
<1> QED
  BY Invariance, <1>1, PTL

\* A request never serves an archive older than the one it built.
THEOREM NeverOlderThanBuiltThm == Spec => []NeverOlderThanBuilt
<1>1. IInv => NeverOlderThanBuilt
  BY DEF IInv
<1> QED
  BY Invariance, <1>1, PTL

\* The share modes of CreateZip and fopen keep builds apart from each other
\* and from readers.
THEOREM OneBuilderThm == Spec => []OneBuilder
<1>1. IInv => OneBuilder
  BY RequestsAssumption DEF IInv, TypeOK, Handles, Shares, OneBuilder
<1> QED
  BY Invariance, <1>1, PTL

\* No step changes the file under a request that keeps its read handle.
THEOREM StableWhileReadThm == Spec => StableWhileRead
<1>1. ASSUME IInv, [Next]_vars
      PROVE  [\A r \in Requests : r \in readers /\ r \in readers' => file' = file]_vars
  <2>1. SUFFICES ASSUME NEW r \in Requests, r \in readers, r \in readers', Next
                 PROVE  file' = file
    BY <1>1
  <2>2. writer = NoOne /\ readers # {}
    BY <1>1, <2>1 DEF IInv, Shares
  <2>3. ASSUME NEW s \in Requests, RequestStep(s) \/ WorkerStep(s)
        PROVE  file' = file
    <3>1. CASE CreateZip(s) \/ CloseZip(s) \/ DeleteZip(s)
      <4>1. ~Unopened
        BY <2>2 DEF Unopened
      <4>2. ~CloseZip(s)
        BY <1>1, <2>2, RequestsAssumption
           DEF IInv, Handles, KmlPhases, CloseZip, Building
      <4> QED
        BY <3>1, <4>1, <4>2 DEF CreateZip, DeleteZip
    <3>2. CASE ~(CreateZip(s) \/ CloseZip(s) \/ DeleteZip(s))
      BY <2>3, <3>2
         DEF RequestStep, WorkerStep, FindCached, Compute, Open, Refuse,
             ServeCached, Expired, Sent, CreateBusy, StartQuery, StartNothing,
             PipeFails, DrainAll, DrainCut, KeepZip, ServeOpen, ServeNothing,
             QueryReturns, WorkerEnds
    <3> QED
      BY <3>1, <3>2
  <2>4. CASE Kill
    BY <2>1, <2>4 DEF Kill
  <2> QED
    BY <2>1, <2>3, <2>4 DEF Next, Expire, Terminated, vars
<1> QED
  BY Invariance, <1>1, PTL DEF StableWhileRead, Spec

----------------------------------------------------------------------------
(* threadzip and the tzipquery on the stack of ProcessRWZ *)

\* Only a request that is draining its pipe has a running worker.
WorkerDrained ==
    \A r \in Requests : pc[r] # "drain" => worker[r] \in {"none", "done"}

\* With no zero-length blocks and no full disk a request outlives its worker:
\* the tzipquery the worker writes to is still there.
THEOREM QueryOutlivesWorkerThm ==
    ASSUME "blank" \notin Faults, "disk" \notin Faults
    PROVE  Spec => []QueryOutlivesWorker
<1>1. Init => WorkerDrained
  BY DEF Init, WorkerDrained
<1>2. ASSUME TypeOK, WorkerDrained, [Next]_vars
      PROVE  WorkerDrained'
  <2> USE DEF WorkerDrained, TypeOK, Goto
  <2>1. ASSUME NEW r \in Requests, RequestStep(r)
        PROVE  WorkerDrained'
    <3>1. CASE StartQuery(r) \/ StartNothing(r) \/ PipeFails(r)
      BY <1>2, <3>1 DEF StartQuery, StartNothing, PipeFails
    <3>2. CASE DrainAll(r) \/ DrainCut(r)
      BY <1>2, <3>2 DEF DrainAll, DrainCut
    <3>3. CASE FindCached(r) \/ Compute(r) \/ Open(r) \/ Refuse(r)
               \/ ServeCached(r) \/ Expired(r) \/ Sent(r)
      BY <1>2, <3>3 DEF FindCached, Compute, Open, Refuse, ServeCached, Expired, Sent
    <3>4. CASE CreateZip(r) \/ CreateBusy(r) \/ CloseZip(r) \/ KeepZip(r)
               \/ DeleteZip(r) \/ ServeOpen(r) \/ ServeNothing(r)
      BY <1>2, <3>4
         DEF CreateZip, CreateBusy, CloseZip, KeepZip, DeleteZip, ServeOpen, ServeNothing
    <3> QED
      BY <2>1, <3>1, <3>2, <3>3, <3>4 DEF RequestStep
  <2>2. ASSUME NEW r \in Requests, WorkerStep(r)
        PROVE  WorkerDrained'
    BY <1>2, <2>2 DEF WorkerStep, QueryReturns, WorkerEnds
  <2>3. CASE Expire \/ Kill \/ UNCHANGED vars
    BY <1>2, <2>3 DEF Expire, Kill, vars
  <2> QED
    BY <1>2, <2>1, <2>2, <2>3 DEF Next, Terminated
<1>3. IInv => TypeOK
  BY DEF IInv
<1>4. WorkerDrained => QueryOutlivesWorker
  BY DEF WorkerDrained, QueryOutlivesWorker
<1> QED
  BY <1>1, <1>2, <1>3, <1>4, Invariance, PTL DEF Spec

----------------------------------------------------------------------------
(* Refinement of ArchiveSlot *)


\* A request that moves between phases in flight has not been answered yet.
LEMMA Silent ==
    ASSUME TypeOK, NEW r \in Requests, NEW p \in Phases \ {"done", "lost"},
           pc[r] \notin {"done", "lost"}, Goto(r, p), body' = body
    PROVE  [s \in Requests |-> Answer(s)]' = [s \in Requests |-> Answer(s)]
BY DEF TypeOK, Goto, Answer

\* A request that finishes is given its body.
LEMMA Finish ==
    ASSUME TypeOK, Answers, NEW r \in Requests, NEW c,
           pc[r] \notin {"done", "lost"}, Goto(r, "done"),
           Deliver(r, c) \/ (body' = body /\ c = Nothing)
    PROVE  Slot!Give(r, c)
<1>1. Answer(r) = Slot!Pending
  BY DEF Answer, Slot!Pending
<1>2. pc' = [pc EXCEPT ![r] = "done"] /\ body' = [body EXCEPT ![r] = c]
  BY DEF TypeOK, Answers, Goto, Deliver
<1>3. [s \in Requests |-> Answer(s)]'
        = [[s \in Requests |-> Answer(s)] EXCEPT ![r] = c]
  BY <1>2 DEF TypeOK, Answer
<1> QED
  BY <1>1, <1>3 DEF Slot!Give

\* Every step of the cache is a step of ArchiveSlot or a stutter, so all that
\* ArchiveSlot promises about answers holds of ProcessRWZ.
THEOREM Refinement == Spec => ImplementsSlot
<1>1. Init => Slot!Init
  BY DEF Init, Slot!Init, Slot!NoArchive, Slot!Pending, Nothing, Answer
<1>2. ASSUME IInv, [Next]_vars
      PROVE  [Slot!Next]_(Slot!slotVars)
  <2> USE <1>2
  <2>0. TypeOK /\ Handles /\ Shares /\ Transfers /\ Builds /\ Answers
    BY DEF IInv
  <2>1. ASSUME NEW r \in Requests, RequestStep(r)
        PROVE  Slot!Next \/ UNCHANGED Slot!slotVars
    <3>1. CASE FindCached(r) \/ Compute(r) \/ Open(r) \/ ServeCached(r)
               \/ Expired(r) \/ CreateBusy(r) \/ StartQuery(r)
               \/ StartNothing(r) \/ KeepZip(r) \/ ServeOpen(r)
      <4>1. /\ pc[r] \notin {"done", "lost"} /\ body' = body
            /\ file' = file /\ gen' = gen
            /\ \E p \in Phases \ {"done", "lost"} : Goto(r, p)
        BY <3>1 DEF FindCached, Compute, Open, ServeCached, Expired, CreateBusy,
           StartQuery, StartNothing, KeepZip, ServeOpen, Phases
      <4> QED
        BY <2>0, <4>1, Silent DEF Slot!slotVars
    <3>2. CASE CreateZip(r)
      <4>1. [s \in Requests |-> Answer(s)]' = [s \in Requests |-> Answer(s)]
        BY <2>0, <3>2, Silent DEF CreateZip, Phases
      <4>2. Slot!Build
        BY <2>0, <3>2, <4>1 DEF CreateZip, Unopened, Shares, Slot!Build, Slot!BeingBuilt
      <4> QED
        BY <4>2 DEF Slot!Next
    <3>3. CASE CloseZip(r)
      <4>1. [s \in Requests |-> Answer(s)]' = [s \in Requests |-> Answer(s)]
        BY <2>0, <3>3, Silent DEF CloseZip, Phases
      <4>2. writer = r /\ file.kind = "open" /\ file.gen = built[r]
        BY <2>0, <3>3, RequestsAssumption
           DEF CloseZip, Handles, KmlPhases, Building, Shares, Builds
      <4>3. PICK k \in Slot!ClosedKinds : file' = [file EXCEPT !.kind = k]
        BY <2>0, <3>3, <4>2 DEF CloseZip, TypeOK, Slot!ClosedKinds
      <4>4. Slot!Seal
        BY <3>3, <4>1, <4>2, <4>3 DEF CloseZip, Slot!Seal, Slot!BeingBuilt
      <4> QED
        BY <4>4 DEF Slot!Next
    <3>4. CASE Sent(r)
      <4>1. file = head[r] /\ file.kind \in Slot!ClosedKinds
        BY <2>0, <3>4 DEF Sent, Transfers, Handles, Reading, Shares, Exists,
           TypeOK, Kinds, Slot!ClosedKinds
      <4>2. Slot!Give(r, file)
        BY <2>0, <3>4, <4>1, Finish DEF Sent
      <4>3. Slot!Serve(r)
        BY <3>4, <4>1, <4>2 DEF Sent, Slot!Serve
      <4> QED
        BY <4>3 DEF Slot!Next
    <3>5. CASE Refuse(r) \/ ServeNothing(r)
      <4>1. Slot!Give(r, Nothing)
        BY <2>0, <3>5, Finish DEF Refuse, ServeNothing
      <4>2. file.kind \in {"absent", "open"}
        BY <2>0, <3>5 DEF Refuse, ServeNothing, Readable, Exists, Shares
      <4>3. Slot!Refuse(r)
        BY <3>5, <4>1, <4>2
           DEF Refuse, ServeNothing, Slot!Refuse, Slot!NoArchive, Nothing
      <4> QED
        BY <4>3 DEF Slot!Next
    <3>6. CASE DeleteZip(r)
      <4>1. Slot!Give(r, Nothing)
        BY <2>0, <3>6, Finish DEF DeleteZip
      <4>2. r \notin KmlRequests
        BY <2>0, <3>6 DEF Handles, KmlPhases, DeleteZip
      <4>3. Slot!Discard(r)
        BY <2>0, <3>6, <4>1, <4>2
           DEF DeleteZip, Unopened, Shares, Slot!Discard, Slot!NoArchive,
               Slot!BeingBuilt, Nothing
      <4> QED
        BY <4>3 DEF Slot!Next
    <3>7. CASE r \in KmlRequests /\ (PipeFails(r) \/ DrainAll(r) \/ DrainCut(r))
      <4>1. PICK c \in Slot!Streams \cup {Slot!NoArchive} : Slot!Give(r, c)
        BY <2>0, <3>7, Finish
           DEF PipeFails, DrainAll, DrainCut, Relayed, Mixed, Nothing,
               Slot!Streams, Slot!NoArchive
      <4>2. Slot!Relay(r)
        BY <3>7, <4>1 DEF PipeFails, DrainAll, DrainCut, Slot!Relay
      <4> QED
        BY <4>2 DEF Slot!Next
    <3>8. CASE r \notin KmlRequests /\ (PipeFails(r) \/ DrainAll(r) \/ DrainCut(r))
      <4>1. /\ pc[r] \notin {"done", "lost"} /\ body' = body /\ Goto(r, "close")
            /\ file' = file /\ gen' = gen
        BY <3>8 DEF PipeFails, DrainAll, DrainCut
      <4> QED
        BY <2>0, <4>1, Silent DEF Slot!slotVars, Phases
    <3> QED
      BY <2>1, <3>1, <3>2, <3>3, <3>4, <3>5, <3>6, <3>7, <3>8 DEF RequestStep
  <2>2. ASSUME NEW r \in Requests, WorkerStep(r)
        PROVE  UNCHANGED Slot!slotVars
    BY <2>2 DEF WorkerStep, QueryReturns, WorkerEnds, Slot!slotVars, Answer
  <2>3. CASE Kill
    <3> DEFINE K == {r \in Requests : InFlight(r)}
    <3>1. K \in SUBSET {r \in Requests : Answer(r) = Slot!Pending}
      BY DEF InFlight, Answer, Slot!Pending
    <3>2. [s \in Requests |-> Answer(s)]'
            = [s \in Requests |-> IF s \in K THEN Slot!Lost ELSE Answer(s)]
      BY <2>0, <2>3 DEF Kill, InFlight, Answer, TypeOK, Slot!Lost
    <3>3. IF file.kind = "open"
          THEN \E k \in {"torn", "stub"} : file' = [file EXCEPT !.kind = k]
          ELSE file' = file
      BY <2>0, <2>3 DEF Kill, Shares
    <3>4. Slot!Crash
      BY <2>3, <3>1, <3>2, <3>3 DEF Kill, Slot!Crash, Slot!BeingBuilt
    <3> QED
      BY <3>4 DEF Slot!Next
  <2>4. CASE Expire \/ UNCHANGED vars
    BY <2>4 DEF Expire, vars, Slot!slotVars, Answer
  <2> QED
    BY <2>1, <2>2, <2>3, <2>4 DEF Next, Terminated
<1> QED
  BY <1>1, <1>2, Invariance, PTL DEF Spec, ImplementsSlot, Slot!Spec
====
