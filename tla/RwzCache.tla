---- MODULE RwzCache ----
(***************************************************************************)
(* One cached archive (<name>.kmz) and the requests for it.  ProcessRWZ    *)
(* answers "rwz=" from the cached file while it is fresh, and otherwise    *)
(* runs the query in a worker thread (QueryZip/threadzip) that streams     *)
(* doc.kml through a pipe into a new archive, which is then served.        *)
(* "nozip=" requests relay the pipe to the client and leave the file alone.*)
(* All threads of the server share the file through Windows share modes:   *)
(* CFILE::fopen (MREAD) lets other readers in, CreateZip lets nobody in.   *)
(*                                                                         *)
(* Faults names what the environment may do; a run or theorem that needs a *)
(* well-behaved environment says so by leaving a fault out:                *)
(*   query  ElevationQuery returns 0 (no data, or its __except fired)      *)
(*   pipe   CreatePipe fails                                               *)
(*   spawn  AfxBeginThread starts no thread                                *)
(*   blank  the query writes a zero-length block, an end of file to readers*)
(*   disk   a write to the archive fails                                   *)
(*   kill   the heartbeat kills the server (and starts it again)           *)
(***************************************************************************)
EXTENDS Naturals

CONSTANTS Requests,      \* requests for this archive, each made once
          KmlRequests,   \* those with nozip=
          Faults,
          NoOne          \* no request

FaultKinds == {"query", "pipe", "spawn", "blank", "disk", "kill"}

ASSUME RequestsAssumption == /\ KmlRequests \subseteq Requests
                             /\ NoOne \notin Requests
                             /\ Faults \subseteq FaultKinds

VARIABLES file,      \* content of the file: its kind and which build wrote it
          fresh,     \* the file is younger than GetCacheMaxDays
          writer,    \* the request whose CreateZip handle is open
          readers,   \* the requests with an fopen handle on the file
          pc,        \* where each request is in ProcessRWZ
          status,    \* the Status header it has sent
          head,      \* the content at the start of the transfer
          body,      \* what the client got
          worker,    \* its threadzip thread
          ok,        \* q.ok
          doc,       \* how much of the pipe it has read
          gen,       \* history: number of archives CreateZip has begun
          built      \* history: the build each request made, 0 for none

vars == <<file, fresh, writer, readers, pc, status, head, body, worker, ok,
          doc, gen, built>>

(***************************************************************************)
(* A content is identified by the build that wrote it (0: the file found   *)
(* at start) and by its kind:                                              *)
(*   open   CreateZip done, CloseZip not yet                               *)
(*   good   complete archive of a query that succeeded                     *)
(*   bad    archive closed by CloseZip, of a query that failed or was cut  *)
(*   torn   no valid end: the writer was killed or could not write         *)
(*   stub   torn before the first byte                                     *)
(***************************************************************************)
Kinds == {"absent", "open", "good", "bad", "torn", "stub"}
Content == [kind : Kinds \cup {"mixed", "kml"}, gen : Nat]
Nothing == [kind |-> "absent", gen |-> 0]
Mixed == [kind |-> "mixed", gen |-> 0]
Relayed == [kind |-> "kml", gen |-> 0]

Phases == {"idle", "open", "check", "create", "pipe", "drain", "close",
           "decide", "serve", "send", "done", "lost"}
Building == {"pipe", "drain", "close"}   \* phases that own the zip handle
Reading == {"check", "send"}             \* phases that own a read handle
InFlight(r) == pc[r] \notin {"idle", "done", "lost"}

Exists == file.kind # "absent"
ReadableWhileWritten == Exists                \* mutant: readers share with CreateZip
\* CreateFile for reading succeeds: the file is there and nobody writes it
Readable == Exists /\ writer = NoOne
UnopenedByReaders == readers = {}             \* mutant: two handles for writing
UnopenedByWriter == writer = NoOne            \* mutant: readers share deletion
\* CreateFile for writing (share 0) and DeleteFile need the file unopened
Unopened == writer = NoOne /\ readers = {}

Goto(r, p) == pc' = [pc EXCEPT ![r] = p]
Reply(r, s) == status' = [status EXCEPT ![r] = s]
Deliver(r, c) == body' = [body EXCEPT ![r] = c]

Init ==
    /\ file \in {Nothing, [kind |-> "good", gen |-> 0]}
    /\ fresh \in BOOLEAN
    /\ writer = NoOne
    /\ readers = {}
    /\ pc = [r \in Requests |-> "idle"]
    /\ status = [r \in Requests |-> 0]
    /\ head = [r \in Requests |-> Nothing]
    /\ body = [r \in Requests |-> Nothing]
    /\ worker = [r \in Requests |-> "none"]
    /\ ok = [r \in Requests |-> FALSE]
    /\ doc = [r \in Requests |-> "none"]
    /\ gen = 0
    /\ built = [r \in Requests |-> 0]

----------------------------------------------------------------------------
(* The cached path: exist, fopen, expiry check, transfer *)

\* CFILE::exist asks for attributes only, so it also finds an open file
FindCached(r) ==
    /\ pc[r] = "idle" /\ r \notin KmlRequests /\ Exists
    /\ Goto(r, "open")
    /\ UNCHANGED <<file, fresh, writer, readers, status, head, body, worker,
                   ok, doc, gen, built>>

Compute(r) ==
    /\ pc[r] = "idle"
    /\ r \in KmlRequests \/ ~Exists
    /\ Goto(r, IF r \in KmlRequests THEN "pipe" ELSE "create")
    /\ Reply(r, 202)
    /\ UNCHANGED <<file, fresh, writer, readers, head, body, worker, ok, doc,
                   gen, built>>

Open(r) ==
    /\ pc[r] = "open" /\ Readable
    /\ readers' = readers \cup {r}
    /\ Goto(r, "check")
    /\ UNCHANGED <<file, fresh, writer, status, head, body, worker, ok, doc,
                   gen, built>>

\* mutant: a status the protocol does not have
RefuseUnavailable(r) ==
    /\ pc[r] = "open" /\ ~Readable
    /\ Reply(r, 503)
    /\ Goto(r, "done")
    /\ UNCHANGED <<file, fresh, writer, readers, head, body, worker, ok, doc,
                   gen, built>>

\* the file is gone, or still locked at the last of the ten retries
Refuse(r) ==
    /\ pc[r] = "open" /\ ~Readable
    /\ Reply(r, 429)
    /\ Goto(r, "done")
    /\ UNCHANGED <<file, fresh, writer, readers, head, body, worker, ok, doc,
                   gen, built>>

ServeCached(r) ==
    /\ pc[r] = "check" /\ fresh
    /\ Reply(r, 200)
    /\ head' = [head EXCEPT ![r] = file]
    /\ Goto(r, "send")
    /\ UNCHANGED <<file, fresh, writer, readers, body, worker, ok, doc, gen,
                   built>>

Expired(r) ==
    /\ pc[r] = "check" /\ ~fresh
    /\ readers' = readers \ {r}
    /\ Reply(r, 202)
    /\ Goto(r, "create")
    /\ UNCHANGED <<file, fresh, writer, head, body, worker, ok, doc, gen,
                   built>>

\* the last block has been read: the transfer ends and the handle is closed
Sent(r) ==
    /\ pc[r] = "send"
    /\ Deliver(r, IF file = head[r] THEN file ELSE Mixed)
    /\ readers' = readers \ {r}
    /\ Goto(r, "done")
    /\ UNCHANGED <<file, fresh, writer, status, head, worker, ok, doc, gen,
                   built>>

----------------------------------------------------------------------------
(* The computed path: CreateZip, pipe and worker, ZipAdd, CloseZip *)

\* mutant: the archive is opened whoever holds it
CreateZipShared(r) ==
    /\ pc[r] = "create"
    /\ gen' = gen + 1
    /\ built' = [built EXCEPT ![r] = gen + 1]
    /\ file' = [kind |-> "open", gen |-> gen + 1]
    /\ fresh' = TRUE
    /\ writer' = r
    /\ Goto(r, "pipe")
    /\ UNCHANGED <<readers, status, head, body, worker, ok, doc>>

CreateZip(r) ==
    /\ pc[r] = "create" /\ Unopened
    /\ gen' = gen + 1
    /\ built' = [built EXCEPT ![r] = gen + 1]
    /\ file' = [kind |-> "open", gen |-> gen + 1]
    /\ fresh' = TRUE
    /\ writer' = r
    /\ Goto(r, "pipe")
    /\ UNCHANGED <<readers, status, head, body, worker, ok, doc>>

\* hz is NULL: no retry, the request serves whatever the file is
CreateBusy(r) ==
    /\ pc[r] = "create" /\ ~Unopened
    /\ Goto(r, "serve")
    /\ UNCHANGED <<file, fresh, writer, readers, status, head, body, worker,
                   ok, doc, gen, built>>

\* CreatePipe and QueryZip, whose thread starts at once unless "spawn"
StartQuery(r) ==
    /\ pc[r] = "pipe"
    /\ worker' = [worker EXCEPT ![r] = "query"]
    /\ Goto(r, "drain")
    /\ UNCHANGED <<file, fresh, writer, readers, status, head, body, ok, doc,
                   gen, built>>

StartNothing(r) ==
    /\ "spawn" \in Faults /\ pc[r] = "pipe"
    /\ Goto(r, "drain")
    /\ UNCHANGED <<file, fresh, writer, readers, status, head, body, worker,
                   ok, doc, gen, built>>

\* mutant: the result of CreatePipe is ignored
PipeIgnored(r) ==
    /\ "pipe" \in Faults /\ pc[r] = "pipe"
    /\ Goto(r, "drain")
    /\ UNCHANGED <<file, fresh, writer, readers, status, head, body, worker,
                   ok, doc, gen, built>>

\* CreatePipe failed: a nozip answer is empty, an archive is closed empty
PipeFails(r) ==
    /\ "pipe" \in Faults /\ pc[r] = "pipe"
    /\ Goto(r, IF r \in KmlRequests THEN "done" ELSE "close")
    /\ UNCHANGED <<file, fresh, writer, readers, status, head, body, worker,
                   ok, doc, gen, built>>

\* threadzip: ElevationQuery returns and sets q->ok
QueryReturns(r) ==
    /\ worker[r] = "query"
    /\ \E result \in {TRUE} \cup {x \in {FALSE} : "query" \in Faults} :
          ok' = [ok EXCEPT ![r] = result]
    /\ worker' = [worker EXCEPT ![r] = "tail"]
    /\ UNCHANGED <<file, fresh, writer, readers, pc, status, head, body, doc,
                   gen, built>>

\* threadzip: ~CKMLOut writes KMLEnd, ~inethandle closes the pipe
WorkerEnds(r) ==
    /\ worker[r] = "tail"
    /\ worker' = [worker EXCEPT ![r] = "done"]
    /\ UNCHANGED <<file, fresh, writer, readers, pc, status, head, body, ok,
                   doc, gen, built>>

\* mutant: reading ends when q.ok is set, not when the pipe is closed
DrainToOk(r) ==
    /\ pc[r] = "drain" /\ worker[r] \in {"tail", "done"}
    /\ doc' = [doc EXCEPT ![r] = "whole"]
    /\ IF r \in KmlRequests
       THEN Deliver(r, Relayed) /\ Goto(r, "done")
       ELSE UNCHANGED body /\ Goto(r, "close")
    /\ UNCHANGED <<file, fresh, writer, readers, status, head, worker, ok,
                   gen, built>>

\* the end of the pipe: the relay to the client or ZipAdd of doc.kml is done
\* (and, for an archive, ZipAdd of the attachments while q.ok)
DrainAll(r) ==
    /\ pc[r] = "drain" /\ worker[r] = "done"
    /\ doc' = [doc EXCEPT ![r] = "whole"]
    /\ IF r \in KmlRequests
       THEN Deliver(r, Relayed) /\ Goto(r, "done")
       ELSE UNCHANGED body /\ Goto(r, "close")
    /\ UNCHANGED <<file, fresh, writer, readers, status, head, worker, ok,
                   gen, built>>

\* reading stops early: a zero-length block ends the transfer, a full disk
\* ends ZipAdd; nothing waits for the worker, which still uses q
DrainCut(r) ==
    /\ pc[r] = "drain" /\ worker[r] \in {"query", "tail"}
    /\ \/ "blank" \in Faults
       \/ "disk" \in Faults /\ r \notin KmlRequests
    /\ doc' = [doc EXCEPT ![r] = "part"]
    /\ IF r \in KmlRequests
       THEN Deliver(r, Mixed) /\ Goto(r, "done")
       ELSE UNCHANGED body /\ Goto(r, "close")
    /\ UNCHANGED <<file, fresh, writer, readers, status, head, worker, ok,
                   gen, built>>

\* CloseZip: central directory, then the handle is released
CloseZip(r) ==
    /\ pc[r] = "close"
    /\ \E k \in {IF ok[r] /\ doc[r] = "whole" THEN "good" ELSE "bad"}
                \cup {x \in {"torn"} : "disk" \in Faults} :
          file' = [kind |-> k, gen |-> built[r]]
    /\ writer' = NoOne
    /\ Goto(r, "decide")
    /\ UNCHANGED <<fresh, readers, status, head, body, worker, ok, doc, gen,
                   built>>

KeepZip(r) ==
    /\ pc[r] = "decide" /\ ok[r]
    /\ Goto(r, "serve")
    /\ UNCHANGED <<file, fresh, writer, readers, status, head, body, worker,
                   ok, doc, gen, built>>

\* mutant: the file is deleted whoever has it open
DeleteAlways(r) ==
    /\ pc[r] = "decide" /\ ~ok[r]
    /\ file' = Nothing
    /\ Goto(r, "done")
    /\ UNCHANGED <<fresh, writer, readers, status, head, body, worker, ok,
                   doc, gen, built>>

\* DeleteFile, whose result is ignored, and an empty answer
DeleteZip(r) ==
    /\ pc[r] = "decide" /\ ~ok[r]
    /\ file' = IF Unopened THEN Nothing ELSE file
    /\ Goto(r, "done")
    /\ UNCHANGED <<fresh, writer, readers, status, head, body, worker, ok,
                   doc, gen, built>>

\* utils::WriteFile(outfile)
ServeOpen(r) ==
    /\ pc[r] = "serve" /\ Readable
    /\ readers' = readers \cup {r}
    /\ head' = [head EXCEPT ![r] = file]
    /\ Goto(r, "send")
    /\ UNCHANGED <<file, fresh, writer, status, body, worker, ok, doc, gen,
                   built>>

ServeNothing(r) ==
    /\ pc[r] = "serve" /\ ~Readable
    /\ Goto(r, "done")
    /\ UNCHANGED <<file, fresh, writer, readers, status, head, body, worker,
                   ok, doc, gen, built>>

----------------------------------------------------------------------------
(* The environment *)

Expire ==
    /\ fresh /\ writer = NoOne
    /\ fresh' = FALSE
    /\ UNCHANGED <<file, writer, readers, pc, status, head, body, worker, ok,
                   doc, gen, built>>

\* Process.Kill and Process.Start by the heartbeat: handles and threads go,
\* requests in flight are lost, the file keeps what was written, and its date
Kill ==
    /\ "kill" \in Faults
    /\ \E r \in Requests : InFlight(r)
    /\ pc' = [r \in Requests |-> IF InFlight(r) THEN "lost" ELSE pc[r]]
    /\ worker' = [r \in Requests |-> "none"]
    /\ readers' = {}
    /\ writer' = NoOne
    /\ \/ writer = NoOne /\ UNCHANGED file
       \/ writer # NoOne /\ file' = [file EXCEPT !.kind = "stub"]
       \/ writer # NoOne /\ pc[writer] # "pipe" /\ file' = [file EXCEPT !.kind = "torn"]
    /\ UNCHANGED <<fresh, status, head, body, ok, doc, gen, built>>

Terminated ==
    /\ \A r \in Requests : ~InFlight(r) /\ pc[r] # "idle"
    /\ UNCHANGED vars

RequestStep(r) ==
    \/ FindCached(r) \/ Compute(r) \/ Open(r) \/ Refuse(r)
    \/ ServeCached(r) \/ Expired(r) \/ Sent(r)
    \/ CreateZip(r) \/ CreateBusy(r)
    \/ StartQuery(r) \/ StartNothing(r) \/ PipeFails(r)
    \/ DrainAll(r) \/ DrainCut(r) \/ CloseZip(r)
    \/ KeepZip(r) \/ DeleteZip(r) \/ ServeOpen(r) \/ ServeNothing(r)

WorkerStep(r) == QueryReturns(r) \/ WorkerEnds(r)

Next ==
    \/ \E r \in Requests : RequestStep(r) \/ WorkerStep(r)
    \/ Expire
    \/ Kill
    \/ Terminated

Spec == Init /\ [][Next]_vars

\* every server thread is scheduled, and a client that is being sent a file
\* reads it; nothing obliges a file to expire or the server to be killed
Fairness == \A r \in Requests : WF_vars(RequestStep(r)) /\ WF_vars(WorkerStep(r))

FairSpec == Spec /\ Fairness

----------------------------------------------------------------------------
(* Properties *)

\* Types of the variables of ProcessRWZ, threadzip and the file.
TypeOK ==
    /\ file \in [kind : Kinds, gen : Nat]
    /\ fresh \in BOOLEAN
    /\ writer \in Requests \cup {NoOne}
    /\ readers \subseteq Requests
    /\ pc \in [Requests -> Phases]
    /\ status \in [Requests -> {0, 200, 202, 429}]
    /\ head \in [Requests -> Content]
    /\ body \in [Requests -> Content]
    /\ worker \in [Requests -> {"none", "query", "tail", "done"}]
    /\ ok \in [Requests -> BOOLEAN]
    /\ doc \in [Requests -> {"none", "part", "whole"}]
    /\ gen \in Nat
    /\ built \in [Requests -> Nat]

\* The server was killed in the build that wrote c.
Interrupted(c) == c.gen > 0 /\ \E s \in Requests : pc[s] = "lost" /\ built[s] = c.gen

\* An archive without an end that no failing disk explains.
Wreck(c) == c.kind = "stub" \/ (c.kind = "torn" /\ "disk" \notin Faults)

\* An archive that ProcessRWZ sends is one archive from its first to its last
\* byte, and was not being built at the time, however the builds, the deletes
\* and the restarts of other requests fall between its reads.  It may be one
\* without an end (CachedHasMinSize is violated): then the server was killed
\* while it built that very archive, or the disk failed.
ServedWhole ==
    \A r \in Requests \ KmlRequests :
        /\ body[r].kind \notin {"open", "mixed"}
        /\ Wreck(body[r]) => Interrupted(body[r])

\* A request whose own build succeeded never serves an archive older than the
\* one it built: between its CloseZip and its fopen others may delete or
\* rebuild the file, but not bring an earlier one back.
NeverOlderThanBuilt ==
    \A r \in Requests :
        (body[r].kind # "absent" /\ built[r] > 0) => body[r].gen >= built[r]

\* No two requests build at the same time, and nobody reads a file that is
\* being built (what the share modes of CreateZip and fopen are there for).
OneBuilder ==
    /\ \A r, s \in Requests \ KmlRequests :
           pc[r] \in Building /\ pc[s] \in Building => r = s
    /\ \A r, s \in Requests \ KmlRequests :
           pc[r] \in Building => pc[s] \notin Reading

\* While a request keeps its read handle, no step of any request changes or
\* removes the file under it; only a kill, which takes the reader too, may.
StableWhileRead ==
    [][\A r \in Requests : r \in readers /\ r \in readers' => file' = file]_vars

\* With pipes that end only when the worker closes them, ProcessRWZ never
\* returns (and frees the tzipquery on its stack) under a running threadzip.
QueryOutlivesWorker ==
    \A r \in Requests : pc[r] = "done" => worker[r] \in {"none", "done"}

\* "Zip deleted for query" (the log of ProcessRWZ): once it has returned
\* without an archive, the archive it built is no longer in the cache.
ZipDeleted ==
    \A r \in Requests :
        (built[r] > 0 /\ pc[r] = "done" /\ ~ok[r])
            => ~(Exists /\ file.gen = built[r])

\* "minsize valid zip" (ProcessRWZ): a cached answer is not an empty file.
CachedHasMinSize ==
    \A r \in Requests :
        status[r] = 200 /\ pc[r] = "done" => body[r].kind # "stub"

\* What a client may observe: every answer is the archive as it stood, closed,
\* at one instant, or nothing (ArchiveSlot).
Answer(r) == CASE pc[r] = "done" -> body[r]
               [] pc[r] = "lost" -> [kind |-> "lost", gen |-> 0]
               [] OTHER -> [kind |-> "pending", gen |-> 0]

Slot == INSTANCE ArchiveSlot
            WITH slot <- file, last <- gen, answer <- [r \in Requests |-> Answer(r)]

ImplementsSlot == Slot!Spec

\* Every request is answered: no interleaving of builds, deletes and locked
\* files leaves a request waiting, as long as pipes and threads can be made.
Answered == \A r \in Requests : <>(pc[r] = "done")
====
