---- MODULE RwServer ----
(***************************************************************************)
(* The server process and its watchdog.  main starts the threads, looks    *)
(* once a minute for the abort file, and returns when the threads have     *)
(* counted themselves out, which ends the process.  A thread takes its turn*)
(* at FCGX_Accept_r and serves the request; a mapping request is computed  *)
(* by a worker thread under the global lock MCC, while the server thread   *)
(* waits for it on a pipe.  A crash of the mapper is caught above it, with *)
(* no destructor run: MCC stays owned by a worker that has ended.  The     *)
(* watchdog (RWHeartbeat) pings the server like any client, and restarts   *)
(* it when no answer comes.                                                *)
(***************************************************************************)
EXTENDS Integers, Sequences, FiniteSets

CONSTANTS Threads,     \* the THREADCOUNT server threads
          MaxPending,  \* connections the web server holds (backlog)
          Free, Orphan \* MCC: owned by nobody, by a thread that has ended

ASSUME ThreadsAssumption == /\ IsFiniteSet(Threads)
                            /\ Free \notin Threads /\ Orphan \notin Threads
                            /\ Free # Orphan
ASSUME PendingAssumption == MaxPending \in Nat \ {0}

VARIABLES main,        \* "start", "loop", "wait"; "gone", "killed"
          running,     \* the flag the threads test
          threadnum,   \* THREADNUM
          st,          \* each server thread
          job,         \* the request it serves
          work,        \* the worker it has started for a map
          mcc,         \* the server thread whose worker owns MCC
          abort,       \* the abort file exists
          pending,     \* connections not yet accepted
          hb,          \* the watchdog's only thread
          timer,       \* its timer is on
          click,       \* it runs the tick of StartHeartbeat
          pong,        \* its last ping has been answered
          asked,       \* history: an abort was asked of this process
          late         \* history: requests accepted since running is FALSE

server == <<main, running, threadnum, st, job, work, mcc, late>>
watchdog == <<hb, timer, click, pong>>
vars == <<server, abort, pending, watchdog, asked>>

\* "short": a request answered without a worker; "ping": the one the watchdog
\* waits for
Kinds == {"short", "ping", "map"}
States == {"unborn", "top", "queue", "accept", "serve", "wait", "leave", "left"}

Init ==
    /\ main = "start" /\ running = TRUE /\ threadnum = 0
    /\ st = [t \in Threads |-> "unborn"]
    /\ job = [t \in Threads |-> "short"]
    /\ work = [t \in Threads |-> "none"]
    /\ mcc = Free
    /\ abort \in BOOLEAN
    /\ pending = <<>>
    /\ hb = "idle" /\ timer = FALSE /\ click = FALSE /\ pong = FALSE
    /\ asked = FALSE /\ late = 0

Up == main \notin {"gone", "killed"}
Goto(t, s) == st' = [st EXCEPT ![t] = s]

----------------------------------------------------------------------------
(* main                                                                    *)

\* mutant: the abort file of the last shutdown is left where it is
CleanNot ==
    /\ main = "start"
    /\ main' = "loop"
    /\ UNCHANGED <<running, threadnum, st, job, work, mcc, late, abort, pending, watchdog, asked>>

\* DeleteFile(abortfile), after the threads are started
Clean ==
    /\ main = "start"
    /\ abort' = FALSE
    /\ main' = "loop"
    /\ UNCHANGED <<running, threadnum, st, job, work, mcc, late, pending, watchdog, asked>>

\* after the first minute of sleep every thread has counted itself
Look ==
    /\ main = "loop" /\ abort
    /\ \A t \in Threads : st[t] # "unborn"
    /\ running' = FALSE
    /\ main' = "wait"
    /\ UNCHANGED <<threadnum, st, job, work, mcc, late, abort, pending, watchdog, asked>>

\* mutant: main does not wait for the last thread
EndEarly ==
    /\ main = "wait" /\ threadnum <= 1
    /\ main' = "gone"
    /\ pending' = <<>>
    /\ UNCHANGED <<running, threadnum, st, job, work, mcc, late, abort, watchdog, asked>>

End ==
    /\ main = "wait" /\ threadnum <= 0
    /\ main' = "gone"
    /\ pending' = <<>>
    /\ UNCHANGED <<running, threadnum, st, job, work, mcc, late, abort, watchdog, asked>>

----------------------------------------------------------------------------
(* The server threads                                                      *)

Enter(t) ==
    /\ Up /\ st[t] = "unborn"
    /\ threadnum' = threadnum + 1
    /\ Goto(t, "top")
    /\ UNCHANGED <<main, running, job, work, mcc, late, abort, pending, watchdog, asked>>

\* mutant: the threads are daemons that main is expected to kill
TopForever(t) ==
    /\ Up /\ st[t] = "top"
    /\ Goto(t, "queue")
    /\ UNCHANGED <<main, running, threadnum, job, work, mcc, late, abort, pending, watchdog, asked>>

\* while (running)
Top(t) ==
    /\ Up /\ st[t] = "top"
    /\ Goto(t, IF running THEN "queue" ELSE "leave")
    /\ UNCHANGED <<main, running, threadnum, job, work, mcc, late, abort, pending, watchdog, asked>>

\* Accept.Lock: one thread at a time is in FCGX_Accept_r
TakeAccept(t) ==
    /\ Up /\ st[t] = "queue"
    /\ \A s \in Threads : st[s] # "accept"
    /\ Goto(t, "accept")
    /\ UNCHANGED <<main, running, threadnum, job, work, mcc, late, abort, pending, watchdog, asked>>

\* FCGX_Accept_r knows nothing of running: it returns with a request, or
\* (rc < 0) after a connection it could not read
Accept(t) ==
    /\ Up /\ st[t] = "accept" /\ pending # <<>>
    /\ pending' = Tail(pending)
    /\ \/ /\ Goto(t, "serve")
          /\ job' = [job EXCEPT ![t] = Head(pending)]
          /\ late' = IF running THEN late ELSE late + 1
       \/ /\ Goto(t, "top")
          /\ UNCHANGED <<job, late>>
    /\ UNCHANGED <<main, running, threadnum, work, mcc, abort, watchdog, asked>>

Answer(t) ==
    /\ Up /\ st[t] = "serve" /\ job[t] # "map"
    /\ Goto(t, "top")
    /\ pong' = (pong \/ job[t] = "ping")
    /\ UNCHANGED <<main, running, threadnum, job, work, mcc, late, abort, pending, hb, timer, click, asked>>

\* QueryZip ignores what AfxBeginThread returns: without a worker nobody
\* closes the pipe
StartMap(t) ==
    /\ Up /\ st[t] = "serve" /\ job[t] = "map"
    /\ Goto(t, "wait")
    /\ \E w \in {"lock", "none"} : work' = [work EXCEPT ![t] = w]
    /\ UNCHANGED <<main, running, threadnum, job, mcc, late, abort, pending, watchdog, asked>>

LockMCC(t) ==
    /\ Up /\ work[t] = "lock" /\ mcc = Free
    /\ mcc' = t
    /\ work' = [work EXCEPT ![t] = "map"]
    /\ UNCHANGED <<main, running, threadnum, st, job, late, abort, pending, watchdog, asked>>

\* Map returns, or crashes and ElevationQuery catches it: MCC.Unlock is skipped
Mapped(t) ==
    /\ Up /\ work[t] = "map"
    /\ work' = [work EXCEPT ![t] = "done"]
    /\ mcc' \in {Free, Orphan}
    /\ UNCHANGED <<main, running, threadnum, st, job, late, abort, pending, watchdog, asked>>

\* the worker has closed the pipe
Finish(t) ==
    /\ Up /\ st[t] = "wait" /\ work[t] = "done"
    /\ Goto(t, "top")
    /\ work' = [work EXCEPT ![t] = "none"]
    /\ UNCHANGED <<main, running, threadnum, job, mcc, late, abort, pending, watchdog, asked>>

\* mutant: the thread ends without counting itself out
LeaveUncounted(t) ==
    /\ Up /\ st[t] = "leave"
    /\ Goto(t, "left")
    /\ UNCHANGED <<main, running, threadnum, job, work, mcc, late, abort, pending, watchdog, asked>>

\* mutant: the thread counts itself out twice
LeaveTwice(t) ==
    /\ Up /\ st[t] = "leave"
    /\ threadnum' = threadnum - 2
    /\ Goto(t, "left")
    /\ UNCHANGED <<main, running, job, work, mcc, late, abort, pending, watchdog, asked>>

Leave(t) ==
    /\ Up /\ st[t] = "leave"
    /\ threadnum' = threadnum - 1
    /\ Goto(t, "left")
    /\ UNCHANGED <<main, running, job, work, mcc, late, abort, pending, watchdog, asked>>

----------------------------------------------------------------------------
(* Clients, and the operator who creates the abort file                    *)

Arrive(k) ==
    /\ Up /\ Len(pending) < MaxPending
    /\ pending' = Append(pending, k)
    /\ UNCHANGED <<server, abort, watchdog, asked>>

AskAbort ==
    /\ ~abort
    /\ abort' = TRUE
    /\ asked' = TRUE
    /\ UNCHANGED <<server, pending, watchdog>>

----------------------------------------------------------------------------
(* The watchdog, one event at a time on its UI thread                      *)

\* the timer's tick, or the one StartHeartbeat runs by itself; a connection
\* over the backlog is refused
Tick ==
    /\ hb = "idle"
    /\ \/ timer /\ UNCHANGED click
       \/ ~timer /\ click' = TRUE
    /\ hb' = "ping"
    /\ pong' = FALSE
    /\ pending' = IF Up /\ Len(pending) < MaxPending THEN Append(pending, "ping")
                  ELSE pending
    /\ UNCHANGED <<server, abort, timer, asked>>

\* once the watchdog has given up, its ping is a request like the others
Forget == /\ pending' = [i \in DOMAIN pending |-> IF pending[i] = "ping" THEN "short" ELSE pending[i]]
          /\ job' = [t \in Threads |-> IF job[t] = "ping" THEN "short" ELSE job[t]]

\* StartHeartbeat starts the timer whatever its tick has found
Pong ==
    /\ hb \in {"ping", "ping2"} /\ pong
    /\ hb' = "idle"
    /\ timer' = (timer \/ hb = "ping2" \/ click)
    /\ click' = FALSE
    /\ UNCHANGED <<server, abort, pending, pong, asked>>

\* mutant: a failed heartbeat is reported, and nothing else is done
TimeoutReport ==
    /\ hb \in {"ping", "ping2"} /\ ~pong
    /\ hb' = "idle"
    /\ Forget
    /\ UNCHANGED <<main, running, threadnum, st, work, mcc, late, abort, timer, click, pong, asked>>

\* after 3 seconds, and when the mail is sent: the first ping leads to a
\* restart, the one 10 seconds after it stops the heartbeat
Timeout ==
    /\ hb \in {"ping", "ping2"} /\ ~pong
    /\ IF hb = "ping"
       THEN hb' = "restart" /\ timer' = FALSE /\ UNCHANGED click
       ELSE hb' = "idle" /\ timer' = click /\ click' = FALSE
    /\ Forget
    /\ UNCHANGED <<main, running, threadnum, st, work, mcc, late, abort, pong, asked>>

\* SendEmail does not catch what a failing server of mails throws: the tick ends
\* before it has restarted or stopped anything, and the timer, if it is still
\* on, brings the next one
MailFails ==
    /\ hb \in {"ping", "ping2"} /\ ~pong
    /\ hb' = "idle" /\ click' = FALSE
    /\ Forget
    /\ UNCHANGED <<main, running, threadnum, st, work, mcc, late, abort, timer, pong, asked>>

Fresh ==
    /\ main' = "start" /\ running' = TRUE /\ threadnum' = 0
    /\ st' = [t \in Threads |-> "unborn"]
    /\ job' = [t \in Threads |-> "short"]
    /\ work' = [t \in Threads |-> "none"]
    /\ mcc' = Free
    /\ late' = 0 /\ asked' = FALSE

\* RestartProcess kills the first process of that name and starts the server.
\* That may be another rw (-scanbk): the new server then cannot bind the port,
\* and only deletes the abort file.  Or the start fails, and is mailed.
Restart ==
    /\ hb = "restart"
    /\ \/ Fresh /\ pending' = <<>> /\ UNCHANGED abort
       \/ /\ main' = "killed" /\ pending' = <<>>
          /\ UNCHANGED <<running, threadnum, st, job, work, mcc, late, abort, asked>>
       \/ /\ Up
          /\ abort' = FALSE
          /\ UNCHANGED <<server, pending, asked>>
    /\ hb' = "again"
    /\ UNCHANGED <<timer, click, pong>>

\* RestartProcess throws, and the tick ends: nothing could be killed, or the
\* server was, did not start, and the mail about that fails
RestartThrows ==
    /\ hb = "restart"
    /\ \/ UNCHANGED <<server, pending>>
       \/ /\ main' = "killed" /\ pending' = <<>>
          /\ UNCHANGED <<running, threadnum, st, job, work, mcc, late>>
    /\ hb' = "idle" /\ click' = FALSE
    /\ UNCHANGED <<abort, timer, pong, asked>>

\* ten seconds later
Again ==
    /\ hb = "again"
    /\ hb' = "ping2"
    /\ pong' = FALSE
    /\ pending' = IF Up /\ Len(pending) < MaxPending THEN Append(pending, "ping")
                  ELSE pending
    /\ UNCHANGED <<server, abort, timer, click, asked>>

\* btnStop
Stop ==
    /\ hb = "idle" /\ timer
    /\ timer' = FALSE
    /\ UNCHANGED <<server, abort, pending, hb, click, pong, asked>>

----------------------------------------------------------------------------
MainStep == Clean \/ Look \/ End
OwnStep(t) == Enter(t) \/ Top(t) \/ Accept(t) \/ Answer(t) \/ StartMap(t)
              \/ Finish(t) \/ Leave(t)
Watch == \/ timer /\ Tick
         \/ Pong \/ Timeout \/ MailFails \/ Restart \/ RestartThrows \/ Again

Next ==
    \/ MainStep
    \/ \E t \in Threads : OwnStep(t) \/ TakeAccept(t) \/ LockMCC(t) \/ Mapped(t)
    \/ \E k \in {"short", "map"} : Arrive(k)
    \/ AskAbort
    \/ Tick \/ Pong \/ Timeout \/ MailFails \/ Restart \/ RestartThrows \/ Again \/ Stop

Spec == Init /\ [][Next]_vars

\* Threads that can run do; a free lock goes to some thread that waits for it;
\* a computation ends; a public server keeps receiving requests; the timer
\* fires and a ping is answered or times out; mail does not fail for ever.
\* Nobody need create the abort file, crash, or press a button.
Fairness ==
    /\ WF_vars(MainStep)
    /\ \A t \in Threads : WF_vars(OwnStep(t)) /\ WF_vars(Mapped(t))
    /\ WF_vars(\E t \in Threads : TakeAccept(t))
    /\ WF_vars(\E t \in Threads : LockMCC(t))
    /\ WF_vars(\E k \in {"short", "map"} : Arrive(k))
    /\ WF_vars(Watch)
    /\ SF_vars(Timeout)

FairSpec == Spec /\ Fairness

----------------------------------------------------------------------------
TypeOK ==
    /\ main \in {"start", "loop", "wait", "gone", "killed"}
    /\ running \in BOOLEAN /\ abort \in BOOLEAN /\ asked \in BOOLEAN
    /\ threadnum \in 0..Cardinality(Threads) /\ late \in Nat
    /\ st \in [Threads -> States]
    /\ job \in [Threads -> Kinds]
    /\ work \in [Threads -> {"none", "lock", "map", "done"}]
    /\ mcc \in Threads \cup {Free, Orphan}
    /\ pending \in Seq(Kinds) /\ Len(pending) <= MaxPending
    /\ hb \in {"idle", "ping", "restart", "again", "ping2"}
    /\ timer \in BOOLEAN /\ click \in BOOLEAN /\ pong \in BOOLEAN

\* main returns (and with it the process ends) only when no thread is in the
\* middle of a request: THREADNUM, which each thread counts for itself, never
\* reads 0 while one is (RWServer.cpp:123).
NoRequestCut == main = "gone" => \A t \in Threads : st[t] = "left"

\* A thread looks at running before it queues for Accept, and FCGX_Accept_r
\* does not look at it at all: requests are still served after the flag has
\* fallen, but at most one for each thread.
FewAfterAbort == late <= Cardinality(Threads)

\* A server stops only when the abort was asked of that process: the file
\* that stopped the process before it does not stop the one the watchdog
\* starts (RWServer.cpp:111).
StopWasAsked == ~running => asked

\* t waits for a worker that was never born, or for MCC after a crash
Stuck(t) == /\ st[t] = "wait"
            /\ \/ work[t] = "none"
               \/ work[t] = "lock" /\ mcc = Orphan

\* Once running has fallen, the requests that keep coming let every thread
\* out, and main returns, unless the watchdog takes the silence for a failure
\* and restarts the server, or a thread is stuck.
Terminates ==
    ~running ~> (running \/ ~Up \/ \E t \in Threads : Stuck(t))

\* A server that answers nobody any more, because it ended or because every
\* thread is stuck behind a crashed mapper or a lost worker, is started again
\* once a mail gets out, unless the watchdog has stopped itself (after a restart
\* that failed, or a mail that failed after one) or was stopped.
Down == ~Up \/ \A t \in Threads : Stuck(t)
Unwatched == hb = "idle" /\ ~timer
Recovers == Down ~> (~Down \/ Unwatched)
====
