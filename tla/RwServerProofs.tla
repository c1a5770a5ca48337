---- MODULE RwServerProofs ----
(***************************************************************************)
(* The server process stops only when it was asked to, cuts no request     *)
(* when it does, and serves at most one more request per thread once it is *)
(* to stop: for any number of threads and of waiting connections, and      *)
(* whatever the watchdog does to it.                                       *)
(***************************************************************************)
EXTENDS RwServer, FiniteSetTheorems, SequenceTheorems, TLAPS

\* Threads that have counted themselves in and not yet out.
Working == {"top", "queue", "accept", "serve", "wait", "leave"}

\* Threads that will accept a request without another look at running.
Accepting == {"queue", "accept"}

In(W) == {t \in Threads : st[t] \in W}

\* THREADNUM counts the threads that are working.
Counted == threadnum = Cardinality(In(Working))

\* Requests served after the flag has fallen, and threads that may serve one
\* more, are together no more than the threads.
LateCounted ==
    IF running THEN late = 0
    ELSE late + Cardinality(In(Accepting)) <= Cardinality(Threads)

\* When the flag falls every thread has counted itself in.
AllBorn == ~running => \A t \in Threads : st[t] # "unborn"

\* main waits for the threads only with the flag down.
Ending == main \in {"wait", "gone"} => ~running

\* The abort file that main's loop sees was created for this process.
AbortAsked == main = "loop" /\ abort => asked

Core == /\ Counted /\ LateCounted /\ AllBorn /\ Ending
        /\ AbortAsked /\ StopWasAsked /\ NoRequestCut

IInv == TypeOK /\ Core

----------------------------------------------------------------------------
(* Counting threads *)

\* Sets of threads are finite, and no larger than Threads.
LEMMA InFinite ==
    ASSUME NEW W
    PROVE  /\ IsFiniteSet(In(W)) /\ Cardinality(In(W)) \in Nat
           /\ Cardinality(In(W)) <= Cardinality(Threads)
           /\ Cardinality(Threads) \in Nat
<1>1. In(W) \in SUBSET Threads
  BY DEF In
<1> QED
  BY <1>1, ThreadsAssumption, FS_Subset, FS_CardinalityType

\* How the number of threads in some states changes when one thread moves.
LEMMA Moved ==
    ASSUME TypeOK, NEW t \in Threads, NEW s \in States, Goto(t, s), NEW W
    PROVE  Cardinality(In(W)') = Cardinality(In(W)) + (IF s \in W THEN 1 ELSE 0)
                                  - (IF st[t] \in W THEN 1 ELSE 0)
<1>1. st \in [Threads -> States] /\ st' = [st EXCEPT ![t] = s]
  BY DEF TypeOK, Goto
<1>2. t \in In(W) <=> st[t] \in W
  BY DEF In
<1>3. IsFiniteSet(In(W)) /\ Cardinality(In(W)) \in Nat
  BY InFinite
<1>4. CASE s \in W
  <2>1. In(W)' = In(W) \cup {t}
    BY <1>1, <1>4 DEF In
  <2>2. Cardinality(In(W) \cup {t}) = IF t \in In(W) THEN Cardinality(In(W))
                                       ELSE Cardinality(In(W)) + 1
    BY <1>3, FS_AddElement
  <2> QED
    BY <1>2, <1>3, <1>4, <2>1, <2>2
<1>5. CASE s \notin W
  <2>1. In(W)' = In(W) \ {t}
    BY <1>1, <1>5 DEF In
  <2>2. Cardinality(In(W) \ {t}) = IF t \in In(W) THEN Cardinality(In(W)) - 1
                                    ELSE Cardinality(In(W))
    BY <1>3, FS_RemoveElement
  <2> QED
    BY <1>2, <1>3, <1>5, <2>1, <2>2
<1> QED
  BY <1>4, <1>5

\* Counts of a set of threads stay while st does.
LEMMA Unmoved ==
    ASSUME NEW W, UNCHANGED st
    PROVE  In(W)' = In(W)
BY DEF In

----------------------------------------------------------------------------
(* Types *)

\* The connections of a process that has ended are gone.
LEMMA NoPending == <<>> \in Seq(Kinds) /\ Len(<<>>) <= MaxPending
BY EmptySeq, PendingAssumption

\* One more connection is one of the known kinds, within the backlog.
LEMMA PendingAppend ==
    ASSUME pending \in Seq(Kinds), Len(pending) < MaxPending, NEW k \in Kinds
    PROVE  Append(pending, k) \in Seq(Kinds) /\ Len(Append(pending, k)) <= MaxPending
BY AppendProperties, LenProperties, PendingAssumption

\* An interval from 1 determines its end.
LEMMA IntervalLength ==
    ASSUME NEW m \in Nat, NEW n \in Nat, 1..m = 1..n
    PROVE  m = n
<1>1. \A i \in Int : i \in 1..m <=> i \in 1..n
  OBVIOUS
<1>2. m >= 1 => m \in 1..n
  BY <1>1
<1>3. n >= 1 => n \in 1..m
  BY <1>1
<1> QED
  BY <1>2, <1>3

\* Forgetting the watchdog's ping keeps the queue and the jobs well typed.
LEMMA ForgetType ==
    ASSUME TypeOK, Forget
    PROVE  /\ pending' \in Seq(Kinds) /\ Len(pending') <= MaxPending
           /\ job' \in [Threads -> Kinds]
<1> DEFINE n == Len(pending)
<1>1. n \in Nat /\ DOMAIN pending = 1..n /\ pending \in [1..n -> Kinds] /\ n <= MaxPending
  BY LenProperties DEF TypeOK
<1>2. pending' \in [1..n -> Kinds]
  BY <1>1 DEF Forget, Kinds
<1>3. pending' \in Seq(Kinds)
  BY <1>1, <1>2, SeqDef
<1>4. Len(pending') = n
  <2>1. DOMAIN pending' = 1..Len(pending') /\ Len(pending') \in Nat
    BY <1>3, LenProperties
  <2>2. 1..Len(pending') = 1..n
    BY <1>2, <2>1
  <2> QED
    BY <1>1, <2>1, <2>2, IntervalLength
<1> QED
  BY <1>1, <1>3, <1>4 DEF Forget, TypeOK, Kinds

----------------------------------------------------------------------------
(* One lemma per kind of step *)

\* A step that leaves the threads, main and the abort file alone keeps Core.
LEMMA StillCore ==
    ASSUME Core, UNCHANGED <<main, running, threadnum, st, late, abort, asked>>
    PROVE  Core'
<1>1. In(Working)' = In(Working) /\ In(Accepting)' = In(Accepting)
  BY Unmoved
<1> QED
  BY <1>1 DEF Core, Counted, LateCounted, AllBorn, Ending, AbortAsked, StopWasAsked,
              NoRequestCut

\* A step of a thread keeps what is not about counting.
LEMMA ThreadCore ==
    ASSUME IInv, Up, NEW t \in Threads, NEW s \in States \ {"unborn"}, Goto(t, s),
           UNCHANGED <<main, running, abort, asked>>, Counted', LateCounted'
    PROVE  Core'
<1>1. AllBorn'
  BY DEF IInv, TypeOK, Core, AllBorn, Goto
<1>2. NoRequestCut'
  BY DEF Up, NoRequestCut
<1> QED
  BY <1>1, <1>2 DEF IInv, Core, Ending, AbortAsked, StopWasAsked

\* A thread counts itself in.
LEMMA EnterStep ==
    ASSUME IInv, NEW t \in Threads, Enter(t)
    PROVE  Core'
<1>1. /\ Up /\ Goto(t, "top") /\ st[t] = "unborn" /\ threadnum' = threadnum + 1
      /\ UNCHANGED <<main, running, abort, asked, late>>
  BY DEF Enter
<1>2. /\ Cardinality(In(Working)') = Cardinality(In(Working)) + 1
      /\ Cardinality(In(Accepting)') = Cardinality(In(Accepting))
      /\ Cardinality(In(Working)) \in Nat /\ Cardinality(In(Accepting)) \in Nat
  BY <1>1, Moved, InFinite DEF IInv, Working, Accepting, States
<1>3. Counted' /\ LateCounted'
  BY <1>1, <1>2 DEF IInv, Core, Counted, LateCounted
<1> QED
  BY <1>1, <1>3, ThreadCore DEF States

\* A thread goes on to the lock, or out when the flag is down.
LEMMA TopStep ==
    ASSUME IInv, NEW t \in Threads, Top(t)
    PROVE  Core'
<1> DEFINE s == IF running THEN "queue" ELSE "leave"
<1>1. /\ Up /\ Goto(t, s) /\ st[t] = "top" /\ s \in States \ {"unborn"}
      /\ UNCHANGED <<main, running, abort, asked, late, threadnum>>
  BY DEF Top, States
<1>2. /\ Cardinality(In(Working)') = Cardinality(In(Working))
      /\ ~running => Cardinality(In(Accepting)') = Cardinality(In(Accepting))
  BY <1>1, Moved, InFinite DEF IInv, Working, Accepting
<1>3. Counted' /\ LateCounted'
  BY <1>1, <1>2 DEF IInv, Core, Counted, LateCounted
<1> QED
  BY <1>1, <1>3, ThreadCore

\* A thread takes its turn at FCGX_Accept_r.
LEMMA TakeAcceptStep ==
    ASSUME IInv, NEW t \in Threads, TakeAccept(t)
    PROVE  Core'
<1>1. /\ Up /\ Goto(t, "accept") /\ st[t] = "queue"
      /\ UNCHANGED <<main, running, abort, asked, late, threadnum>>
  BY DEF TakeAccept
<1>2. /\ Cardinality(In(Working)') = Cardinality(In(Working))
      /\ Cardinality(In(Accepting)') = Cardinality(In(Accepting))
  BY <1>1, Moved, InFinite DEF IInv, Working, Accepting, States
<1>3. Counted' /\ LateCounted'
  BY <1>1, <1>2 DEF IInv, Core, Counted, LateCounted
<1> QED
  BY <1>1, <1>3, ThreadCore DEF States

\* FCGX_Accept_r returns: a request that is one too late uses up the thread's
\* right to one.
LEMMA AcceptStep ==
    ASSUME IInv, NEW t \in Threads, Accept(t)
    PROVE  Core'
<1>1. PICK s \in {"serve", "top"} :
         /\ Up /\ Goto(t, s) /\ st[t] = "accept"
         /\ late' = (IF running \/ s = "top" THEN late ELSE late + 1)
         /\ UNCHANGED <<main, running, abort, asked, threadnum>>
  BY DEF Accept
<1>2. /\ Cardinality(In(Working)') = Cardinality(In(Working))
      /\ Cardinality(In(Accepting)') = Cardinality(In(Accepting)) - 1
      /\ Cardinality(In(Accepting)) \in Nat /\ Cardinality(Threads) \in Nat
  BY <1>1, Moved, InFinite DEF IInv, Working, Accepting, States
<1>3. late \in Nat
  BY DEF IInv, TypeOK
<1>4. Counted' /\ LateCounted'
  BY <1>1, <1>2, <1>3 DEF IInv, Core, Counted, LateCounted
<1> QED
  BY <1>1, <1>4, ThreadCore DEF States

\* A thread answers, starts a worker or comes back from one.
LEMMA ServeStep ==
    ASSUME IInv, NEW t \in Threads, Answer(t) \/ StartMap(t) \/ Finish(t)
    PROVE  Core'
<1>1. PICK s \in {"wait", "top"} :
         /\ Up /\ Goto(t, s) /\ st[t] \in {"serve", "wait"}
         /\ UNCHANGED <<main, running, abort, asked, late, threadnum>>
  BY DEF Answer, StartMap, Finish
<1>2. /\ Cardinality(In(Working)') = Cardinality(In(Working))
      /\ Cardinality(In(Accepting)') = Cardinality(In(Accepting))
  BY <1>1, Moved, InFinite DEF IInv, Working, Accepting, States
<1>3. Counted' /\ LateCounted'
  BY <1>1, <1>2 DEF IInv, Core, Counted, LateCounted
<1> QED
  BY <1>1, <1>3, ThreadCore DEF States

\* A thread counts itself out.
LEMMA LeaveStep ==
    ASSUME IInv, NEW t \in Threads, Leave(t)
    PROVE  Core'
<1>1. /\ Up /\ Goto(t, "left") /\ st[t] = "leave" /\ threadnum' = threadnum - 1
      /\ UNCHANGED <<main, running, abort, asked, late>>
  BY DEF Leave
<1>2. /\ Cardinality(In(Working)') = Cardinality(In(Working)) - 1
      /\ Cardinality(In(Accepting)') = Cardinality(In(Accepting))
  BY <1>1, Moved, InFinite DEF IInv, Working, Accepting, States
<1>3. Counted' /\ LateCounted'
  BY <1>1, <1>2 DEF IInv, Core, Counted, LateCounted
<1> QED
  BY <1>1, <1>3, ThreadCore DEF States

\* main looks for the abort file when every thread has counted itself in, and
\* nothing was late before.
LEMMA LookStep ==
    ASSUME IInv, Look
    PROVE  Core'
<1> USE DEF IInv, Core
<1>1. UNCHANGED <<st, threadnum, late>> /\ ~running' /\ main' = "wait"
  BY DEF Look
<1>2. In(Working)' = In(Working) /\ In(Accepting)' = In(Accepting)
  BY <1>1, Unmoved
<1>3. LateCounted'
  <2>1. CASE running
    BY <1>1, <1>2, <2>1, InFinite DEF LateCounted
  <2>2. CASE ~running
    BY <1>1, <1>2, <2>2 DEF LateCounted
  <2> QED
    BY <2>1, <2>2
<1> QED
  BY <1>1, <1>2, <1>3 DEF Look, Counted, AllBorn, Ending, AbortAsked, StopWasAsked,
     NoRequestCut

\* main returns when nobody is counted: every thread was born, so it has left.
LEMMA EndStep ==
    ASSUME IInv, End
    PROVE  Core'
<1> USE DEF IInv, Core
<1>1. /\ UNCHANGED <<st, threadnum, late, running, abort, asked>>
      /\ main = "wait" /\ main' = "gone"
  BY DEF End
<1>2. In(Working)' = In(Working) /\ In(Accepting)' = In(Accepting)
  BY <1>1, Unmoved
<1>3. In(Working) = {}
  <2>1. Cardinality(In(Working)) = 0
    BY InFinite DEF End, Counted
  <2> QED
    BY <2>1, InFinite, FS_EmptySet
<1>4. NoRequestCut'
  BY <1>1, <1>3 DEF NoRequestCut, In, Working, AllBorn, Ending, TypeOK, States
<1> QED
  BY <1>1, <1>2, <1>4 DEF Counted, LateCounted, AllBorn, Ending, AbortAsked, StopWasAsked

\* main forgets the abort file of an earlier process; an operator asks again.
LEMMA AbortFileStep ==
    ASSUME IInv, Clean \/ AskAbort
    PROVE  Core'
<1> USE DEF IInv, Core
<1>1. UNCHANGED <<st, threadnum, late, running>> /\ (main' = main \/ main' = "loop")
  BY DEF Clean, AskAbort, server
<1>2. In(Working)' = In(Working) /\ In(Accepting)' = In(Accepting)
  BY <1>1, Unmoved
<1> QED
  BY <1>1, <1>2 DEF Clean, AskAbort, server, Counted, LateCounted, AllBorn, Ending, AbortAsked,
     StopWasAsked, NoRequestCut

\* The watchdog kills the server and starts it anew, or fails to.
LEMMA RestartStep ==
    ASSUME IInv, Restart \/ RestartThrows
    PROVE  Core'
<1> USE DEF IInv, Core
<1>1. CASE Fresh
  <2>1. In(Working)' = {}
    BY <1>1 DEF Fresh, In, Working
  <2> QED
    BY <1>1, <2>1, FS_EmptySet DEF Fresh, Counted, LateCounted, AllBorn, Ending, AbortAsked,
       StopWasAsked, NoRequestCut
<1>2. CASE UNCHANGED <<running, threadnum, st, late, asked>>
           /\ (main' = "killed" \/ (main' = main /\ abort' \in {abort, FALSE}))
  <2>1. In(Working)' = In(Working) /\ In(Accepting)' = In(Accepting)
    BY <1>2, Unmoved
  <2>2. CASE main' = "killed"
    BY <1>2, <2>1, <2>2 DEF Counted, LateCounted, AllBorn, Ending, AbortAsked, StopWasAsked, NoRequestCut
  <2>3. CASE main' = main /\ abort' = FALSE
    BY <1>2, <2>1, <2>3 DEF Counted, LateCounted, AllBorn, Ending, AbortAsked, StopWasAsked, NoRequestCut
  <2>4. CASE main' = main /\ abort' = abort
    BY <1>2, <2>1, <2>4 DEF Counted, LateCounted, AllBorn, Ending, AbortAsked, StopWasAsked, NoRequestCut
  <2> QED
    BY <1>2, <2>2, <2>3, <2>4
<1> QED
  BY <1>1, <1>2 DEF Restart, RestartThrows, server

----------------------------------------------------------------------------
(* The theorems *)

LEMMA CoreInductive ==
    ASSUME IInv, [Next]_vars
    PROVE  Core'
<1>1. CASE UNCHANGED vars
  BY <1>1, StillCore DEF IInv, vars, server
<1>2. CASE MainStep
  BY <1>2, AbortFileStep, LookStep, EndStep DEF MainStep
<1>3. ASSUME NEW t \in Threads, OwnStep(t) \/ TakeAccept(t)
      PROVE  Core'
  BY <1>3, EnterStep, TopStep, AcceptStep, ServeStep, LeaveStep, TakeAcceptStep DEF OwnStep
<1>4. ASSUME NEW t \in Threads, LockMCC(t) \/ Mapped(t)
      PROVE  Core'
  BY <1>4, StillCore DEF IInv, LockMCC, Mapped
<1>5. CASE \/ \E k \in {"short", "map"} : Arrive(k)
           \/ Tick \/ Pong \/ Timeout \/ MailFails \/ Again \/ Stop
  BY <1>5, StillCore DEF IInv, Arrive, Tick, Pong, Timeout, MailFails, Again, Stop, server
<1> QED
  BY <1>1, <1>2, <1>3, <1>4, <1>5, AbortFileStep, RestartStep DEF Next

\* Every step keeps the types: THREADNUM stays within the number of threads
\* because it counts some of them.
LEMMA TypeInductive ==
    ASSUME IInv, [Next]_vars
    PROVE  TypeOK'
<1> USE DEF IInv
<1>1. threadnum' \in 0..Cardinality(Threads) /\ late' \in Nat
  <2>1. Counted'
    BY CoreInductive DEF Core
  <2>2. In(Working)' \in SUBSET Threads
    BY DEF In
  <2>3. Cardinality(In(Working)') \in 0..Cardinality(Threads)
    BY <2>2, ThreadsAssumption, FS_Subset, FS_CardinalityType
  <2>4. late' \in {late, late + 1, 0}
    BY DEF Next, vars, server, MainStep, OwnStep, Clean, Look, End, Enter, Top, Accept, Answer,
       StartMap, Finish, Leave, TakeAccept, LockMCC, Mapped, Arrive, AskAbort, Tick, Pong,
       Timeout, MailFails, Restart, RestartThrows, Fresh, Again, Stop
  <2> QED
    BY <2>1, <2>3, <2>4 DEF Counted, TypeOK
<1>2. CASE UNCHANGED vars
  BY <1>1, <1>2 DEF TypeOK, vars, server, watchdog
<1>3. CASE MainStep
  <2>1. CASE Clean \/ Look
    BY <1>1, <2>1 DEF TypeOK, Clean, Look, watchdog
  <2>2. CASE End
    BY <1>1, <2>2, NoPending DEF TypeOK, End, watchdog
  <2> QED
    BY <1>3, <2>1, <2>2 DEF MainStep
<1>4. ASSUME NEW t \in Threads, OwnStep(t)
      PROVE  TypeOK'
  <2>1. CASE Enter(t) \/ Top(t) \/ Leave(t)
    BY <1>1, <2>1 DEF TypeOK, Enter, Top, Leave, Goto, States, watchdog
  <2>4. CASE Answer(t)
    BY <1>1, <2>4 DEF TypeOK, Answer, Goto, States
  <2>2. CASE StartMap(t) \/ Finish(t)
    BY <1>1, <2>2 DEF TypeOK, StartMap, Finish, Goto, States, watchdog
  <2>3. CASE Accept(t)
    <3>1. /\ pending' \in Seq(Kinds) /\ Len(pending') <= MaxPending /\ Head(pending) \in Kinds
      BY <2>3, HeadTailProperties, LenProperties, PendingAssumption DEF TypeOK, Accept
    <3>2. st' \in [Threads -> States] /\ job' \in [Threads -> Kinds]
      BY <2>3, <3>1 DEF TypeOK, Accept, Goto, States
    <3> QED
      BY <1>1, <2>3, <3>1, <3>2 DEF TypeOK, Accept, watchdog
  <2> QED
    BY <1>4, <2>1, <2>2, <2>3, <2>4 DEF OwnStep
<1>5. ASSUME NEW t \in Threads, TakeAccept(t) \/ LockMCC(t) \/ Mapped(t)
      PROVE  TypeOK'
  BY <1>1, <1>5 DEF TypeOK, TakeAccept, LockMCC, Mapped, Goto, States, watchdog
<1>6. CASE (\E k \in {"short", "map"} : Arrive(k)) \/ AskAbort
  <2>1. CASE \E k \in {"short", "map"} : Arrive(k)
    <3>1. pending' \in Seq(Kinds) /\ Len(pending') <= MaxPending
      BY <2>1, PendingAppend DEF TypeOK, Arrive, Kinds
    <3> QED
      BY <1>1, <2>1, <3>1 DEF TypeOK, Arrive, server, watchdog
  <2>2. CASE AskAbort
    BY <1>1, <2>2 DEF TypeOK, AskAbort, server, watchdog
  <2> QED
    BY <1>6, <2>1, <2>2
<1>7. CASE Tick \/ Again
  <2>1. pending' \in Seq(Kinds) /\ Len(pending') <= MaxPending
    BY <1>7, PendingAppend DEF TypeOK, Tick, Again, Kinds
  <2> QED
    BY <1>1, <1>7, <2>1 DEF TypeOK, Tick, Again, server
<1>8. CASE Pong \/ Stop
  BY <1>1, <1>8 DEF TypeOK, Pong, Stop, server
<1>9. CASE Timeout \/ MailFails
  <2>1. /\ pending' \in Seq(Kinds) /\ Len(pending') <= MaxPending
        /\ job' \in [Threads -> Kinds]
    BY <1>9, ForgetType DEF Timeout, MailFails
  <2> QED
    BY <1>1, <1>9, <2>1 DEF TypeOK, Timeout, MailFails
<1>10. CASE Restart
  <2>1. CASE Fresh /\ pending' = <<>> /\ UNCHANGED abort
    BY <1>1, <1>10, <2>1, NoPending DEF TypeOK, Restart, Fresh, States, Kinds
  <2>2. CASE /\ main' = "killed" /\ pending' = <<>>
             /\ UNCHANGED <<running, threadnum, st, job, work, mcc, late, abort, asked>>
    BY <1>1, <1>10, <2>2, NoPending DEF TypeOK, Restart
  <2>3. CASE abort' = FALSE /\ UNCHANGED <<server, pending, asked>>
    BY <1>1, <1>10, <2>3 DEF TypeOK, Restart, server
  <2> QED
    BY <1>10, <2>1, <2>2, <2>3 DEF Restart
<1>11. CASE RestartThrows
  BY <1>1, <1>11, NoPending DEF TypeOK, RestartThrows, server
<1> QED
  BY <1>2, <1>3, <1>4, <1>5, <1>6, <1>7, <1>8, <1>9, <1>10, <1>11 DEF Next

\* The inductive invariant holds in every reachable state.
THEOREM Invariance == Spec => []IInv
<1>1. Init => IInv
  <2> SUFFICES ASSUME Init PROVE IInv
    OBVIOUS
  <2>1. In(Working) = {}
    BY DEF Init, In, Working
  <2>2. TypeOK
    <3>1. 0 \in 0..Cardinality(Threads)
      BY ThreadsAssumption, FS_CardinalityType
    <3> QED
      BY <3>1, NoPending DEF Init, TypeOK, States, Kinds
  <2>3. Core
    BY <2>1, FS_EmptySet DEF Init, Core, Counted, LateCounted, AllBorn, Ending, AbortAsked,
       StopWasAsked, NoRequestCut
  <2> QED
    BY <2>2, <2>3 DEF IInv
<1>2. IInv /\ [Next]_vars => IInv'
  BY CoreInductive, TypeInductive DEF IInv
<1> QED
  BY <1>1, <1>2, PTL DEF Spec

\* Types of the server and of its watchdog: THREADNUM counts within the threads.
THEOREM TypeCorrect == Spec => []TypeOK
<1>1. IInv => TypeOK
  BY DEF IInv
<1> QED
  BY Invariance, <1>1, PTL

\* main returns only when every thread has ended: no request is cut.
THEOREM NoRequestCutThm == Spec => []NoRequestCut
<1>1. IInv => NoRequestCut
  BY DEF IInv, Core
<1> QED
  BY Invariance, <1>1, PTL

\* After the flag has fallen, no more requests are served than there are threads.
THEOREM FewAfterAbortThm == Spec => []FewAfterAbort
<1>1. IInv => FewAfterAbort
  BY InFinite DEF IInv, Core, TypeOK, LateCounted, FewAfterAbort
<1> QED
  BY Invariance, <1>1, PTL

\* A server that stops was asked to, itself and not a process before it.
THEOREM StopWasAskedThm == Spec => []StopWasAsked
<1>1. IInv => StopWasAsked
  BY DEF IInv, Core
<1> QED
  BY Invariance, <1>1, PTL
====
