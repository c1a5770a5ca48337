---- MODULE KmlCrawlerProofs ----
(***************************************************************************)
(* Download returns only when everything it was given and everything it    *)
(* found has been crawled, and its threads do what one that handles a URL  *)
(* at a time would: for any pages, links and number of threads.            *)
(***************************************************************************)
EXTENDS KmlCrawler, FiniteSetTheorems, SequenceTheorems, TLAPS

\* A thread that is done with Next() saw that every URL was done, and nothing
\* can be added since.
Finished == (\E t \in Threads : st[t] \in {"exit", "gone"}) => tu = Len(urls)

\* The counters count: URLs in work are the threads that work on one, and
\* numthreads the threads between Spawn and Exit.
Counts ==
    /\ u <= Len(urls)
    /\ u = tu + Cardinality(Busy)
    /\ numthreads = Cardinality(Alive)

\* Before the first thread nothing has been taken; Download only waits when it
\* has begun a thread or there was nothing to crawl.
Begun ==
    \/ \E t \in Threads : st[t] # "unborn"
    \/ u = 0 /\ tu = 0 /\ (main \in {"wait", "done"} => Len(urls) = 0)

\* Download ends when no thread is left.
Ended == main = "done" => Alive = {}

\* Every position taken is parsed, failed, or being worked on.
Fetching == {t \in Threads : st[t] \in {"fetch", "links"}}

Taken ==
    /\ 1 .. u = got \cup lost \cup {job[t] : t \in Fetching}
    /\ \A t \in Busy : job[t] \in 1 .. u

\* The links of a page are in the list once it is parsed; before, those not
\* yet pushed are in rest, unless a file of it was not unpacked.
Pushed ==
    /\ \A i \in got \ torn : Range(Links[urls[i]]) \subseteq Range(urls)
    /\ \A t \in Threads : st[t] = "links" /\ job[t] \notin torn =>
          Range(Links[urls[job[t]]]) \subseteq Range(urls) \cup Range(rest[t])

IInv == /\ TypeOK /\ Counts /\ Finished /\ Begun /\ Ended /\ TakenOnce /\ Taken /\ Pushed
----------------------------------------------------------------------------
(* Counting threads *)

\* A thread that joins a set of threads adds one to its size, one that leaves
\* it takes one off.
LEMMA JoinLeave ==
    ASSUME NEW S, S \subseteq Threads, NEW t \in Threads
    PROVE  /\ IsFiniteSet(S) /\ Cardinality(S) \in Nat
           /\ t \notin S => Cardinality(S \cup {t}) = Cardinality(S) + 1
           /\ t \in S => Cardinality(S \ {t}) = Cardinality(S) - 1 /\ Cardinality(S) > 0
           /\ Cardinality(S) = 0 => S = {}
<1>1. IsFiniteSet(S) /\ Cardinality(S) \in Nat
  BY ThreadsAssumption, FS_Subset, FS_CardinalityType
<1>2. t \notin S => Cardinality(S \cup {t}) = Cardinality(S) + 1
  BY <1>1, FS_AddElement
<1>3. Cardinality(S) = 0 => S = {}
  BY <1>1, FS_EmptySet
<1>4. t \in S => Cardinality(S \ {t}) = Cardinality(S) - 1 /\ Cardinality(S) > 0
  <2>1. SUFFICES ASSUME t \in S
                 PROVE  Cardinality(S \ {t}) = Cardinality(S) - 1 /\ Cardinality(S) > 0
    OBVIOUS
  <2>2. Cardinality(S \ {t}) = Cardinality(S) - 1
    BY <1>1, <2>1, FS_RemoveElement
  <2>3. Cardinality(S) # 0
    BY <1>3, <2>1
  <2> QED
    BY <1>1, <2>2, <2>3
<1> QED
  BY <1>1, <1>2, <1>3, <1>4

\* What each step of a thread does to the sets that the counters count.
LEMMA ThreadSets ==
    ASSUME TypeOK, NEW t \in Threads, DownloadThread(t)
    PROVE  /\ TakeUrl(t) => t \notin Busy /\ Busy' = Busy \cup {t} /\ Alive' = Alive
           /\ Tally(t) => t \in Busy /\ Busy' = Busy \ {t} /\ Alive' = Alive
           /\ Exit(t) => t \in Alive /\ Busy' = Busy /\ Alive' = Alive \ {t}
           /\ ~(TakeUrl(t) \/ Tally(t) \/ Exit(t)) => Busy' = Busy /\ Alive' = Alive
<1> USE DEF TypeOK, Goto, Busy, Alive, Working
<1>1. CASE TakeUrl(t)
  BY <1>1 DEF TakeUrl, Tally, Exit
<1>2. CASE Tally(t)
  BY <1>2 DEF TakeUrl, Tally, Exit
<1>3. CASE Exit(t)
  BY <1>3 DEF TakeUrl, Tally, Exit
<1>4. CASE Leave(t) \/ Fetch(t) \/ FetchFails(t)
  BY <1>4 DEF Leave, Fetch, FetchFails, TakeUrl, Tally, Exit
<1>5. CASE CountError(t) \/ PushLink(t) \/ BadEntry(t) \/ Parsed(t)
  BY <1>5 DEF CountError, PushLink, BadEntry, Parsed, TakeUrl, Tally, Exit
<1> QED
  BY <1>1, <1>2, <1>3, <1>4, <1>5 DEF DownloadThread

\* What PushLink does to the list and to the links left.
LEMMA PushFacts ==
    ASSUME TypeOK, NEW t \in Threads, PushLink(t)
    PROVE  /\ urls' \in Seq(Pages) /\ Len(urls') = Len(urls) + 1
           /\ \A i \in 1 .. Len(urls) : urls'[i] = urls[i]
           /\ Range(urls') = Range(urls) \cup {Head(rest[t])}
           /\ rest' \in [Threads -> Seq(Pages)]
           /\ Range(rest[t]) \subseteq Range(rest'[t]) \cup {Head(rest[t])}
           /\ \A s \in Threads : s # t => rest'[s] = rest[s]
<1> DEFINE r == rest[t]
<1>1. r \in Seq(Pages) /\ r # <<>> /\ urls' = Append(urls, Head(r))
      /\ rest' = [rest EXCEPT ![t] = Tail(r)] /\ urls \in Seq(Pages)
  BY DEF PushLink, TypeOK
<1>2. /\ Head(r) \in Pages /\ Tail(r) \in Seq(Pages) /\ Len(Tail(r)) = Len(r) - 1
      /\ \A i \in 1 .. Len(Tail(r)) : Tail(r)[i] = r[i + 1]
  BY <1>1, HeadTailProperties
<1>3. /\ urls' \in Seq(Pages) /\ Len(urls') = Len(urls) + 1
      /\ \A i \in 1 .. Len(urls) : urls'[i] = urls[i]
      /\ urls'[Len(urls) + 1] = Head(r)
  BY <1>1, <1>2, AppendProperties
<1>4. Range(urls') = Range(urls) \cup {Head(r)}
  <2>1. /\ Range(urls') = {urls'[i] : i \in 1 .. Len(urls')}
        /\ Range(urls) = {urls[i] : i \in 1 .. Len(urls)}
    BY <1>1, <1>3 DEF Range
  <2>2. Len(urls) \in Nat
    BY <1>1
  <2> QED
    BY <1>3, <2>1, <2>2
<1>5. Range(r) \subseteq Range(Tail(r)) \cup {Head(r)}
  <2>1. /\ Range(r) = {r[i] : i \in 1 .. Len(r)}
        /\ Range(Tail(r)) = {Tail(r)[i] : i \in 1 .. Len(Tail(r))}
    BY <1>1, <1>2, RangeEquality
  <2>2. ASSUME NEW i \in 1 .. Len(r)
        PROVE  r[i] \in Range(Tail(r)) \cup {Head(r)}
    <3>1. CASE i = 1
      BY <1>1, <3>1
    <3>2. CASE i # 1
      <4>1. i - 1 \in 1 .. Len(Tail(r)) /\ (i - 1) + 1 = i
        BY <1>1, <1>2, <3>2
      <4>2. Tail(r)[i - 1] = r[i]
        BY <1>2, <4>1
      <4> QED
        BY <2>1, <4>1, <4>2
    <3> QED
      BY <3>1, <3>2
  <2> QED
    BY <2>1, <2>2
<1>6. rest' \in [Threads -> Seq(Pages)] /\ rest'[t] = Tail(r)
  BY <1>1, <1>2 DEF TypeOK
<1>7. \A s \in Threads : s # t => rest'[s] = rest[s]
  BY <1>1 DEF TypeOK
<1> QED
  BY <1>3, <1>4, <1>5, <1>6, <1>7

\* What BadEntry does to the links left.
LEMMA BadEntryFacts ==
    ASSUME TypeOK, NEW t \in Threads, BadEntry(t)
    PROVE  \E n \in 0 .. Len(rest[t]), l \in Leftovers :
              /\ rest' \in [Threads -> Seq(Pages)]
              /\ rest'[t] = l \o SubSeq(rest[t], n + 1, Len(rest[t]))
              /\ \A s \in Threads : s # t => rest'[s] = rest[s]
<1> DEFINE r == rest[t]
<1>1. r \in Seq(Pages) /\ rest \in [Threads -> Seq(Pages)]
  BY DEF TypeOK
<1>2. PICK n \in 0 .. Len(r), l \in Leftovers :
          rest' = [rest EXCEPT ![t] = l \o SubSeq(r, n + 1, Len(r))]
  BY DEF BadEntry
<1> DEFINE q == SubSeq(r, n + 1, Len(r))
<1>3. q \in Seq(Pages)
  <2>1. Len(r) \in Nat /\ \A i \in 1 .. Len(r) : r[i] \in Pages
    BY <1>1, LenProperties, ElementOfSeq
  <2>2. \A i \in n + 1 .. Len(r) : r[i] \in Pages
    BY <2>1
  <2> QED
    BY <1>1, <2>1, <2>2, SubSeqProperties
<1>4. l \o q \in Seq(Pages)
  BY <1>3, ArchivesAssumption, ConcatProperties
<1> HIDE DEF q
<1>5. /\ rest' \in [Threads -> Seq(Pages)] /\ rest'[t] = l \o q
      /\ \A s \in Threads : s # t => rest'[s] = rest[s]
  BY <1>1, <1>2, <1>4 DEF q
<1> QED
  BY <1>5 DEF q

----------------------------------------------------------------------------
(* One lemma per part of the invariant *)

\* A thread in work holds a position of the list, so there is a page to fetch.
LEMMA JobInList ==
    ASSUME IInv, NEW t \in Busy
    PROVE  job[t] \in 1 .. Len(urls) /\ urls[job[t]] \in Pages
<1>1. job[t] \in 1 .. u /\ u \in Nat /\ u <= Len(urls) /\ urls \in Seq(Pages)
  BY DEF IInv, TypeOK, Taken, Counts
<1>2. job[t] \in 1 .. Len(urls)
  BY <1>1
<1> QED
  BY <1>1, <1>2, ElementOfSeq

LEMMA TypeStep ==
    ASSUME IInv, [Next]_vars
    PROVE  TypeOK'
<1>1. TypeOK
  BY DEF IInv
<1>2. CASE Download
  <2>1. CASE Ramp \/ Wait
    BY <1>1, <2>1 DEF TypeOK, Ramp, Wait, shared
  <2>2. CASE Spawn
    BY <1>1, <2>2 DEF TypeOK, Spawn, Goto, States
  <2> QED
    BY <1>2, <2>1, <2>2 DEF Download
<1>3. ASSUME NEW t \in Threads, DownloadThread(t)
      PROVE  TypeOK'
  <2>1. CASE TakeUrl(t) \/ Leave(t)
    <3>1. CASE TakeUrl(t)
      BY <1>1, <3>1 DEF TypeOK, TakeUrl, Goto, States, shared
    <3>2. CASE Leave(t)
      BY <1>1, <3>2 DEF TypeOK, Leave, Goto, States, shared
    <3> QED
      BY <2>1, <3>1, <3>2
  <2>2. CASE Fetch(t)
    <3>1. t \in Busy
      BY <2>2 DEF Fetch, Busy, Working
    <3>2. Links[urls[job[t]]] \in Seq(Pages)
      BY <3>1, JobInList, PagesAssumption
    <3> HIDE PagesAssumption
    <3> DEFINE l == Links[urls[job[t]]]
    <3>3. l \in Seq(Pages)
      BY <3>2
    <3>4. rest' = [rest EXCEPT ![t] = l]
      BY <2>2 DEF Fetch
    <3> HIDE DEF l
    <3>5. rest' \in [Threads -> Seq(Pages)]
      BY <1>1, <3>3, <3>4 DEF TypeOK
    <3> QED
      BY <1>1, <2>2, <3>5 DEF TypeOK, Fetch, Goto, States, shared
  <2>3. CASE FetchFails(t) \/ CountError(t)
    <3>1. CASE FetchFails(t)
      BY <1>1, <3>1 DEF TypeOK, FetchFails, Goto, States, shared
    <3>2. CASE CountError(t)
      BY <1>1, <3>2 DEF TypeOK, CountError, Goto, States, shared
    <3> QED
      BY <2>3, <3>1, <3>2
  <2>4. CASE PushLink(t)
    <3>1. urls' \in Seq(Pages) /\ rest' \in [Threads -> Seq(Pages)]
      BY <1>1, <2>4, PushFacts
    <3> QED
      BY <1>1, <2>4, <3>1 DEF TypeOK, PushLink
  <2>7. CASE BadEntry(t)
    <3>1. rest' \in [Threads -> Seq(Pages)]
      BY <1>1, <2>7, BadEntryFacts
    <3> QED
      BY <1>1, <2>7, <3>1 DEF TypeOK, BadEntry, shared
  <2>5. CASE Parsed(t) \/ Tally(t)
    <3>1. CASE Parsed(t)
      BY <1>1, <3>1 DEF TypeOK, Parsed, Goto, States, shared
    <3>2. CASE Tally(t)
      BY <1>1, <3>2 DEF TypeOK, Tally, Goto, States, shared
    <3> QED
      BY <2>5, <3>1, <3>2
  <2>6. CASE Exit(t)
    <3>1. t \in Alive /\ Alive \subseteq Threads
      BY <2>6 DEF Exit, Alive
    <3>2. numthreads \in Nat /\ numthreads > 0
      BY <1>1, <3>1, JoinLeave DEF IInv, Counts, TypeOK
    <3> QED
      BY <1>1, <2>6, <3>2 DEF TypeOK, Exit, Goto, States
  <2> QED
    BY <1>3, <2>1, <2>2, <2>3, <2>4, <2>5, <2>6, <2>7 DEF DownloadThread
<1>4. CASE UNCHANGED vars
  BY <1>1, <1>4 DEF TypeOK, vars
<1> QED
  BY <1>2, <1>3, <1>4 DEF Next, Terminated

\* What each step of Download does to the sets that the counters count.
LEMMA MainSets ==
    ASSUME TypeOK, Download
    PROVE  /\ Busy' = Busy
           /\ UNCHANGED <<urls, u, tu, job, rest, got, lost, torn, error>>
           /\ \/ Alive' = Alive /\ UNCHANGED <<st, numthreads>>
              \/ \E t \in Threads : t \notin Alive /\ Alive' = Alive \cup {t}
                                    /\ numthreads' = numthreads + 1
<1>1. CASE Ramp \/ Wait
  BY <1>1 DEF Ramp, Wait, Busy, Alive, shared
<1>2. CASE Spawn
  BY <1>2 DEF Spawn, Busy, Alive, Working, Goto, TypeOK
<1> QED
  BY <1>1, <1>2 DEF Download

LEMMA CountsStep ==
    ASSUME IInv, [Next]_vars
    PROVE  Counts'
<1>1. /\ TypeOK /\ Counts
      /\ Busy \subseteq Threads /\ Alive \subseteq Threads
      /\ u \in Nat /\ tu \in Nat /\ numthreads \in Nat /\ Len(urls) \in Nat
  BY DEF IInv, TypeOK, Busy, Alive
<1>2. CASE Download
  BY <1>1, <1>2, MainSets, JoinLeave DEF Counts
<1>3. ASSUME NEW t \in Threads, DownloadThread(t)
      PROVE  Counts'
  <2>1. CASE TakeUrl(t)
    <3>1. t \notin Busy /\ Busy' = Busy \cup {t} /\ Alive' = Alive
      BY <1>1, <1>3, <2>1, ThreadSets
    <3>2. Cardinality(Busy') = Cardinality(Busy) + 1 /\ Cardinality(Busy) \in Nat
      BY <1>1, <3>1, JoinLeave
    <3> QED
      BY <1>1, <2>1, <3>1, <3>2 DEF Counts, TakeUrl
  <2>2. CASE Tally(t)
    <3>1. t \in Busy /\ Busy' = Busy \ {t} /\ Alive' = Alive
      BY <1>1, <1>3, <2>2, ThreadSets
    <3>2. Cardinality(Busy') = Cardinality(Busy) - 1 /\ Cardinality(Busy) \in Nat
      BY <1>1, <3>1, JoinLeave
    <3> QED
      BY <1>1, <2>2, <3>1, <3>2 DEF Counts, Tally
  <2>3. CASE Exit(t)
    <3>1. t \in Alive /\ Alive' = Alive \ {t} /\ Busy' = Busy
      BY <1>1, <1>3, <2>3, ThreadSets
    <3>2. Cardinality(Alive') = Cardinality(Alive) - 1
      BY <1>1, <3>1, JoinLeave
    <3> QED
      BY <1>1, <2>3, <3>1, <3>2 DEF Counts, Exit
  <2>4. CASE ~(TakeUrl(t) \/ Tally(t) \/ Exit(t))
    <3>1. Busy' = Busy /\ Alive' = Alive
      BY <1>1, <1>3, <2>4, ThreadSets
    <3>2. CASE PushLink(t)
      <4>1. Len(urls') = Len(urls) + 1
        BY <1>1, <3>2, PushFacts
      <4> QED
        BY <1>1, <3>1, <3>2, <4>1 DEF Counts, PushLink
    <3>3. CASE Leave(t)
      <4>1. Cardinality(Busy) \in Nat
        BY <1>1, <1>3, JoinLeave
      <4>2. tu = Len(urls) /\ u = Len(urls)
        BY <1>1, <3>3, <4>1 DEF Counts, Leave
      <4> QED
        BY <1>1, <3>1, <3>3, <4>2 DEF Counts, Leave
    <3>4. CASE Fetch(t) \/ FetchFails(t) \/ CountError(t) \/ BadEntry(t) \/ Parsed(t)
      BY <1>1, <3>1, <3>4
      DEF Counts, Fetch, FetchFails, CountError, BadEntry, Parsed, shared
    <3> QED
      BY <1>3, <2>4, <3>2, <3>3, <3>4 DEF DownloadThread
  <2> QED
    BY <2>1, <2>2, <2>3, <2>4
<1>4. CASE UNCHANGED vars
  BY <1>1, <1>4 DEF Counts, vars, Busy, Alive
<1> QED
  BY <1>2, <1>3, <1>4 DEF Next, Terminated

\* While a thread works on a URL not every URL is done.
LEMMA NotFinished ==
    ASSUME IInv, NEW t \in Busy
    PROVE  tu < u /\ tu < Len(urls) /\ \A s \in Threads : st[s] \notin {"exit", "gone"}
<1>1. /\ TypeOK /\ Counts /\ Finished /\ Busy \subseteq Threads /\ t \in Threads
      /\ u \in Nat /\ tu \in Nat /\ Len(urls) \in Nat
  BY DEF IInv, TypeOK, Busy
<1>2. Cardinality(Busy) > 0 /\ Cardinality(Busy) \in Nat
  BY <1>1, JoinLeave
<1>3. tu < u /\ tu < Len(urls)
  BY <1>1, <1>2 DEF Counts
<1> QED
  BY <1>1, <1>3 DEF Finished

LEMMA FinishedStep ==
    ASSUME IInv, [Next]_vars
    PROVE  Finished'
<1>1. TypeOK /\ Finished
  BY DEF IInv
<1>2. CASE Download
  BY <1>1, <1>2 DEF Finished, Download, Ramp, Spawn, Wait, Goto, TypeOK, shared
<1>3. ASSUME NEW t \in Threads, DownloadThread(t)
      PROVE  Finished'
  <2>1. CASE TakeUrl(t) \/ Leave(t)
    BY <1>1, <2>1 DEF Finished, TakeUrl, Leave, Goto, TypeOK
  <2>2. CASE t \in Busy
    <3>1. \A s \in Threads : st[s] \notin {"exit", "gone"}
      BY <2>2, NotFinished
    <3>2. st'[t] \notin {"exit", "gone"} /\ \A s \in Threads : s # t => st'[s] = st[s]
      BY <1>1, <1>3, <2>2
      DEF DownloadThread, TakeUrl, Leave, Fetch, FetchFails, CountError, PushLink, BadEntry,
          Parsed, Tally, Exit, Goto, TypeOK, Busy, Working
    <3> QED
      BY <3>1, <3>2 DEF Finished
  <2>3. CASE Exit(t)
    BY <1>1, <2>3 DEF Finished, Exit, Goto, TypeOK
  <2> QED
    BY <1>3, <2>1, <2>2, <2>3
    DEF DownloadThread, Fetch, FetchFails, CountError, PushLink, BadEntry, Parsed, Tally,
        Busy, Working
<1>4. CASE UNCHANGED vars
  BY <1>1, <1>4 DEF Finished, vars
<1> QED
  BY <1>2, <1>3, <1>4 DEF Next, Terminated

LEMMA BegunStep ==
    ASSUME IInv, [Next]_vars
    PROVE  Begun'
<1>1. TypeOK /\ Counts /\ Begun
  BY DEF IInv
<1>2. CASE \E t \in Threads : st[t] # "unborn"
  <2>1. PICK t \in Threads : st[t] # "unborn"
    BY <1>2
  <2>2. st'[t] # "unborn"
    <3>1. CASE Download \/ UNCHANGED vars
      BY <1>1, <2>1, <3>1
      DEF Download, Ramp, Spawn, Wait, Goto, TypeOK, shared, vars
    <3>2. ASSUME NEW s \in Threads, DownloadThread(s)
          PROVE  st'[t] # "unborn"
      BY <1>1, <2>1, <3>2
      DEF DownloadThread, TakeUrl, Leave, Fetch, FetchFails, CountError, PushLink, BadEntry,
          Parsed, Tally, Exit, Goto, TypeOK
    <3> QED
      BY <3>1, <3>2 DEF Next, Terminated
  <2> QED
    BY <2>2 DEF Begun
<1>3. CASE \A t \in Threads : st[t] = "unborn"
  <2>1. u = 0 /\ tu = 0 /\ (main \in {"wait", "done"} => Len(urls) = 0)
    BY <1>1, <1>3 DEF Begun
  <2>2. CASE Ramp
    <3>1. Alive = {}
      BY <1>3 DEF Alive
    <3>2. numthreads = 0
      BY <1>1, <3>1, FS_EmptySet DEF Counts
    <3>3. Cardinality(Threads) > 0
      BY ThreadsAssumption, FS_EmptySet, FS_CardinalityType
    <3>4. Len(urls) \in Nat
      BY <1>1 DEF TypeOK
    <3> QED
      BY <2>1, <2>2, <3>2, <3>3, <3>4 DEF Begun, Ramp, shared
  <2>3. CASE Spawn
    BY <1>1, <2>3 DEF Begun, Spawn, Goto, TypeOK
  <2>4. CASE Wait \/ UNCHANGED vars
    BY <2>1, <2>4 DEF Begun, Wait, vars, shared
  <2>5. ASSUME NEW t \in Threads, DownloadThread(t)
        PROVE  FALSE
    BY <1>3, <2>5
    DEF DownloadThread, TakeUrl, Leave, Fetch, FetchFails, CountError, PushLink, BadEntry,
        Parsed, Tally, Exit
  <2> QED
    BY <2>2, <2>3, <2>4, <2>5 DEF Next, Download, Terminated
<1> QED
  BY <1>2, <1>3

LEMMA EndedStep ==
    ASSUME IInv, [Next]_vars
    PROVE  Ended'
<1>1. TypeOK /\ Counts /\ Ended
  BY DEF IInv
<1>2. CASE Wait
  <2>1. numthreads \in Nat /\ Cardinality(Alive) = numthreads /\ Alive' = Alive
    BY <1>1, <1>2 DEF TypeOK, Counts, Wait, Alive
  <2>2. numthreads = 0 => Alive = {}
    BY <2>1, JoinLeave, ThreadsAssumption DEF Alive
  <2> QED
    BY <1>2, <2>1, <2>2 DEF Ended, Wait
<1>3. CASE Ramp \/ Spawn
  BY <1>3 DEF Ended, Ramp, Spawn
<1>4. ASSUME NEW t \in Threads, DownloadThread(t)
      PROVE  Ended'
  <2>1. t \in Alive /\ main' = main
    BY <1>4
    DEF DownloadThread, TakeUrl, Leave, Fetch, FetchFails, CountError, PushLink, BadEntry,
        Parsed, Tally, Exit, Alive
  <2> QED
    BY <1>1, <2>1 DEF Ended
<1>5. CASE UNCHANGED vars
  BY <1>1, <1>5 DEF Ended, vars, Alive
<1> QED
  BY <1>2, <1>3, <1>4, <1>5 DEF Next, Download, Terminated

LEMMA TakenStep ==
    ASSUME IInv, [Next]_vars
    PROVE  Taken'
<1>1. /\ TypeOK /\ Counts /\ Taken /\ u \in Nat /\ tu \in Nat /\ Len(urls) \in Nat
  BY DEF IInv, TypeOK
<1>2. CASE Download
  <2>1. Fetching' = Fetching /\ Busy' = Busy /\ UNCHANGED <<u, job, got, lost>>
    <3>1. Fetching' = Fetching
      BY <1>1, <1>2 DEF Download, Ramp, Spawn, Wait, Goto, TypeOK, Fetching
    <3> QED
      BY <1>1, <1>2, <3>1, MainSets
  <2> QED
    BY <1>1, <2>1 DEF Taken
<1>3. ASSUME NEW t \in Threads, DownloadThread(t)
      PROVE  Taken'
  <2>1. CASE TakeUrl(t)
    <3>1. /\ t \notin Fetching /\ Fetching' = Fetching \cup {t}
          /\ t \notin Busy /\ Busy' = Busy \cup {t}
          /\ Fetching \subseteq Threads /\ Busy \subseteq Threads
      BY <1>1, <2>1 DEF TakeUrl, Goto, TypeOK, Fetching, Busy, Working
    <3>2. /\ u' = u + 1 /\ job'[t] = u + 1 /\ got' = got /\ lost' = lost
          /\ \A s \in Threads : s # t => job'[s] = job[s]
      BY <1>1, <2>1 DEF TakeUrl, TypeOK
    <3>3. 1 .. u' = 1 .. u \cup {u + 1}
      BY <1>1, <3>2
    <3>4. {job'[s] : s \in Fetching'} = {job[s] : s \in Fetching} \cup {u + 1}
      BY <3>1, <3>2
    <3>5. \A s \in Busy' : job'[s] \in 1 .. u'
      BY <1>1, <3>1, <3>2, <3>3 DEF Taken
    <3> QED
      BY <1>1, <3>2, <3>3, <3>4, <3>5 DEF Taken
  <2>2. CASE Leave(t)
    <3>1. tu = Len(urls) /\ u = Len(urls)
      <4>1. Cardinality(Busy) \in Nat
        BY <1>3, JoinLeave DEF Busy
      <4> QED
        BY <1>1, <2>2, <4>1 DEF Counts, Leave
    <3>2. /\ u' = u /\ UNCHANGED <<job, got, lost>>
          /\ Fetching' = Fetching /\ Busy' = Busy
      BY <1>1, <2>2, <3>1 DEF Leave, Goto, TypeOK, Fetching, Busy, Working
    <3> QED
      BY <1>1, <3>2 DEF Taken
  <2>3. CASE FetchFails(t) \/ Parsed(t)
    <3>1. /\ t \in Fetching /\ Fetching' = Fetching \ {t} /\ Busy' = Busy
          /\ u' = u /\ job' = job
          /\ got' \cup lost' = got \cup lost \cup {job[t]}
      BY <1>1, <2>3
      DEF FetchFails, Parsed, Goto, TypeOK, Fetching, Busy, Working, shared
    <3>2. {job[s] : s \in Fetching'} \cup {job[t]} = {job[s] : s \in Fetching}
      BY <3>1
    <3> QED
      BY <1>1, <3>1, <3>2 DEF Taken
  <2>4. CASE Fetch(t) \/ CountError(t) \/ PushLink(t) \/ BadEntry(t) \/ Tally(t) \/ Exit(t)
    <3>1. Fetching' = Fetching /\ Busy' \subseteq Busy /\ UNCHANGED <<u, job, got, lost>>
      BY <1>1, <2>4
      DEF Fetch, CountError, PushLink, BadEntry, Tally, Exit, Goto, TypeOK, Fetching,
          Busy, Working, shared
    <3> QED
      BY <1>1, <3>1 DEF Taken
  <2> QED
    BY <1>3, <2>1, <2>2, <2>3, <2>4 DEF DownloadThread
<1>4. CASE UNCHANGED vars
  BY <1>1, <1>4 DEF Taken, vars, Fetching, Busy
<1> QED
  BY <1>2, <1>3, <1>4 DEF Next, Terminated

LEMMA TakenOnceStep ==
    ASSUME IInv, [Next]_vars
    PROVE  TakenOnce'
<1>1. TypeOK /\ Taken /\ TakenOnce /\ u \in Nat
  BY DEF IInv, TypeOK
<1>2. CASE Download
  <2>1. Busy' = Busy /\ UNCHANGED <<job, got, lost>>
    BY <1>1, <1>2, MainSets
  <2>2. \A t \in Busy : st'[t] = st[t]
    BY <1>1, <1>2 DEF Download, Ramp, Spawn, Wait, Goto, TypeOK, Busy, Working
  <2> QED
    BY <1>1, <2>1, <2>2 DEF TakenOnce
<1>3. ASSUME NEW t \in Threads, DownloadThread(t)
      PROVE  TakenOnce'
  <2>1. CASE TakeUrl(t)
    <3>1. /\ t \notin Busy /\ Busy' = Busy \cup {t} /\ Busy \subseteq Threads
          /\ job'[t] = u + 1 /\ got' = got /\ lost' = lost
          /\ \A s \in Busy : job'[s] = job[s] /\ st'[s] = st[s]
      BY <1>1, <2>1 DEF TakeUrl, Goto, TypeOK, Busy, Working
    <3>2. u + 1 \notin got \cup lost /\ \A s \in Busy : job[s] # u + 1
      BY <1>1 DEF Taken
    <3> QED
      BY <1>1, <3>1, <3>2 DEF TakenOnce
  <2>2. CASE FetchFails(t) \/ Parsed(t)
    <3>1. /\ t \in Busy /\ Busy' = Busy /\ job' = job
          /\ st[t] \in {"fetch", "links"} /\ st'[t] \notin {"fetch", "links"}
          /\ \A s \in Busy : s # t => st'[s] = st[s]
          /\ \/ got' = got /\ lost' = lost \cup {job[t]}
             \/ lost' = lost /\ got' = got \cup {job[t]}
      BY <1>1, <2>2
      DEF FetchFails, Parsed, Goto, TypeOK, Busy, Working, shared
    <3>2. job[t] \notin got \cup lost /\ got \cap lost = {}
      BY <1>1, <3>1 DEF TakenOnce
    <3>3. \A s \in Busy : s # t => job[s] # job[t]
      BY <1>1, <3>1 DEF TakenOnce
    <3>4. \A s \in Busy : st'[s] \in {"fetch", "links"} => job[s] \notin got' \cup lost'
      BY <1>1, <3>1, <3>3 DEF TakenOnce
    <3> QED
      BY <1>1, <3>1, <3>2, <3>4 DEF TakenOnce
  <2>3. CASE \/ Leave(t) \/ Fetch(t) \/ CountError(t) \/ PushLink(t) \/ BadEntry(t)
            \/ Tally(t) \/ Exit(t)
    <3>1. /\ Busy' \subseteq Busy /\ UNCHANGED <<job, got, lost>>
          /\ \A s \in Busy' : st'[s] \in {"fetch", "links"} => st[s] \in {"fetch", "links"}
      BY <1>1, <2>3
      DEF Leave, Fetch, CountError, PushLink, BadEntry, Tally, Exit, Goto, TypeOK,
          Busy, Working, shared
    <3> QED
      BY <1>1, <3>1 DEF TakenOnce
  <2> QED
    BY <1>3, <2>1, <2>2, <2>3 DEF DownloadThread
<1>4. CASE UNCHANGED vars
  BY <1>1, <1>4 DEF TakenOnce, vars, Busy
<1> QED
  BY <1>2, <1>3, <1>4 DEF Next, Terminated

\* The list only grows, and a page is parsed when none of its links is left.
LEMMA PushedStep ==
    ASSUME IInv, [Next]_vars
    PROVE  Pushed'
<1>1. /\ TypeOK /\ Pushed /\ Taken /\ u \in Nat /\ Len(urls) \in Nat
      /\ \A i \in got : i \in 1 .. Len(urls)
  BY DEF IInv, TypeOK, Taken, Counts
<1>2. CASE Download
  <2>1. UNCHANGED <<urls, job, rest, got, torn>>
    BY <1>1, <1>2, MainSets
  <2>2. \A t \in Threads : st'[t] = "links" => st[t] = "links"
    BY <1>1, <1>2 DEF Download, Ramp, Spawn, Wait, Goto, TypeOK
  <2> QED
    BY <1>1, <2>1, <2>2 DEF Pushed
<1>3. ASSUME NEW t \in Threads, DownloadThread(t)
      PROVE  Pushed'
  <2>1. CASE Fetch(t)
    <3>1. /\ UNCHANGED <<urls, job, got, torn>>
          /\ rest'[t] = Links[urls[job[t]]]
          /\ \A s \in Threads : s # t => st'[s] = st[s] /\ rest'[s] = rest[s]
      BY <1>1, <2>1 DEF Fetch, Goto, TypeOK, shared
    <3> QED
      BY <1>1, <3>1 DEF Pushed
  <2>2. CASE PushLink(t)
    <3>1. UNCHANGED <<st, job, got, torn>> /\ st[t] = "links"
      BY <2>2 DEF PushLink
    <3>2. /\ \A i \in 1 .. Len(urls) : urls'[i] = urls[i]
          /\ Range(urls') = Range(urls) \cup {Head(rest[t])}
          /\ Range(rest[t]) \subseteq Range(rest'[t]) \cup {Head(rest[t])}
          /\ \A s \in Threads : s # t => rest'[s] = rest[s]
      BY <1>1, <2>2, PushFacts
    <3>3. \A s \in Threads : st[s] = "links" => job[s] \in 1 .. Len(urls)
      BY JobInList DEF Busy, Working
    <3>4. \A i \in got' \ torn' : Range(Links[urls'[i]]) \subseteq Range(urls')
      BY <1>1, <3>1, <3>2 DEF Pushed
    <3>5. ASSUME NEW s \in Threads, st[s] = "links", job[s] \notin torn
          PROVE  Range(Links[urls'[job[s]]]) \subseteq Range(urls') \cup Range(rest'[s])
      <4>1. /\ urls'[job[s]] = urls[job[s]]
            /\ Range(Links[urls[job[s]]]) \subseteq Range(urls) \cup Range(rest[s])
        BY <1>1, <3>2, <3>3, <3>5 DEF Pushed
      <4>2. CASE s = t
        BY <3>2, <4>1, <4>2
      <4>3. CASE s # t
        BY <3>2, <4>1, <4>3
      <4> QED
        BY <4>2, <4>3
    <3> QED
      BY <3>1, <3>4, <3>5 DEF Pushed
  <2>3. CASE Parsed(t)
    <3>1. /\ UNCHANGED <<urls, job, rest, torn>> /\ got' = got \cup {job[t]}
          /\ st[t] = "links" /\ rest[t] = <<>>
          /\ \A s \in Threads : st'[s] = "links" => st[s] = "links"
      BY <1>1, <2>3 DEF Parsed, Goto, TypeOK, shared
    <3>2. Range(rest[t]) = {}
      BY <3>1 DEF Range
    <3>3. job[t] \in torn \/ Range(Links[urls[job[t]]]) \subseteq Range(urls)
      BY <1>1, <3>1, <3>2 DEF Pushed
    <3> QED
      BY <1>1, <3>1, <3>3 DEF Pushed
  <2>6. CASE BadEntry(t)
    <3>1. /\ UNCHANGED <<urls, st, job, got>> /\ torn' = torn \cup {job[t]}
          /\ \A s \in Threads : s # t => rest'[s] = rest[s]
      BY <1>1, <2>6, BadEntryFacts DEF BadEntry, shared
    <3> QED
      BY <1>1, <3>1 DEF Pushed
  <2>4. CASE TakeUrl(t)
    <3>1. /\ UNCHANGED <<urls, rest, got, torn>> /\ st'[t] # "links"
          /\ \A s \in Threads : s # t => st'[s] = st[s] /\ job'[s] = job[s]
      BY <1>1, <2>4 DEF TakeUrl, Goto, TypeOK
    <3> QED
      BY <1>1, <3>1 DEF Pushed
  <2>5. CASE Leave(t) \/ FetchFails(t) \/ CountError(t) \/ Tally(t) \/ Exit(t)
    <3>1. /\ UNCHANGED <<urls, job, rest, got, torn>>
          /\ \A s \in Threads : st'[s] = "links" => st[s] = "links"
      BY <1>1, <2>5
      DEF Leave, FetchFails, CountError, Tally, Exit, Goto, TypeOK, shared
    <3> QED
      BY <1>1, <3>1 DEF Pushed
  <2> QED
    BY <1>3, <2>1, <2>2, <2>3, <2>4, <2>5, <2>6 DEF DownloadThread
<1>4. CASE UNCHANGED vars
  BY <1>1, <1>4 DEF Pushed, vars
<1> QED
  BY <1>2, <1>3, <1>4 DEF Next, Terminated

----------------------------------------------------------------------------
(* Theorems *)

LEMMA InitIInv ==
    ASSUME Init
    PROVE  IInv
<1>1. Busy = {} /\ Alive = {} /\ Fetching = {} /\ Cardinality({}) = 0
  BY FS_EmptySet DEF Init, Busy, Working, Alive, Fetching
<1>2. TypeOK
  BY PagesAssumption DEF Init, TypeOK, States
<1>3. Len(urls) \in Nat
  BY <1>2 DEF TypeOK
<1>4. Counts /\ Finished /\ Begun /\ Ended
  BY <1>1, <1>3 DEF Init, Counts, Finished, Begun, Ended
<1>5. Taken /\ TakenOnce
  BY <1>1 DEF Init, Taken, TakenOnce
<1>6. Pushed
  BY DEF Init, Pushed
<1> QED
  BY <1>2, <1>4, <1>5, <1>6 DEF IInv

LEMMA Inductive == IInv /\ [Next]_vars => IInv'
BY TypeStep, CountsStep, FinishedStep, BegunStep, EndedStep, TakenStep,
   TakenOnceStep, PushedStep DEF IInv

\* The fields of DownloadKML and the locals of its threads keep their types,
\* and the counters keep counting what they are read as.
THEOREM Invariance == Spec => []IInv
<1>1. Init => IInv
  BY InitIInv
<1> QED
  BY <1>1, Inductive, PTL DEF Spec

\* Type correctness of DownloadKML.
THEOREM TypeCorrect == Spec => []TypeOK
<1>1. IInv => TypeOK
  BY DEF IInv
<1> QED
  BY <1>1, Invariance, PTL

\* No URL is downloaded by two threads, nor again after it was done.
THEOREM TakenOnceThm == Spec => []TakenOnce
<1>1. IInv => TakenOnce
  BY DEF IInv
<1> QED
  BY <1>1, Invariance, PTL

\* An empty list of threads means that as many URLs are done as were taken,
\* and the threads that left saw that no URL was left.
LEMMA DoneComplete == IInv => Complete
<1>1. SUFFICES ASSUME IInv, main = "done"
               PROVE  /\ 1 .. Len(urls) = got \cup lost
                      /\ \A i \in got \ torn : Range(Links[urls[i]]) \subseteq Range(urls)
                      /\ Busy = {}
  BY DEF Complete
<1>2. /\ TypeOK /\ Counts /\ Finished /\ Begun /\ Taken /\ Pushed /\ Alive = {}
      /\ u \in Nat /\ tu \in Nat /\ Len(urls) \in Nat
  BY <1>1 DEF IInv, Ended, TypeOK
<1>3. Busy = {} /\ Fetching = {}
  BY <1>2 DEF Busy, Working, Alive, Fetching
<1>4. u = tu
  BY <1>2, <1>3, FS_EmptySet DEF Counts
<1>5. tu = Len(urls)
  <2>1. CASE \E t \in Threads : st[t] # "unborn"
    <3>1. \E t \in Threads : st[t] = "gone"
      BY <1>2, <2>1 DEF Alive
    <3> QED
      BY <1>2, <3>1 DEF Finished
  <2>2. CASE ~\E t \in Threads : st[t] # "unborn"
    BY <1>1, <1>2, <2>2 DEF Begun
  <2> QED
    BY <2>1, <2>2
<1> QED
  BY <1>2, <1>3, <1>4, <1>5 DEF Taken, Pushed

\* Download returns only when every URL it was given or found has been parsed
\* or has failed, with no thread left at work.
THEOREM CompleteThm == Spec => []Complete
BY DoneComplete, Invariance, PTL

\* An error is counted as soon as a URL has failed, or is about to be: a lost
\* increment still leaves a count above zero.
Errors ==
    /\ (error > 0 \/ \E t \in Threads : st[t] = "err") => lost # {}
    /\ lost # {} => error > 0 \/ \E t \in Threads : st[t] = "err"

LEMMA ErrorsStep ==
    ASSUME IInv, Errors, [Next]_vars
    PROVE  Errors'
<1>1. TypeOK /\ error \in Nat
  BY DEF IInv, TypeOK
<1>2. CASE Download
  <2>1. error' = error /\ lost' = lost
    BY <1>1, <1>2, MainSets
  <2>2. \A t \in Threads : st'[t] = "err" <=> st[t] = "err"
    BY <1>1, <1>2 DEF Download, Ramp, Spawn, Wait, Goto, TypeOK
  <2> QED
    BY <2>1, <2>2 DEF Errors
<1>3. ASSUME NEW t \in Threads, DownloadThread(t)
      PROVE  Errors'
  <2>1. CASE FetchFails(t)
    <3>1. lost' # {} /\ st'[t] = "err"
      BY <1>1, <2>1 DEF FetchFails, Goto, TypeOK
    <3> QED
      BY <3>1 DEF Errors
  <2>2. CASE CountError(t)
    <3>1. reg[t] \in Nat /\ error' = reg[t] + 1 /\ lost' = lost /\ st[t] = "err"
      BY <1>1, <2>2 DEF CountError, TypeOK
    <3>2. error' > 0 /\ lost' # {}
      BY <3>1 DEF Errors
    <3> QED
      BY <3>2 DEF Errors
  <2>3. CASE ~(FetchFails(t) \/ CountError(t))
    <3>1. error' = error /\ lost' = lost
      BY <1>3, <2>3
      DEF DownloadThread, TakeUrl, Leave, Fetch, PushLink, BadEntry, Parsed, Tally, Exit, shared
    <3>2. \A s \in Threads : st'[s] = "err" <=> st[s] = "err"
      BY <1>1, <1>3, <2>3
      DEF DownloadThread, TakeUrl, Leave, Fetch, PushLink, BadEntry, Parsed, Tally, Exit, Goto,
          TypeOK
    <3> QED
      BY <3>1, <3>2 DEF Errors
  <2> QED
    BY <2>1, <2>2, <2>3
<1>4. CASE UNCHANGED vars
  BY <1>4 DEF Errors, vars
<1> QED
  BY <1>2, <1>3, <1>4 DEF Next, Terminated

\* The error count that Download returns is zero if and only if every URL was
\* downloaded and every archive opened, although the increments are not under
\* the lock.
THEOREM ErrorsReportedThm == Spec => []ErrorsReported
<1>1. Init => Errors
  BY DEF Init, Errors
<1>2. IInv /\ Errors => ErrorsReported
  <2>1. SUFFICES ASSUME IInv, Errors, main = "done"
                 PROVE  error > 0 <=> lost # {}
    BY DEF ErrorsReported
  <2>2. \A t \in Threads : st[t] # "err"
    BY <2>1 DEF IInv, Ended, Alive
  <2> QED
    BY <2>1, <2>2 DEF Errors
<1>3. IInv /\ Errors /\ [Next]_vars => Errors'
  BY ErrorsStep
<1> QED
  BY <1>1, <1>2, <1>3, Invariance, PTL DEF Spec

----------------------------------------------------------------------------
(* Refinement of LinkCrawl *)

\* Whose links a thread is going through.
Pushing(t, i) == st[t] = "links" /\ job[t] = i

\* What is left of a page is what its one thread has yet to push.
LeftKnown ==
    /\ \A t \in Threads : \A i \in Nat : Pushing(t, i) => Left(i) = rest[t]
    /\ \A i \in Nat \ got :
          (\A t \in Threads : ~Pushing(t, i)) => Left(i) = Links[urls[i]]
    /\ \A i \in got : Left(i) = <<>>

LEMMA LeftIsKnown == IInv => LeftKnown
<1>1. SUFFICES ASSUME IInv
               PROVE  LeftKnown
  OBVIOUS
<1>2. ASSUME NEW t \in Threads, NEW i \in Nat, Pushing(t, i)
      PROVE  Left(i) = rest[t]
  <2>1. t \in Busy /\ i \notin got
    BY <1>1, <1>2 DEF Pushing, Busy, Working, IInv, TakenOnce
  <2>2. \A s \in Threads : Pushing(s, i) => s = t
    BY <1>1, <1>2, <2>1 DEF Pushing, Busy, Working, IInv, TakenOnce
  <2>3. (CHOOSE s \in Threads : st[s] = "links" /\ job[s] = i) = t
    BY <1>2, <2>2 DEF Pushing
  <2> QED
    BY <1>2, <2>1, <2>3 DEF Left, Pushing
<1>3. \A i \in Nat \ got :
         (\A t \in Threads : ~Pushing(t, i)) => Left(i) = Links[urls[i]]
  BY DEF Left, Pushing
<1>4. \A i \in got : Left(i) = <<>>
  BY DEF Left
<1> QED
  BY <1>2, <1>3, <1>4 DEF LeftKnown

LEMMA LeftIsKnownNext == IInv' => LeftKnown'
BY LeftIsKnown, PTL

\* The list of the caller is a list of entries as long as that of the code.
Entry == [page : Pages, left : Seq(Pages), mark : {"open", "parsed", "failed"}]

EntriesListed ==
    /\ Entries \in Seq(Entry) /\ Len(Entries) = Len(urls)
    /\ \A i \in 1 .. Len(urls) : Entries[i] = Handled(i) /\ Handled(i) \in Entry

LEMMA EntriesAreListed == IInv => EntriesListed
<1>1. SUFFICES ASSUME IInv
               PROVE  EntriesListed
  OBVIOUS
<1>2. TypeOK /\ LeftKnown /\ Len(urls) \in Nat
  BY <1>1, LeftIsKnown DEF IInv, TypeOK
<1>3. ASSUME NEW i \in 1 .. Len(urls)
      PROVE  Handled(i) \in Entry
  <2>1. urls[i] \in Pages /\ i \in Nat
    BY <1>2, ElementOfSeq DEF TypeOK
  <2>2. Links[urls[i]] \in Seq(Pages)
    BY <2>1, PagesAssumption
  <2>3. Left(i) \in Seq(Pages)
    <3>1. CASE i \in got
      BY <1>2, <3>1, EmptySeq DEF LeftKnown
    <3>2. CASE i \notin got /\ \A t \in Threads : ~Pushing(t, i)
      BY <1>2, <2>1, <2>2, <3>2 DEF LeftKnown
    <3>3. CASE \E t \in Threads : Pushing(t, i)
      <4>1. PICK t \in Threads : Pushing(t, i)
        BY <3>3
      <4>2. Left(i) = rest[t] /\ rest[t] \in Seq(Pages)
        BY <1>2, <2>1, <4>1 DEF LeftKnown, TypeOK
      <4> QED
        BY <4>2
    <3> QED
      BY <3>1, <3>2, <3>3
  <2> DEFINE l == Left(i)
  <2> HIDE DEF l
  <2> QED
    BY <2>1, <2>3 DEF Handled, Entry, l
<1>4. Entries \in [1 .. Len(urls) -> Entry]
  BY <1>3 DEF Entries
<1>5. Entries \in Seq(Entry)
  BY <1>2, <1>4, SeqDef
<1>6. Len(Entries) = Len(urls)
  <2>1. DOMAIN Entries = 1 .. Len(urls)
    BY DEF Entries
  <2> QED
    BY <1>2, <1>5, <2>1, LenProperties
<1> QED
  BY <1>3, <1>5, <1>6 DEF EntriesListed, Entries

LEMMA EntriesAreListedNext == IInv' => EntriesListed'
BY EntriesAreListed, PTL

\* An entry stays as it is while its page, its outcome and the links that its
\* thread has yet to push do.
LEMMA SameEntry ==
    ASSUME IInv, IInv', NEW i \in Nat,
           urls'[i] = urls[i],
           i \in got' <=> i \in got,
           i \in lost' <=> i \in lost,
           \A t \in Threads : (Pushing(t, i))' <=> Pushing(t, i),
           \A t \in Threads : Pushing(t, i) => rest'[t] = rest[t]
    PROVE  Handled(i)' = Handled(i)
<1>1. LeftKnown /\ LeftKnown'
  BY LeftIsKnown, LeftIsKnownNext
<1>2. Left(i)' = Left(i)
  <2>1. CASE i \in got
    BY <1>1, <2>1 DEF LeftKnown
  <2>2. CASE i \notin got /\ \A t \in Threads : ~Pushing(t, i)
    BY <1>1, <2>2 DEF LeftKnown
  <2>3. CASE \E t \in Threads : Pushing(t, i)
    <3>1. PICK t \in Threads : Pushing(t, i)
      BY <2>3
    <3> QED
      BY <1>1, <3>1 DEF LeftKnown
  <2> QED
    BY <2>1, <2>2, <2>3
<1> QED
  BY <1>2 DEF Handled

\* The list is the same when it is as long and every entry is.
LEMMA SameList ==
    ASSUME IInv, IInv', Len(urls') = Len(urls),
           \A i \in 1 .. Len(urls) : Handled(i)' = Handled(i)
    PROVE  Entries' = Entries
BY DEF Entries

\* The steps of Download and of a thread that the caller does not see: nothing
\* is found, parsed or failed.
LEMMA Unseen ==
    ASSUME IInv, IInv', NEW t \in Threads,
           TakeUrl(t) \/ Leave(t) \/ Fetch(t) \/ CountError(t) \/ Tally(t) \/ Exit(t)
    PROVE  Entries' = Entries
<1>1. TypeOK /\ LeftKnown /\ LeftKnown' /\ UNCHANGED <<urls, got, lost>>
      /\ \A s \in Threads : s # t => st'[s] = st[s] /\ job'[s] = job[s] /\ rest'[s] = rest[s]
  BY LeftIsKnown, LeftIsKnownNext
  DEF IInv, TypeOK, TakeUrl, Leave, Fetch, CountError, Tally, Exit, Goto, shared
<1>2. CASE ~Fetch(t)
  <2>1. st[t] # "links" /\ st'[t] # "links"
    BY <1>1, <1>2 DEF TypeOK, TakeUrl, Leave, CountError, Tally, Exit, Goto
  <2>2. \A i \in 1 .. Len(urls) : Handled(i)' = Handled(i)
    BY <1>1, <2>1, SameEntry DEF Pushing
  <2> QED
    BY <1>1, <2>2, SameList
<1>3. CASE Fetch(t)
  <2>1. /\ st[t] = "fetch" /\ st'[t] = "links" /\ job' = job
        /\ rest'[t] = Links[urls[job[t]]] /\ job[t] \in Nat
    BY <1>1, <1>3 DEF TypeOK, Fetch, Goto
  <2>2. ASSUME NEW i \in 1 .. Len(urls), i # job[t]
        PROVE  Handled(i)' = Handled(i)
    BY <1>1, <2>1, <2>2, SameEntry DEF Pushing
  <2>3. ASSUME NEW i \in 1 .. Len(urls), i = job[t]
        PROVE  Handled(i)' = Handled(i)
    <3>1. i \notin got /\ \A s \in Threads : ~Pushing(s, i)
      BY <2>1, <2>3 DEF IInv, TakenOnce, Pushing, Busy, Working
    <3>2. Left(i) = Links[urls[i]]
      BY <1>1, <3>1 DEF LeftKnown
    <3>3. (Pushing(t, i))'
      BY <2>1, <2>3 DEF Pushing
    <3>4. Left(i)' = Links[urls[i]]
      BY <1>1, <2>1, <2>3, <3>3 DEF LeftKnown
    <3> QED
      BY <1>1, <3>2, <3>4 DEF Handled
  <2> QED
    BY <1>1, <2>2, <2>3, SameList
<1> QED
  BY <1>2, <1>3

LEMMA UnseenByDownload ==
    ASSUME IInv, IInv', Download
    PROVE  Entries' = Entries
<1>1. /\ TypeOK /\ UNCHANGED <<urls, job, rest, got, lost>>
      /\ \A t \in Threads : st'[t] = "links" <=> st[t] = "links"
  BY MainSets DEF IInv, TypeOK, Download, Ramp, Spawn, Wait, Goto, shared
<1>2. \A i \in 1 .. Len(urls) : Handled(i)' = Handled(i)
  BY <1>1, SameEntry DEF Pushing
<1> QED
  BY <1>1, <1>2, SameList

\* The caller gets no answer while a thread is alive.
LEMMA NoAnswerYet ==
    ASSUME IInv, NEW t \in Threads, DownloadThread(t)
    PROVE  Reported = "none" /\ Reported' = "none"
<1>1. main # "done" /\ main' = main
  BY DEF IInv, Ended, Alive, DownloadThread, TakeUrl, Leave, Fetch, FetchFails,
     CountError, PushLink, BadEntry, Parsed, Tally, Exit
<1> QED
  BY <1>1 DEF Reported

\* A thread that parses a page or fails to is the one that has it open.
LEMMA OpenEntry ==
    ASSUME IInv, NEW t \in Threads, st[t] \in {"fetch", "links"}
    PROVE  /\ job[t] \in 1 .. Len(urls) /\ job[t] \in Nat /\ urls[job[t]] \in Pages
           /\ job[t] \notin got \cup lost
           /\ Entries[job[t]].page = urls[job[t]]
           /\ Entries[job[t]].mark = "open"
           /\ Entries[job[t]].left =
                 IF st[t] = "links" THEN rest[t] ELSE Links[urls[job[t]]]
           /\ \A s \in Busy : job[s] = job[t] => s = t
<1>1. t \in Busy /\ TakenOnce /\ LeftKnown /\ EntriesListed
  BY LeftIsKnown, EntriesAreListed DEF Busy, Working, IInv
<1>2. job[t] \in 1 .. Len(urls) /\ urls[job[t]] \in Pages
  BY <1>1, JobInList
<1>3. job[t] \notin got \cup lost /\ \A s \in Busy : job[s] = job[t] => s = t
  BY <1>1 DEF TakenOnce
<1>4. Left(job[t]) = IF st[t] = "links" THEN rest[t] ELSE Links[urls[job[t]]]
  <2>1. CASE st[t] = "links"
    BY <1>1, <1>2, <2>1 DEF LeftKnown, Pushing
  <2>2. CASE st[t] = "fetch"
    <3>1. \A s \in Threads : ~Pushing(s, job[t])
      BY <1>3, <2>2 DEF Pushing, Busy, Working
    <3> QED
      BY <1>1, <1>2, <1>3, <2>2, <3>1 DEF LeftKnown
  <2> QED
    BY <2>1, <2>2
<1>5. Entries[job[t]] = Handled(job[t])
  BY <1>1, <1>2 DEF EntriesListed
<1> QED
  BY <1>2, <1>3, <1>4, <1>5 DEF Handled

\* A step that changes one entry only, and adds none.
LEMMA ChangedEntry ==
    ASSUME IInv, IInv', NEW i \in 1 .. Len(urls), Len(urls') = Len(urls),
           \A j \in 1 .. Len(urls) : j # i => Handled(j)' = Handled(j)
    PROVE  Entries' = [Entries EXCEPT ![i] = Handled(i)']
BY DEF Entries

\* Changing one field of an entry.
LEMMA EntryFields ==
    ASSUME NEW e \in Entry
    PROVE  /\ \A m : [e EXCEPT !.mark = m] = [page |-> e.page, left |-> e.left, mark |-> m]
           /\ \A l : [e EXCEPT !.left = l] = [page |-> e.page, left |-> l, mark |-> e.mark]
BY DEF Entry

\* The step that ends the work on a page is Parse of LinkCrawl.
LEMMA ParsedParses ==
    ASSUME IInv, IInv', NEW t \in Threads, Parsed(t)
    PROVE  Crawl!Parse(job[t])
<1>1. PICK i \in 1 .. Len(urls) : i = job[t]
  BY OpenEntry DEF Parsed
<1>2. /\ i \in Nat /\ i \notin got \cup lost /\ \A s \in Busy : job[s] = i => s = t
      /\ Entries[i].left = <<>> /\ Entries[i].mark = "open" /\ Entries[i].page = urls[i]
  BY <1>1, OpenEntry DEF Parsed
<1>3. /\ UNCHANGED <<urls, job, rest, lost>> /\ got' = got \cup {i}
      /\ st[t] = "links" /\ st'[t] # "links"
      /\ \A s \in Threads : s # t => st'[s] = st[s]
  BY <1>1 DEF IInv, TypeOK, Parsed, Goto, shared
<1>4. ASSUME NEW j \in 1 .. Len(urls), j # i
      PROVE  Handled(j)' = Handled(j)
  BY <1>1, <1>3, <1>4, SameEntry DEF Pushing
<1>5. Handled(i)' = [page |-> urls[i], left |-> <<>>, mark |-> "parsed"]
  BY <1>3 DEF Handled, Left
<1>6. Entries' = [Entries EXCEPT ![i] = Handled(i)']
  BY <1>3, <1>4, ChangedEntry
<1>7. Entries \in Seq(Entry) /\ Len(Entries) = Len(urls) /\ Entries[i] \in Entry
  BY EntriesAreListed DEF EntriesListed
<1>8. [Entries[i] EXCEPT !.mark = "parsed"]
      = [page |-> urls[i], left |-> <<>>, mark |-> "parsed"]
  BY <1>2, <1>7, EntryFields
<1>9. Entries' = [Entries EXCEPT ![i].mark = "parsed"]
  BY <1>5, <1>6, <1>8
<1>10. Reported' = Reported
  BY NoAnswerYet DEF DownloadThread
<1> QED
  BY <1>1, <1>2, <1>7, <1>9, <1>10 DEF Crawl!Parse, Crawl!Open, Crawl!Mark

\* A failed download is Fail, and none of the links of the page has been found.
LEMMA FetchFailsFails ==
    ASSUME IInv, IInv', NEW t \in Threads, FetchFails(t)
    PROVE  Crawl!Fail(job[t])
<1>1. PICK i \in 1 .. Len(urls) : i = job[t]
  BY OpenEntry DEF FetchFails
<1>2. /\ i \in Nat /\ i \notin got \cup lost /\ \A s \in Busy : job[s] = i => s = t
      /\ Entries[i].left = Links[urls[i]] /\ Entries[i].mark = "open"
      /\ Entries[i].page = urls[i]
  BY <1>1, OpenEntry DEF FetchFails
<1>3. /\ UNCHANGED <<urls, job, rest, got>> /\ lost' = lost \cup {i}
      /\ st[t] = "fetch" /\ st'[t] # "links" /\ urls[i] \in Flaky
      /\ \A s \in Threads : s # t => st'[s] = st[s]
  BY <1>1 DEF IInv, TypeOK, FetchFails, Goto, shared
<1>4. ASSUME NEW j \in 1 .. Len(urls), j # i
      PROVE  Handled(j)' = Handled(j)
  BY <1>1, <1>3, <1>4, SameEntry DEF Pushing
<1>5. Handled(i)' = [page |-> urls[i], left |-> Links[urls[i]], mark |-> "failed"]
  <2>1. i \notin got' /\ \A s \in Threads : ~(Pushing(s, i))'
    BY <1>2, <1>3 DEF Pushing, Busy, Working
  <2>2. Left(i)' = Links[urls[i]]
    BY <1>2, <1>3, <2>1, LeftIsKnownNext DEF LeftKnown
  <2> QED
    BY <1>3, <2>1, <2>2 DEF Handled
<1>6. Entries' = [Entries EXCEPT ![i] = Handled(i)']
  BY <1>3, <1>4, ChangedEntry
<1>7. Entries \in Seq(Entry) /\ Len(Entries) = Len(urls) /\ Entries[i] \in Entry
  BY EntriesAreListed DEF EntriesListed
<1>8. [Entries[i] EXCEPT !.mark = "failed"]
      = [page |-> urls[i], left |-> Links[urls[i]], mark |-> "failed"]
  BY <1>2, <1>7, EntryFields
<1>9. Entries' = [Entries EXCEPT ![i].mark = "failed"]
  BY <1>5, <1>6, <1>8
<1>10. Reported' = Reported
  BY NoAnswerYet DEF DownloadThread
<1> QED
  BY <1>1, <1>2, <1>3, <1>7, <1>9, <1>10 DEF Crawl!Fail, Crawl!Open, Crawl!Mark

\* A link pushed is a new URL, after all others, with all of its links to find.
LEMMA PushLinkFinds ==
    ASSUME IInv, IInv', NEW t \in Threads, PushLink(t)
    PROVE  Crawl!Find(job[t])
<1>1. PICK i \in 1 .. Len(urls) : i = job[t]
  BY OpenEntry DEF PushLink
<1>2. /\ i \in Nat /\ i \notin got \cup lost /\ \A s \in Busy : job[s] = i => s = t
      /\ Entries[i].left = rest[t] /\ Entries[i].mark = "open"
      /\ Entries[i].page = urls[i]
  BY <1>1, OpenEntry DEF PushLink
<1>3. /\ UNCHANGED <<st, job, got, lost>> /\ st[t] = "links" /\ rest[t] # <<>>
      /\ urls' = Append(urls, Head(rest[t])) /\ rest'[t] = Tail(rest[t])
      /\ urls \in Seq(Pages) /\ rest[t] \in Seq(Pages) /\ Len(urls) \in Nat
  BY DEF IInv, TypeOK, PushLink
<1>4. /\ Len(urls') = Len(urls) + 1
      /\ \A j \in 1 .. Len(urls) : urls'[j] = urls[j]
      /\ \A s \in Threads : s # t => rest'[s] = rest[s]
      /\ Head(rest[t]) \in Pages /\ Tail(rest[t]) \in Seq(Pages)
      /\ urls'[Len(urls) + 1] = Head(rest[t])
  <2>1. TypeOK
    BY DEF IInv
  <2>2. Head(rest[t]) \in Pages /\ Tail(rest[t]) \in Seq(Pages)
    BY <1>3, HeadTailProperties
  <2> QED
    BY <1>3, <2>1, <2>2, PushFacts, AppendProperties
<1>5. ASSUME NEW j \in 1 .. Len(urls), j # i
      PROVE  Handled(j)' = Handled(j)
  <2>1. \A s \in Threads : Pushing(s, j) => s # t
    BY <1>1, <1>5 DEF Pushing
  <2> QED
    BY <1>3, <1>4, <2>1, SameEntry DEF Pushing
<1>6. Handled(i)' = [page |-> urls[i], left |-> Tail(rest[t]), mark |-> "open"]
  <2>1. (Pushing(t, i))'
    BY <1>1, <1>3 DEF Pushing
  <2>2. Left(i)' = Tail(rest[t])
    BY <1>2, <1>3, <2>1, LeftIsKnownNext DEF LeftKnown
  <2> QED
    BY <1>2, <1>3, <1>4, <2>2 DEF Handled
<1>7. PICK n \in Nat : n = Len(urls) + 1
  BY <1>3
<1>8. Handled(n)' = [page |-> Head(rest[t]), left |-> Links[Head(rest[t])], mark |-> "open"]
  <2>1. /\ n \notin got' \cup lost' /\ urls'[n] = Head(rest[t])
        /\ \A s \in Threads : ~Pushing(s, n)
    <3>1. \A s \in Threads : st[s] = "links" => job[s] \in 1 .. Len(urls)
      BY JobInList DEF Busy, Working
    <3>2. got \cup lost \subseteq 1 .. u /\ u <= Len(urls) /\ u \in Nat
      BY DEF IInv, Taken, Counts, TypeOK
    <3> QED
      BY <1>3, <1>4, <1>7, <3>1, <3>2 DEF Pushing
  <2>2. Left(n)' = Links[Head(rest[t])]
    BY <1>3, <2>1, LeftIsKnownNext DEF LeftKnown, Pushing
  <2> QED
    BY <2>1, <2>2 DEF Handled
<1>9. /\ Entries \in Seq(Entry) /\ Len(Entries) = Len(urls) /\ Entries[i] \in Entry
      /\ \A j \in 1 .. Len(urls) : Entries[j] = Handled(j)
  BY EntriesAreListed DEF EntriesListed
<1>10. /\ Entries' \in Seq(Entry) /\ Len(Entries') = n /\ Handled(n)' \in Entry
       /\ \A j \in 1 .. n : Entries'[j] = Handled(j)'
  BY <1>4, <1>7, EntriesAreListedNext DEF EntriesListed
<1> DEFINE e == [Entries[i] EXCEPT !.left = Tail(rest[t])]
           old == [Entries EXCEPT ![i] = e]
           new == Crawl!Found(Head(rest[t]))
<1>11. e = Handled(i)' /\ e \in Entry
  <2>1. e = Handled(i)'
    <3>1. \A en \in Entry : \A l : [en EXCEPT !.left = l]
             = [page |-> en.page, left |-> l, mark |-> en.mark]
      BY EntryFields
    <3>2. e = [page |-> Entries[i].page, left |-> Tail(rest[t]), mark |-> Entries[i].mark]
      BY <1>9, <3>1
    <3> QED
      BY <1>2, <1>6, <3>2
  <2>2. i \in 1 .. n
    BY <1>3, <1>7
  <2>3. Handled(i)' \in Entry
    BY <1>4, <1>7, <2>2, EntriesAreListedNext DEF EntriesListed
  <2> QED
    BY <2>1, <2>3
<1>12. new = Handled(n)'
  BY <1>8 DEF Crawl!Found
<1>13. /\ old \in Seq(Entry) /\ Len(old) = Len(urls)
       /\ \A j \in 1 .. Len(urls) : old[j] = Handled(j)'
  <2> HIDE DEF e
  <2> QED
    BY <1>5, <1>9, <1>11, ExceptSeq
<1>14. /\ Append(old, new) \in Seq(Entry) /\ Len(Append(old, new)) = n
       /\ \A j \in 1 .. n : Append(old, new)[j] = Handled(j)'
  <2> HIDE DEF old, new
  <2>1. new \in Entry
    BY <1>10, <1>12
  <2>2. /\ Append(old, new) \in Seq(Entry) /\ Len(Append(old, new)) = n
        /\ \A j \in 1 .. Len(urls) : Append(old, new)[j] = old[j]
        /\ Append(old, new)[n] = new
    BY <1>7, <1>13, <2>1, AppendProperties
  <2> QED
    BY <1>3, <1>7, <1>12, <1>13, <2>2
<1>15. Entries' = Append(old, new)
  <2> HIDE DEF old, new
  <2> QED
    BY <1>10, <1>14, SeqEqual
<1>16. Entries' = Append([Entries EXCEPT ![i].left = Tail(@)],
                         Crawl!Found(Head(Entries[i].left)))
  BY <1>2, <1>15
<1>17. Reported' = Reported
  BY NoAnswerYet DEF DownloadThread
<1> QED
  BY <1>1, <1>2, <1>3, <1>9, <1>16, <1>17 DEF Crawl!Find, Crawl!Open

\* A file of an archive that is not unpacked is Spoil of LinkCrawl.
LEMMA BadEntrySpoils ==
    ASSUME IInv, IInv', NEW t \in Threads, BadEntry(t)
    PROVE  Crawl!Spoil(job[t])
<1>1. PICK i \in 1 .. Len(urls) : i = job[t]
  BY OpenEntry DEF BadEntry
<1>2. /\ i \in Nat /\ i \notin got \cup lost /\ \A s \in Busy : job[s] = i => s = t
      /\ Entries[i].left = rest[t] /\ Entries[i].mark = "open"
      /\ Entries[i].page = urls[i]
  BY <1>1, OpenEntry DEF BadEntry
<1>3. PICK n \in 0 .. Len(rest[t]), l \in Leftovers :
          /\ rest'[t] = l \o SubSeq(rest[t], n + 1, Len(rest[t]))
          /\ \A s \in Threads : s # t => rest'[s] = rest[s]
  BY BadEntryFacts DEF IInv
<1> DEFINE r == l \o SubSeq(rest[t], n + 1, Len(rest[t]))
<1>4. UNCHANGED <<urls, st, job, got, lost>> /\ st[t] = "links" /\ urls[i] \in Archives
  BY <1>1 DEF BadEntry, shared
<1>5. ASSUME NEW j \in 1 .. Len(urls), j # i
      PROVE  Handled(j)' = Handled(j)
  <2>1. \A s \in Threads : Pushing(s, j) => s # t
    BY <1>1, <1>5 DEF Pushing
  <2> QED
    BY <1>3, <1>4, <2>1, SameEntry DEF Pushing
<1>6. Handled(i)' = [page |-> urls[i], left |-> r, mark |-> "open"]
  <2>1. (Pushing(t, i))'
    BY <1>1, <1>4 DEF Pushing
  <2>2. Left(i)' = rest'[t]
    BY <1>2, <2>1, LeftIsKnownNext DEF LeftKnown
  <2> HIDE DEF r
  <2> QED
    BY <1>2, <1>3, <1>4, <2>2 DEF Handled, r
<1>7. Entries' = [Entries EXCEPT ![i] = Handled(i)']
  BY <1>4, <1>5, ChangedEntry
<1>8. Len(Entries) = Len(urls) /\ Entries[i] \in Entry
  BY EntriesAreListed DEF EntriesListed
<1>9. [Entries[i] EXCEPT !.left = r] = [page |-> urls[i], left |-> r, mark |-> "open"]
  <2> HIDE DEF r
  <2>1. \A e \in Entry : [e EXCEPT !.left = r] = [page |-> e.page, left |-> r, mark |-> e.mark]
    BY EntryFields
  <2> QED
    BY <1>2, <1>8, <2>1
<1>10. Entries' = [Entries EXCEPT ![i].left = r]
  <2> HIDE DEF r
  <2> QED
    BY <1>6, <1>7, <1>9
<1>11. Entries' = [Entries EXCEPT ![i].left = l \o SubSeq(@, n + 1, Len(@))]
  BY <1>2, <1>10
<1>12. n \in 0 .. Len(Entries[i].left)
  BY <1>2, <1>3
<1>13. Reported' = Reported
  BY NoAnswerYet DEF DownloadThread
<1> QED
  BY <1>1, <1>2, <1>4, <1>8, <1>11, <1>12, <1>13 DEF Crawl!Spoil, Crawl!Open

\* Download returns when every entry has its mark, and its answer is the one
\* that the marks call for.
LEMMA WaitReturns ==
    ASSUME IInv, IInv', Errors', Wait, main' = "done"
    PROVE  Crawl!Return
<1>1. Entries' = Entries /\ UNCHANGED <<urls, got, lost, error>> /\ main = "wait"
  BY UnseenByDownload DEF Download, Wait, shared
<1>2. (Complete /\ Ended)' /\ TakenOnce
  BY DoneComplete, PTL DEF IInv
<1>3. \A t \in Threads : st'[t] # "err"
  BY <1>2 DEF Wait, Ended, Alive
<1>4. 1 .. Len(urls) = got \cup lost /\ (error > 0 <=> lost # {})
  BY <1>1, <1>2, <1>3 DEF Complete, Errors
<1>5. /\ Len(Entries) = Len(urls)
      /\ \A i \in 1 .. Len(urls) :
            Entries[i].mark = IF i \in got THEN "parsed"
                              ELSE IF i \in lost THEN "failed" ELSE "open"
  <2>1. ASSUME NEW i \in 1 .. Len(urls)
        PROVE  Handled(i).mark = IF i \in got THEN "parsed"
                                 ELSE IF i \in lost THEN "failed" ELSE "open"
    BY DEF Handled
  <2> QED
    BY <2>1, EntriesAreListed DEF EntriesListed
<1>6. \A i \in 1 .. Len(urls) : ~Crawl!Open(i)
  BY <1>4, <1>5 DEF Crawl!Open
<1>7. (\E i \in 1 .. Len(urls) : Entries[i].mark = "failed") <=> lost # {}
  BY <1>2, <1>4, <1>5 DEF TakenOnce
<1>8. Reported = "none" /\ Reported' = IF error > 0 THEN "errors" ELSE "clean"
  BY <1>1 DEF Reported
<1> QED
  BY <1>1, <1>4, <1>5, <1>6, <1>7, <1>8 DEF Crawl!Return

LEMMA InitCrawl ==
    ASSUME Init
    PROVE  Crawl!Init
<1>1. Entries = [i \in 1 .. Len(Start) |-> Crawl!Found(Start[i])]
  BY DEF Init, Entries, Handled, Left, Crawl!Found
<1> QED
  BY <1>1 DEF Init, Reported, Crawl!Init

LEMMA StepCrawl == IInv /\ Errors /\ [Next]_vars => [Crawl!Next]_(Crawl!crawlVars)
<1>1. SUFFICES ASSUME IInv, Errors, [Next]_vars
               PROVE  Crawl!Next \/ UNCHANGED Crawl!crawlVars
  OBVIOUS
<1>2. IInv' /\ Errors'
  BY <1>1, Inductive, ErrorsStep
<1>3. Len(Entries) = Len(urls)
  BY <1>1, EntriesAreListed DEF EntriesListed
<1>4. CASE Download
  <2>1. CASE Wait /\ main' = "done"
    BY <1>1, <1>2, <2>1, WaitReturns DEF Crawl!Next
  <2>2. CASE ~(Wait /\ main' = "done")
    <3>1. Reported' = Reported
      BY <1>4, <2>2 DEF Download, Ramp, Spawn, Wait, Reported
    <3> QED
      BY <1>1, <1>2, <1>4, <3>1, UnseenByDownload DEF Crawl!crawlVars
  <2> QED
    BY <2>1, <2>2
<1>5. ASSUME NEW t \in Threads, DownloadThread(t)
      PROVE  Crawl!Next \/ UNCHANGED Crawl!crawlVars
  <2>1. st[t] \in {"fetch", "links"} => job[t] \in 1 .. Len(Entries)
    BY <1>1, <1>3, OpenEntry
  <2>2. CASE PushLink(t)
    BY <1>1, <1>2, <2>1, <2>2, PushLinkFinds DEF PushLink, Crawl!Next
  <2>3. CASE Parsed(t)
    BY <1>1, <1>2, <2>1, <2>3, ParsedParses DEF Parsed, Crawl!Next
  <2>4. CASE FetchFails(t)
    BY <1>1, <1>2, <2>1, <2>4, FetchFailsFails DEF FetchFails, Crawl!Next
  <2>6. CASE BadEntry(t)
    BY <1>1, <1>2, <2>1, <2>6, BadEntrySpoils DEF BadEntry, Crawl!Next
  <2>5. CASE TakeUrl(t) \/ Leave(t) \/ Fetch(t) \/ CountError(t) \/ Tally(t) \/ Exit(t)
    <3>1. Entries' = Entries
      BY <1>1, <1>2, <2>5, Unseen
    <3>2. Reported' = Reported
      BY <1>1, <1>5, NoAnswerYet
    <3> QED
      BY <3>1, <3>2 DEF Crawl!crawlVars
  <2> QED
    BY <1>5, <2>2, <2>3, <2>4, <2>5, <2>6 DEF DownloadThread
<1>6. CASE UNCHANGED vars
  <2>1. Entries' = Entries /\ Reported' = Reported
    BY <1>6 DEF vars, Entries, Handled, Left, Reported
  <2> QED
    BY <2>1 DEF Crawl!crawlVars
<1> QED
  BY <1>1, <1>4, <1>5, <1>6 DEF Next, Terminated

\* Every step of the threads of DownloadKML is a step of a crawl that handles
\* one URL at a time, or is not seen by the caller.
THEOREM Refinement == Spec => ImplementsCrawl
<1>1. Init => Crawl!Init /\ Errors
  BY InitCrawl DEF Init, Errors
<1>2. IInv /\ Errors /\ [Next]_vars => Errors'
  BY ErrorsStep
<1> QED
  BY <1>1, <1>2, StepCrawl, Invariance, PTL DEF Spec, ImplementsCrawl, Crawl!Spec
====
