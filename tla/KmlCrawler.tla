---- MODULE KmlCrawler ----
(***************************************************************************)
(* DownloadKML: a growing list of URLs crawled by up to maxthreads threads.*)
(* Each thread takes the next URL, downloads it, appends the network links *)
(* it finds, and counts the URL as done; a thread leaves when as many URLs *)
(* are done as there are in the list, and Download returns when no thread  *)
(* is left.  Shared counters are updated under CC, except error, and read  *)
(* without it by Download.  Nothing removes duplicates, so a page linked   *)
(* twice is crawled twice, and a cycle of links forever: the pages here    *)
(* form no cycle.  A page may be an archive of several files, each with    *)
(* links of its own (none an archive again), and one that is not unpacked  *)
(* is no error.                                                            *)
(***************************************************************************)
EXTENDS Integers, Sequences, FiniteSets, Functions

CONSTANTS Pages,      \* what URLs lead to
          Links,      \* the network links of each page, in order
          Start,      \* the URLs Download is given
          Threads,    \* maxthreads of them
          Flaky,      \* pages that may not be downloaded, or not be opened
          Archives,   \* pages that are archives
          Leftovers,  \* links that memory nobody has written may hold
          MaxTorn     \* bound on the archives with a file that is not unpacked

ASSUME PagesAssumption == /\ Links \in [Pages -> Seq(Pages)]
                          /\ Start \in Seq(Pages)
                          /\ Flaky \subseteq Pages
ASSUME ArchivesAssumption == /\ Archives \subseteq Pages
                             /\ Leftovers \subseteq Seq(Pages)
                             /\ MaxTorn \in Nat
ASSUME ThreadsAssumption == IsFiniteSet(Threads) /\ Threads # {}

VARIABLES urls,        \* the list
          u, tu,       \* how many have been taken, how many are done
          numthreads,
          error,
          main,        \* Download: "ramp", "spawn", "wait", "done"
          st,          \* each thread
          job,         \* the position in urls of the URL it works on
          rest,        \* links of that page it has yet to push
          reg,         \* the value of error it has read
          got, lost,   \* history: positions that were parsed, that failed
          torn         \* history: archives with a file that was not unpacked

vars == <<urls, u, tu, numthreads, error, main, st, job, rest, reg, got, lost, torn>>
shared == <<urls, u, tu, numthreads, error>>

States == {"unborn", "next", "fetch", "links", "err", "tally", "exit", "gone"}
Working == {"fetch", "links", "err", "tally"}
Busy == {t \in Threads : st[t] \in Working}
Alive == {t \in Threads : st[t] \notin {"unborn", "gone"}}

Goto(t, s) == st' = [st EXCEPT ![t] = s]

Init ==
    /\ urls = Start
    /\ u = 0 /\ tu = 0 /\ numthreads = 0 /\ error = 0
    /\ main = "ramp"
    /\ st = [t \in Threads |-> "unborn"]
    /\ job = [t \in Threads |-> 0]
    /\ rest = [t \in Threads |-> <<>>]
    /\ reg = [t \in Threads |-> 0]
    /\ got = {} /\ lost = {} /\ torn = {}

----------------------------------------------------------------------------
(* Download: one thread a second while there are URLs to take.  No thread  *)
(* leaves while there is one, so none of Threads is born a second time.    *)

Ramp ==
    /\ main = "ramp"
    /\ main' = IF numthreads < Cardinality(Threads) /\ u < Len(urls)
               THEN "spawn" ELSE "wait"
    /\ UNCHANGED <<shared, st, job, rest, reg, got, lost, torn>>

\* mutant: the thread counts itself, so Download may look before it does
SpawnUncounted ==
    /\ main = "spawn"
    /\ \E t \in Threads : st[t] = "unborn" /\ Goto(t, "next")
    /\ main' = "wait"
    /\ UNCHANGED <<shared, job, rest, reg, got, lost, torn>>

Spawn ==
    /\ main = "spawn"
    /\ \E t \in Threads : st[t] = "unborn" /\ Goto(t, "next")
    /\ numthreads' = numthreads + 1
    /\ main' = "wait"
    /\ UNCHANGED <<urls, u, tu, error, job, rest, reg, got, lost, torn>>

Wait ==
    /\ main = "wait"
    /\ main' = IF numthreads > 0 THEN "ramp" ELSE "done"
    /\ UNCHANGED <<shared, st, job, rest, reg, got, lost, torn>>

----------------------------------------------------------------------------
(* DownloadNext *)

\* mutant: the next URL is the first that is not done
TakeUndone(t) ==
    /\ st[t] = "next" /\ u < Len(urls) /\ tu # Len(urls)
    /\ u' = u + 1
    /\ job' = [job EXCEPT ![t] = tu + 1]
    /\ Goto(t, "fetch")
    /\ UNCHANGED <<urls, tu, numthreads, error, main, rest, reg, got, lost, torn>>

\* Next() has a URL; a thread with no URL polls until there is one or all are
\* done
TakeUrl(t) ==
    /\ st[t] = "next" /\ u < Len(urls) /\ tu # Len(urls)
    /\ u' = u + 1
    /\ job' = [job EXCEPT ![t] = u + 1]
    /\ Goto(t, "fetch")
    /\ UNCHANGED <<urls, tu, numthreads, error, main, rest, reg, got, lost, torn>>

\* mutant: the thread is discounted twice, here and in Exit
LeaveCounted(t) ==
    /\ st[t] = "next" /\ tu = Len(urls)
    /\ numthreads' = numthreads - 1
    /\ Goto(t, "exit")
    /\ UNCHANGED <<urls, u, tu, error, main, job, rest, reg, got, lost, torn>>

\* Next() tests the end after it may have taken a URL, which it would drop
Leave(t) ==
    /\ st[t] = "next" /\ tu = Len(urls)
    /\ u' = IF u < Len(urls) THEN u + 1 ELSE u
    /\ Goto(t, "exit")
    /\ UNCHANGED <<urls, tu, numthreads, error, main, job, rest, reg, got, lost, torn>>

Fetch(t) ==
    /\ st[t] = "fetch"
    /\ rest' = [rest EXCEPT ![t] = Links[urls[job[t]]]]
    /\ Goto(t, "links")
    /\ UNCHANGED <<shared, main, job, reg, got, lost, torn>>

\* ++error, not under CC: read here, written by CountError
FetchFails(t) ==
    /\ st[t] = "fetch" /\ urls[job[t]] \in Flaky
    /\ reg' = [reg EXCEPT ![t] = error]
    /\ lost' = lost \cup {job[t]}
    /\ Goto(t, "err")
    /\ UNCHANGED <<shared, main, job, rest, got, torn>>

\* mutant: the value read is written back without the increment
CountErrorLate(t) ==
    /\ st[t] = "err"
    /\ error' = reg[t]
    /\ Goto(t, "tally")
    /\ UNCHANGED <<urls, u, tu, numthreads, main, job, rest, reg, got, lost, torn>>

CountError(t) ==
    /\ st[t] = "err"
    /\ error' = reg[t] + 1
    /\ Goto(t, "tally")
    /\ UNCHANGED <<urls, u, tu, numthreads, main, job, rest, reg, got, lost, torn>>

PushLink(t) ==
    /\ st[t] = "links" /\ rest[t] # <<>>
    /\ urls' = Append(urls, Head(rest[t]))
    /\ rest' = [rest EXCEPT ![t] = Tail(@)]
    /\ UNCHANGED <<u, tu, numthreads, error, main, st, job, reg, got, lost, torn>>

\* A file of an archive is skipped when there is no memory for it, and parsed
\* when it could not be unpacked, as whatever its memory holds: UnzipItem's
\* result is ignored.  Neither counts as an error.
BadEntry(t) ==
    /\ st[t] = "links" /\ urls[job[t]] \in Archives
    /\ job[t] \notin torn /\ Cardinality(torn) < MaxTorn
    /\ \E n \in 0..Len(rest[t]), l \in Leftovers :
          rest' = [rest EXCEPT ![t] = l \o SubSeq(@, n + 1, Len(@))]
    /\ torn' = torn \cup {job[t]}
    /\ UNCHANGED <<shared, main, st, job, reg, got, lost>>

\* all links pushed, all placemarks added
Parsed(t) ==
    /\ st[t] = "links" /\ rest[t] = <<>>
    /\ got' = got \cup {job[t]}
    /\ Goto(t, "tally")
    /\ UNCHANGED <<shared, main, job, rest, reg, lost, torn>>

\* mutant: a failed URL is not counted as done
TallyParsed(t) ==
    /\ st[t] = "tally"
    /\ tu' = IF job[t] \in got THEN tu + 1 ELSE tu
    /\ Goto(t, "next")
    /\ UNCHANGED <<urls, u, numthreads, error, main, job, rest, reg, got, lost, torn>>

Tally(t) ==
    /\ st[t] = "tally"
    /\ tu' = tu + 1
    /\ Goto(t, "next")
    /\ UNCHANGED <<urls, u, numthreads, error, main, job, rest, reg, got, lost, torn>>

Exit(t) ==
    /\ st[t] = "exit"
    /\ numthreads' = numthreads - 1
    /\ Goto(t, "gone")
    /\ UNCHANGED <<urls, u, tu, error, main, job, rest, reg, got, lost, torn>>

Terminated ==
    /\ main = "done"
    /\ UNCHANGED vars

Download == Ramp \/ Spawn \/ Wait
DownloadThread(t) ==
    \/ TakeUrl(t) \/ Leave(t)
    \/ Fetch(t) \/ FetchFails(t) \/ CountError(t)
    \/ PushLink(t) \/ BadEntry(t) \/ Parsed(t) \/ Tally(t) \/ Exit(t)

Next == Download \/ (\E t \in Threads : DownloadThread(t)) \/ Terminated

Spec == Init /\ [][Next]_vars

\* the scheduler runs every thread, and a download returns or times out
Fairness == WF_vars(Download) /\ \A t \in Threads : WF_vars(DownloadThread(t))

FairSpec == Spec /\ Fairness

----------------------------------------------------------------------------
(* Properties *)

\* Types of the fields of DownloadKML and the locals of its threads.
TypeOK ==
    /\ urls \in Seq(Pages)
    /\ u \in Nat /\ tu \in Nat /\ error \in Nat
    /\ numthreads \in Nat
    /\ main \in {"ramp", "spawn", "wait", "done"}
    /\ st \in [Threads -> States]
    /\ job \in [Threads -> Nat]
    /\ rest \in [Threads -> Seq(Pages)]
    /\ reg \in [Threads -> Nat]
    /\ got \subseteq Nat /\ lost \subseteq Nat /\ torn \subseteq Nat

\* Download never returns early: every URL of the list has been parsed or has
\* failed by then, every link of a parsed page is in the list, except of an
\* archive that could not be unpacked, and no thread is left working on it.
Complete ==
    main = "done" =>
        /\ 1 .. Len(urls) = got \cup lost
        /\ \A i \in got \ torn : Range(Links[urls[i]]) \subseteq Range(urls)
        /\ Busy = {}

\* No URL is taken by two threads, nor again after it was done.
TakenOnce ==
    /\ \A s, t \in Busy : job[s] = job[t] => s = t
    /\ \A t \in Busy : st[t] \in {"fetch", "links"} => job[t] \notin got \cup lost
    /\ got \cap lost = {}

\* However the unlocked increments of error race, Download reports an error if
\* and only if some URL was not downloaded or, an archive, not opened (it may
\* report too few).  Files that were not unpacked are not reported.
ErrorsReported == main = "done" => (error > 0 <=> lost # {})

\* Download returns.
Returns == <>(main = "done")

\* The URLs as the caller may think of them: what is left to find of a page is
\* what the thread that goes through its links has yet to push.
Left(i) ==
    IF i \in got THEN <<>>
    ELSE IF \E t \in Threads : st[t] = "links" /\ job[t] = i
         THEN rest[CHOOSE t \in Threads : st[t] = "links" /\ job[t] = i]
         ELSE Links[urls[i]]

Handled(i) == [page |-> urls[i],
               left |-> Left(i),
               mark |-> IF i \in got THEN "parsed" ELSE IF i \in lost THEN "failed" ELSE "open"]

Reported == IF main # "done" THEN "none" ELSE IF error > 0 THEN "errors" ELSE "clean"

Entries == [i \in 1..Len(urls) |-> Handled(i)]

Crawl == INSTANCE LinkCrawl WITH list <- Entries, answer <- Reported

\* The caller cannot tell the ten threads from one that handles one URL at a
\* time: nothing is missed, handled twice or found twice, links are not mixed
\* up, and the answer, counted without the lock, comes last and tells whether
\* there was a URL that failed.
ImplementsCrawl == Crawl!Spec
====
