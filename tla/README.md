# Verification of RWServer

TLA+ modules, TLC configurations and TLAPS proofs for RWServer, the server behind the
RopeWiki canyon maps. Paths below are relative to `src/`. `PROJECT.json` ties each
definition to the source lines it stands for, each property to a mutation of the code it
catches, and each hazard to the properties that watch it.

## 1. The system

`rw/rw` is a Windows (MFC) FastCGI server behind nginx. It answers queries about rivers, canyons,
weather and water flow with KML or KMZ documents. `RWHeartbeat` is a separate C# program that pings
the server and kills and restarts it when it does not answer. The rest of the repository is batch
scripts, a wiki bot compiled into the same executable, and third-party code.

| Component | Code | State | Operations | Hard behaviour | What makes it correct |
|---|---|---|---|---|---|
| Archive cache, request path | `rw/rw/processrequest.cpp` 402-506, `rw/rw/RWServer.cpp` 211-328 | the `.kmz` file and its date, handles under share modes, a pipe, `tzipquery` on the stack | test, open, expire, build, stream, close, delete, transfer, relay | interleaved requests on one file, failing queries and pipes, kills | an answer is one archive that nobody was writing; builds exclude each other and readers; a worker does not outlive its request; each request is answered |
| River list cache | `rw/rw/Elevation.cpp` 9036-9270 | `cachelist`, `csize`, `CC`, a pin count per list | `Lock`, `Unlock`, `Purge`, guards `CRiverCache`, `CRiversCache` | nested guards of several threads, eviction at the limit, guard that never locked | no pinned list freed; counts equal guards; one list per file; bounded |
| KML crawler (`DownloadKML`) | `rw/rw/Elevation.cpp` 12095-12420 | `urls`, `u`, `tu`, `numthreads`, `error`, `CC` | `Download`, `DownloadNext`, `Next`, `GetKML` | the end is guessed from counters that others move; unlocked counter | returns, only when all is crawled; each URL once; failures reported |
| Server threads | `rw/rw/RWServer.cpp` 60-203, 330-352 | `THREADNUM`, the Accept lock, `abort.rwr` | start, accept, process under `__try`, abort, wait | crash inside a lock, early abort, shutdown with a thread inside accept | a shutdown ends and cuts no request; a stale abort file stops nobody |
| Heartbeat | `RWHeartbeat/Form1.cs` | timer, process handle, running flag | tick, start, stop, restart | slow answer taken for a hang, tick that stops the timer | a hung server is restarted as long as it is watched |
| Mapper lock `MCC` | `rw/rw/Elevation.cpp` 4415, 7505-7522, 7695-7969 | one critical section | `Map`, `MapRiver` | exception caught above the holder leaves it owned | every mapping gets the lock |
| Google keys (`gkey`) | `rw/rw/Elevation.cpp` 2517-2900 | current key, key counts, time a key was disabled | rotate, disable for 24 h, reset | failures in a row of calls, replies with fewer points or with elements that do not match, wrapping tick counts, one lock for all | a ring is disabled after each key failed and not for ever; no point is skipped; the lock is released |
| Scan queue (`ScanList`) | `rw/rw/Elevation.cpp` 21095-21283, `rw/rw/processcommandline.cpp` 498-514 | the file `SCAN.csv`, the scan of each quad | `ScanAdd`, `ToDo`, `RunScan`, `ToDone` | two processes over one file, kill between two steps, second passes first | no second pass before a first one; the list empties |
| Parallel list scan (`CSymListThread`) | `rw/rw/Elevation.cpp` 1823-1885 | next index, number done | constructor, thread | object freed under its threads | each item once; no use after the end |
| DEM pool (`DEMFILE`) | `rw/rw/Elevation.cpp` 1935-2110 | list of open rasters, limit | open, read, purge, close | limit reached, irregular raster, wrapping ages | the list is exact; open data sets are bounded |
| Overlay lists | `rw/rw/Elevation.cpp` 11322-11345 | lists, `loaded` flag | load once, scan | flag tested outside the lock | nobody sees a half-loaded list |
| Waterflow sites | `rw/rw/Waterflow.cpp` 552-924, 5768-5776 | per site: data, dates, `loadsave` | load, merge, save, flush | flush while merging, exit without flush | no merged date is lost |
| PDF/ZIP pipeline | `rw/rw/inetdata.cpp` 9-399, `rw/rw/inetdata.h` 67-120 | one zip handle, a pipe with two write handles, files sent | PhantomJS watchdog, checker, sender | last file written before the flag falls, slow client, process that hangs | each file is sent once; threads end first; it ends |
| Request dispatch | `rw/rw/processrequest.cpp` | none of its own | one handler per keyword | sequential | - |
| Wiki bot, robots, vendored code | `rw/rw/BETAExtract.cpp` and others | files, wiki pages | batch jobs | parsing and formatting | - |

Interaction: a server thread takes the Accept lock, accepts a request and runs `_process`. For
`rwz=`/`nozip=` that is `ProcessRWZ`: it uses the archive file, and `QueryZip` starts a worker
thread that runs `ElevationQuery` and streams KML into a pipe. The query reaches river lists
through guards of `rivercache`, the mapper through `MCC`, water flow through `CSite`, and linked
KML through `DownloadKML`. The heartbeat knows only the process and one URL. An exception in a
query is caught by the `__except` of `ElevationQuery` (the request sees `q.ok` false); destructors and
unlocks on the way are not run, because the build compiles with `/EHsc` (`rw/RW.vcxproj:89`).

## 2. Modules

| Module | What it is |
|---|---|
| `ArchiveSlot` | what clients of the archive cache may observe: a slot that is empty, being built or closed, and one answer per request |
| `RwzCache` | `ProcessRWZ`, `QueryZip`/`threadzip`, the file with its share modes, and the environment |
| `SymListCache` | `CSymListCache` and its two guard classes |
| `LinkCrawl` | what the caller of a crawl is promised: a list of URLs, each handled once, then the answer |
| `KmlCrawler` | `DownloadKML` |
| `RwServer` | `main`, the server threads, `MCC`, and the watchdog as a second process |
| `TickCount` | the threads and `GetTickCount`, which the next two share |
| `DemPool` | the open list of `DEMFILE` and the loop of `DEMArray::height` |
| `GoogleKeys` | `gkey` |
| `ElevationSources` | the composition of the two: rasters first, then Google |
| `RwZip` | the destructor of `inetrwzip` with its threads and PhantomJS |
| `ScanQueue` | `ScanList`, called by the server and by `rw -scanbk` |
| `RwzCacheProofs`, `SymListCacheProofs`, `KmlCrawlerProofs`, `RwServerProofs`, `ElevationSourcesProofs`, `RwZipProofs`, `ScanQueueProofs` | the theorems about each, with their inductive invariants |
| `MC...` | model values, symmetry and the pages of the crawl |

### RwzCache

One archive and the requests for it. `file` is what the file holds, identified by its kind and the
number of the build that wrote it. `writer` and `readers` are the open handles: Windows share modes
are the only lock between requests, so every guard that opens the file states them. `CFILE::fopen`
needs no writer (`Readable`), `TZip::Create` and `DeleteFile` need no handle at all (`Unopened`), and
`CFILE::exist` asks for attributes only and always succeeds. `pc[r]` is the request's place in
`ProcessRWZ`; a step ends where another thread can see or change the file or where a call can fail.
`worker[r]` is its `threadzip` thread, `ok[r]` the field `q.ok` that both use without a lock, and `doc[r]`
how much of the pipe was read. `gen` and `built` are history.

The path is: `FindCached`, `Open` or `Refuse` (429 after ten tries), `ServeCached` or `Expired`, `Sent`; or
`Compute`, `CreateZip` or `CreateBusy` (hz is NULL, straight to the file), `StartQuery`/`StartNothing`/
`PipeFails`, `DrainAll` or `DrainCut`, `CloseZip`, `KeepZip` or `DeleteZip`, `ServeOpen` or `ServeNothing`, `Sent`.
Requests in `KmlRequests` (`nozip=`) relay the pipe and never touch the file.

`Faults` names what may go wrong: a query that fails, `CreatePipe` that fails, `AfxBeginThread` that starts
nothing (its result is ignored), a zero-length write that a reader takes for the end of the pipe, a full disk,
and the kill and restart by the heartbeat. A kill loses the requests in flight, frees the handles and leaves the
file as it is: untouched if nobody was building, empty (`stub`) or cut (`torn`) if somebody was. Such a file
is later served like any other (finding 2). `ServedWhole` says that this is the only way: an archive without an end that is
sent comes from a build in which the server was killed (`Interrupted`), or from a failing disk.

The size and date of the file are abstracted to `fresh`. `Expire` may happen at any time nobody writes,
which covers every value of `GetCacheMaxDays`. The ten retries of `fopen` are one step: between them the
request changes nothing. KML data, HTTP headers and attachments are left out; the attachments are added to
the zip between the end of the pipe and `CloseZip`, while the handle is exclusive.

### ArchiveSlot

The promise of the component without files, handles or threads. Every answer is the closed archive as it
stood at one instant, or a relayed stream, or nothing; builds follow one another and only an unopened slot
is emptied. `RwzCache` implements it with `slot <- file`, `last <- gen` and `answer` computed from `pc` and
`body`. The point of the refinement is that a transfer of many reads is atomic for the client, which
depends on every handle being opened and closed at the right place.

### SymListCache

`list` is `cachelist` (file id, address, pin count) and `csize` the count that the code keeps beside it.
`Lock` runs under `CC` and is one step that either finds the list (`LockHit`) or loads, inserts and purges
(`LockMiss`). `Unlock` is another. A guard pins its files one call at a time and unpins them one call at a time in its
destructor; a query that nests guards is two guards here. `Purge` evicts, oldest first, lists with count 0
until the limit is reached; because ages are differences of wrapping tick counts, any unpinned list may be the
oldest. `BeginInvalid` is the constructor of `CRiverCache(param, r)` that returns before it assigns `obj`;
the destructor then unlocks what happens to be on the stack. `Garbage` says which values the build may find
there: `null`, or the `stale` pointer of a list still in the cache. A stale pointer to a list already
destroyed is not modelled (the write would go to freed memory). `Abandon` is a query that crashes: the
`__except` of `ElevationQuery` catches the exception, and because the build uses `/EHsc` no destructor on the
way runs, so the pins of its guards stay. A dead guard is never used again; `Exhausted` lets the bounded supply of
guards run out. A crash inside `Lock`, which would leave `CC` owned, is in the plan with `MCC`.

### KmlCrawler

`Download` starts up to `maxthreads` threads, at most one a second, while there is something to take, and
returns when `numthreads` is 0. It reads the counters without the lock, so `Ramp`, `Spawn` and `Wait` are separate
steps. `numthreads` is counted by `Download` itself before the thread runs. `TakeUrl` and `Leave` are `Next()`;
`Tally` is the count of a finished URL; `FetchFails` and `CountError` are the two halves of `++error`, which is not
under the lock. Links are pushed one at a time. `Leave` keeps the order of the code: the URL is taken before the
test for the end, so it could be dropped; that this never happens is part of `Complete`.

Two kinds of failure are not counted by the code, and `ErrorsReported` does not claim them. A file of an archive for which there is
no memory is logged and skipped; and because the result of `UnzipItem` is ignored, one that cannot be unpacked is parsed as whatever
the memory holds. `BadEntry` is both: some of the links still to be found in an archive (`Archives`) are gone, and links of unwritten
memory (`Leftovers`) may be found in their place. `torn` is the history of such archives, once each and at most `MaxTorn` of them; `Complete`
says of a torn one no more than that it was gone through once. The download or the opening of the archive as a whole is `FetchFails`.

Left out: the placemark list, region filters, archives inside archives, and an `AfxBeginThread` that fails (12309): it comes after
`++numthreads`, so `Download` would wait for ever for a thread that was never born. Pages form no cycle, because nothing in the code removes duplicates and a cycle of links is crawled for ever (listed as a hazard).

### LinkCrawl

The promise of the crawl without threads, counters and locks: a list of entries, each with its page, the links yet to be
found of it and its mark. A link found is a new entry at the end; a page is marked `parsed` when no link is left and `failed` only before
any was found; a torn archive has its links left changed (`Spoil`), nothing else; the answer comes when every entry has its mark, and is `errors` if one is `failed`. `KmlCrawler` implements it:
what is left of a page is `rest` of the one thread that goes through its links (`Left`), the marks are
`got` and `lost`, the answer is read from `error` when `Download` returns. That no two threads work on one URL is what makes `Left` a
function of the entry: with two of them the links would be found twice.

### RwServer

`main` goes from starting the threads (`Clean` is the deletion of the abort file that follows) through the loop that looks for
the file once a minute (`Look`) to the wait for `THREADNUM` (`End`). `st[t]` is the place of a server thread: it counts itself
(`Enter`), tests `running` (`Top`), queues for the Accept lock (`TakeAccept`), sleeps in `FCGX_Accept_r` (`Accept`, which may
also return without a request), answers (`Answer`) or waits for the worker of a map (`StartMap`, `Finish`), and counts itself
out (`Leave`). The worker takes `MCC` (`LockMCC`); `Mapped` is its return from `Map`, or a crash that leaves the lock to a
thread that has ended (`Orphan`). `StartMap` may start no worker: the result of `AfxBeginThread` is ignored. That the
threads have counted themselves before the first minute is over is the one assumption about time (the guard of `Look`).

The watchdog has one thread, so `hb` is a place in `timer1_Tick`: `Tick` (the timer, or the tick that `StartHeartbeat`
runs by itself, remembered in `click`), `Pong` or `Timeout`, `Restart`, `Again`. `pending` is the backlog of the web server,
in which the ping is one request among others. A restart kills the first process of the name: the server, another
process run from the same executable, or none that can be started again. Before each restart, and before the watchdog stops itself,
it sends a mail, and `SendEmail` does not catch the exception of a mail server that does not answer: the tick ends there, with nothing
restarted and the timer as it was (`MailFails`). `RestartThrows` is the same for an exception of `RestartProcess`: from the kill, when nothing
is killed, or from its own mail, when the server was killed and did not start. `Clean` always succeeds, although the result of `DeleteFile` is
ignored: an abort file that cannot be deleted would stop the new server. `asked` and `late` are history. The inside of a
request is `RwzCache`'s; here a map is only what it holds and waits for.

### DemPool, GoogleKeys, ElevationSources

`DemPool` is the pool of open rasters: `openlist` counts how often a raster is listed, `valid` says whose handle can be
read, `datasets` how many GDAL data sets it holds. `OpenStep` is `DEMFILE::Open` with the purge before it; `Purged` leaves
open which rasters are the oldest. `Open` has the three ends of `GDALFILE::Open`: no data set, an irregular raster that
keeps its data set and is not listed, an open one. A caller is inside `cc` from `Enter` to `Leave`, over all rasters of
the cell.

`GoogleKeys` is `gkey`. `Call` is the test of `IsDisabled` before the lock, `TakeCC` the reset of the disable under it. In
the lock, `NextChunk` skips a chunk or asks for it, `Fail` rotates the key and disables the ring after as many failures in
a row as it has keys, `Reply` moves `start` by the number of elements with an elevation it holds, at least none. An element is held
against the point at its place; when it is for another point, or its elevation or resolution is not positive, the point gets nothing and
`start` moves on all the same: `void` is the history of those points, any of the reply. `getelev` so returns TRUE with points that have no elevation;
`NoneSkipped` says that each of them was held against an element. Which elevation a point gets is left out. `disabled` and `clock` are DWORDs
(`% Wrap`). `got` and `failed` are history.

`ElevationSources` runs both for the same threads, as `CanyonMapper` does: `getelevationDEM` point by point, then
`getelevationGOOG` with the points for which no raster had an elevation. The two locks are never held together.

### RwZip

`main` is the place of the request in `~inetrwzip`: start both threads, add the logo, run PhantomJS, wait for the checker and
close `hwrite`, close the ZIP, wait for the sender, delete. A file of the folder is `open` while PhantomJS writes it,
`whole` after, `cut` when the process ended first. `Wake` is one listing of the folder by the checker, `ZipAdd` and `Skip` its
files, `Round` the test that ends it after four quiet rounds. `pipe` holds at most `Cap` writes, so the sender, that is
the client, can stop the checker and the request. `handles` are the two write handles: `CreateZip` duplicates the one it is
given (`rw/rw/XZip.cpp` 2431), and the sender ends when both are closed. When a thread cannot be created the request
ends as `failed`, about which nothing is claimed. A `ZipAdd` that fails is logged and the request goes on: `AddLogo` may leave the logo
out of the ZIP, and `Skip` leaves a file for another round, be it that PhantomJS has it open or that it cannot be read. `refused` is
the history of the files that were whole and refused in the current round: those refused in the last one are the only ones of the folder that
may be missing. A `ZipAdd` that fails in the middle of an entry, after a part of it was written to the pipe, is left out.

### ScanQueue

`file` is `SCAN.csv`, the priority of each listed quad, negative for a second pass. A call of `ScanAdd` in the server is
`Query` (the look at the scan, before the lock), `AddLoad` and `AddSave`. `rw -scanbk` is one thread: `ToDo` picks
(`NextUp`), the scan ends as `ScanValid`, `ScanFails`, `ScanGood` or `ScanGoogle`, then `Load` and `Readd` or `Delete`. Loading and saving
are separate steps because the lock `CC` belongs to a process; each by itself is one step, because `CFILE::fopen` opens for
writing without sharing and waits. `data` is the scan of a quad, `off` the disabled state of `scangONkey` in the process of
the scan, which its own scans set (`Quota`) and time lifts (`Enable`).

Either process may be killed at any step (`ServerKilled`, `Kill`), the first by the watchdog. Its memory is gone. `Save` opens `SCAN.csv` for writing over
it, so a kill in a save leaves some first part of the new list (`Cuts`): quads are lost. A scan that does not end, killed or crashed, may have
saved its progress in the place of what the quad had (`Interrupted`): `cut`. That the list loses quads is what the code does, and nothing is
claimed against it: a scan that fails is deleted, a save undoes what the other process saved since the load, and a kill cuts. Claimed is what has to
hold of the quads that are left (`FirstPassDone`), and that they are done (`Drained`).

This is `rw -scanbk` with the default `-TMODE -1`: with `-TMODE 1` a scan that runs out of quota saves and fails
(`NeedAbortScan`, `Elevation.cpp` 19505-19512). Left out too: an `fopen` that fails for ten seconds (the update is lost, or the list taken for
empty), a third process (`rw -scanbk` with an argument) and quads whose scan is outdated by a new version. Entries of equal
priority are ordered by time in the code and in any order here.

## 3. Runs

| Run | Configuration | What it shows |
|---|---|---|
| `RwzCache_all` | 3 requests, all faults | `TypeOK`, `ServedWhole`, `NeverOlderThanBuilt`, `OneBuilder`, `StableWhileRead`, and that `RwzCache` implements `ArchiveSlot` |
| `RwzCache_fair` | 3 requests, one of them `nozip`, failing queries and pipes | `QueryOutlivesWorker`; under fairness every request is answered (`Answered`) |
| `RwzCache_ZipDeleted` | failing queries | counterexample to "Zip deleted" (finding 1) |
| `RwzCache_CachedHasMinSize` | kills | counterexample to "minsize valid zip" (finding 2) |
| `SymListCache` | 2 guards of up to 2 files, 5 files, limit 1, `null` only | `TypeOK`, `NoDangling`, `LockCount`, `OneListPerFile`, `BoundedByPins` |
| `SymListCache_uninit` | the same with `stale` | counterexample to `LockCount` (finding 3) |
| `KmlCrawler` | 5 pages, 3 threads, two pages that may fail, one of them an archive that may be torn | `TypeOK`, `Complete`, `ErrorsReported`, and that `KmlCrawler` implements `LinkCrawl`; under fairness `Returns` |
| `RwServer` | 2 threads, 1 pending connection | `TypeOK`, `NoRequestCut`, `FewAfterAbort`, `StopWasAsked`; under fairness `Terminates`, `Recovers` |
| `ElevationSources` | 2 threads, 3 points, 3 rasters (one irregular), pool limit 1, a ring of 2 keys and one of none, a tick count of 2 values | `TypeOK`, `ListExact`, `DataSetsBounded`, `EachKeyTried`, `NoneSkipped`; `EnabledAgain`, and with Google in service `Released` |
| `ElevationSources_noresults` | the same without "in service" | counterexample to `Released` (finding 4) |
| `RwZip` | 3 files, a pipe of 1 write | `TypeOK`, `NoFileMissed`, `WholeZip`, `NoneLeftBehind`; under fairness `Ends` |
| `ScanQueue` | 2 quads, 2 priorities, 3 queries, 2 kills | `TypeOK`, `FirstPassDone`; under fairness `Drained` |

Bounds. Three requests are the fewest with a builder, a request that has the file open and a third that sees
the result of both, which is what every property of the cache is about; each request runs once, and the
file found at start stands for any earlier history. The theorems remove the bound for the safety properties.
Five files with two guards of two are one file more than can be pinned, so an eviction has a choice. The limit 1
is below the pins, so the cache passes it; the shipped limit only makes that rarer. The pages give a page with two
links, a page linked twice and threads that poll while others still push, and more URLs than threads. One torn archive (`MaxTorn`) finds
links that are not its own while another thread goes through its own list; two would only make the crawl longer.

In `RwServer` two threads are one that holds a lock and one that waits for it, and one pending connection is a backlog that
the ping may find full; nothing else is bounded. In `ElevationSources` a chunk of 2 in 3 points gives a full and a short last
chunk, a reply may stop in the middle of either, and both rasters that can be read together pass the limit. The tick
count of two values wraps all the time; 24 hours are one tick, so that the disable ends before, at or after the wrap. In `RwZip` the pipe of one
write makes every writer wait; three files allow one added, one skipped and one that comes late. In `ScanQueue` two
priorities are needed for a raise, two quads for an order, three queries for one that comes late after two others,
and two kills for one of each process, or a second one in what the first has left.

Deadlock is checked except in `RwzCache_all`, where a request whose worker thread was never started does wait
for ever (a hazard of `PROJECT.json`), in `RwZip`, where the request ends, in `ScanQueue`, where the bound on queries ends the work, and in the two runs of `RwzCache` that stop at their counterexample. A
request killed by the heartbeat ends as `lost`.

Fairness. `RequestStep(r)`, `WorkerStep(r)`, `Download` and each `DownloadThread(t)` are weakly fair: each is a
thread that Windows schedules, none waits on a lock held across another step of the model, and a download or a
client's read ends by success or timeout. Nothing obliges a file to expire, a query to fail or the server to be
killed. `Answered` is checked without `spawn` (see above), `kill` (the request is lost), `blank` and `disk`.

In `RwServer` each thread that can run does, a lock is given to some waiter, a map returns or crashes, the web server goes on
sending requests, the watchdog's events happen, and mail does not fail for ever (strong fairness of `Timeout`, a `SendEmail` that returns). The requests are needed: `FCGX_Accept_r` does not look at `running`, so a
server nobody asks anything does not shut down. Nobody need ask for an abort, crash or press a button. `Terminates` and `Recovers` name
what they do not promise: a thread stuck behind an orphaned `MCC` or an unborn worker never leaves, and a watchdog that
stopped itself (after a restart that failed, or with the mail that failed after one) or was stopped restarts nothing. The hazard at
`Form1.cs:57` has no property for that reason.

In `ElevationSources` time passes, a thread in the lock goes on and a download ends. `Released` also needs `InService`, strong fairness of replies
that hold at least one elevation: the code ends a loop of refusals, not one of empty replies (finding 4). In `RwZip` the threads
run, the minute passes and the client reads; PhantomJS owes nothing. In `ScanQueue` both processes run, the disable of 24 hours ends
(`EnabledAgain` of `GoogleKeys`), and a scan that is begun again and again ends well once: a quad whose Google errors never go away
is scanned for ever, ahead of every first pass, as long as Google can be used.

## 4. Proofs

All for every value of the constants, and with no assumption beyond the named `ASSUME`s of the modules and those
given here. Every invariant that a run checks is a theorem (`TypeOK` included), and so are the action properties and the
refinements of `ArchiveSlot` and `LinkCrawl`. None of the properties but a few types is inductive as it stands: each module of proofs begins with the
conjuncts that make it so, and TLC checked each strengthening on the configuration of its run before it was proved.

`RwzCacheProofs`. `IInv` adds: `Handles` (a request holds the handles
its phase says), `Shares` (what the share modes give: a file being written has no reader, a file being read exists,
`open` means a writer), `Transfers` (the content under a transfer is the content at its start), `Builds` (the file never
falls behind a build whose request still wants to serve it), `Answers` and `Wrecks` (a file without an end has a killed build that wrote it, and
stays lost with it). One lemma per conjunct, one step per
action. From it: `TypeCorrect`, `ServedWholeThm`, `NeverOlderThanBuiltThm`, `OneBuilderThm`, `StableWhileReadThm`, all with
any faults, and `QueryOutlivesWorkerThm`, which assumes neither `blank` nor `disk`: with either, the request
stops reading the pipe early and does return under its worker. `Refinement` proves that each step of `RwzCache` is a
step of `ArchiveSlot` or a stutter; `Transfers` is what makes `Sent` a `Serve`.

`SymListCacheProofs`. `IInv` adds `IdleHoldsNothing`, `TodoUnheld` (a guard never holds a list of a file it
has yet to lock, so that a pin is counted once) and `CountRight` (`csize` is the real number of lists, a theorem of its
own: the limit is compared with `csize`). From it: `TypeCorrect`, `NoDanglingThm`, `LockCountThm`, `OneListPerFileThm`, and the action
property `PinnedStaysThm`, which says more than `NoDangling`: an address that a guard holds is never given to the list of another
file. `BoundedByPinsThm` needs a second layer, `Bounded`, with `FewPins` (what a guard pins and is yet to pin are no more than
its files). An insertion over the limit either ends at the limit or has evicted every list without a pin
(`MissBound`); then each list has a guard that pins it and a place among that guard's pins, which is an injection into guards
times `1..MaxBoxes` (`PinnedFew`). All hold with crashed queries and assume only that `stale` is not in `Garbage`, which is
exactly what the run `SymListCache_uninit` shows they need.

`KmlCrawlerProofs`. The counters are the argument: `Counts` says `u` is `tu` plus the number of busy threads and
`numthreads` the number of live ones. Hence a thread that sees `tu = Len(urls)` knows that nobody is busy, and since only
busy threads push, that this stays so (`Finished`). `Begun`, `Ended`, `Taken` and `Pushed` carry this to the return of
`Download`. From it: `TypeCorrect`, `TakenOnceThm`, `CompleteThm`, and with an invariant about pending increments
`ErrorsReportedThm`: the unlocked increments may lose errors but not the last one, so the answer says of the downloads and archives that
failed as a whole whether there is one; files of an archive that were not unpacked are not in it. A torn archive is known by its place in the list, and what
was pushed of it need only be a part of the list (`BadEntryFacts`). `Refinement` proves that each step of a thread is a step of
`LinkCrawl` or one the caller does not see. `LeftKnown` evaluates the `CHOOSE` in `Left` (`TakenOnce` makes the thread unique), `SameEntry` and `SameList` dispose of the
steps that find nothing, and `PushLinkFinds`, `BadEntrySpoils`, `ParsedParses`, `FetchFailsFails` and `WaitReturns` are the five that do; the last rests on
`Complete` and `Errors` in the state after the step.

`RwServerProofs`. `Counted`: `THREADNUM` is the number of threads that counted themselves in and not out, so main, which waits for 0,
finds none in a request once every thread was born (`AllBorn`, from the guard of `Look`). `LateCounted`: the requests served since the flag fell and the
threads that have passed their look at it are together no more than the threads; each late request uses one up. `AbortAsked` says that an abort
file seen by the loop was written for this process. One lemma (`Moved`) tells how a count of threads changes when one of them moves, and serves
every action. From it: `TypeCorrect`, `NoRequestCutThm`, `FewAfterAbortThm`, `StopWasAskedThm`.

`ElevationSourcesProofs`. The invariant is one part per component and one for what ties them. For the rasters, `OneDataSet` (a raster has at
most one data set, and has it only when it is open or irregular) and `FewOpen` (the purge leaves room for the one to be opened)
count the data sets through `Entries`: a list of 0 and 1 has as many entries as rasters with 1 (`EntriesCount`). For the keys, the argument is `Failures`:
the keys that failed since the last success are the `error` keys before the one in use, around the ring (`Before`), whatever key the
earlier calls stopped at; one more failure extends this arc by the key in use (`BeforeNext`), and an arc of as many
keys as the ring has is all of it. `Owned` says that the counts inside the lock start at nothing, `KeyInUse` that a thread that got
past `IsDisabled` has a ring with keys, `Covered` that the points up to `start` were held against an element. `OnPath` keeps a thread that is among the rasters on its path.
From it: `TypeCorrect`, `ListExactThm`, `DataSetsBoundedThm`, `EachKeyTriedThm`, `NoneSkippedThm`. Assumed of the constants: finitely many rasters, at
least one ring (a ring may have no key), and that the numbers of a path's points are among the points the rasters cover (`PathAssumption`, by which the two models are
put together).

`RwZipProofs`. `Bytes` relates what the client received and what the pipe holds to the list of files added, with or without the logo; `Stages` says where
the threads and the two write handles are while the request goes on; `Rounds` is the reason nothing is missed: the checker reads the folder first and the flag afterwards, so
the first quiet round proves nothing, but from the second one on it looked when PhantomJS was over. From it: `TypeCorrect`, `NoFileMissedThm`,
`WholeZipThm`, `NoneLeftBehindThm`, for any files and any capacity of the pipe.

`ScanQueueProofs`. `PassedEverywhere` extends `FirstPassDone` to every list and call that may still be saved: the two processes save what they loaded earlier, so the
file alone says too little. `Known` is what `rw -scanbk` knows of its quad in each step, and `CutFacts` that a part of a list says nothing the list does not.
From it: `TypeCorrect`, `FirstPassDoneThm`, for any quads and priorities, any number of queries and kills.

Only model-checked: the liveness properties `Answered`, `Returns`, `Terminates`, `Recovers`, `EnabledAgain`, `Released`, `Ends` and `Drained`. They
depend on fairness, and so on `ENABLED`, which the prover cannot do. What the code violates
(`ZipDeleted`, `CachedHasMinSize`, `LockCount` with stale pointers, `Released` without service) is not a theorem. Two definitions are written for the proofs: the size of the open list is the cardinality of `Entries`
and not a sum over the rasters, because a sum by recursion can be reasoned about only by induction over data; and `Added` of `ScanQueue` uses `Put` for a list with one
entry changed.

## 5. Findings

1. `RwzCache_ZipDeleted`: `CloseZip` frees the exclusive handle before `DeleteFile`, whose result is ignored.
   A request that opens the file in between makes the delete fail; the archive of the failed query stays, fresh, and is
   served with status 200 until it expires. The log line says "Zip deleted".
2. `RwzCache_CachedHasMinSize`: `minsize` ("minsize valid zip") is never compared. A server killed after `CreateZip` leaves
   an empty archive with a new date, which the restarted server serves from the cache.
3. `SymListCache_uninit`: `CRiverCache(param, r)` can return before it assigns `obj`, and the destructor unlocks that
   uninitialised pointer. If it is a list pinned by another thread, that list loses its pin.
4. `ElevationSources_noresults`: `getelev` moves to the next chunk by the number of elevations in a reply ("start should take care"). A
   reply without any that does not say `OVER_QUERY_LIMIT`, a denied key for instance, is no error: the same chunk is asked
   for ever, with the lock of all rings held.

## 6. Not modelled, and why

Terrain and catchment algorithms (floating point over rasters); KML, CSV, HTML and wiki text (formatting); the wiki
extraction bot and the robots (single-threaded batch jobs); zip compression; gpsbabel, GDAL, the FastCGI
library and other vendored code. These make up most of the repository's lines: the state that several threads or
processes share is in a few classes of `Elevation.cpp`, `RWServer.cpp`, `processrequest.cpp`, `Waterflow.cpp` and `inetdata.cpp`. The URL
cache of `Elevation.cpp` 11985-12093 is commented out. `ONEZIP`, `SCANTHREAD` and `WATERFLOW` (which loads the sites at start) are
switched off in the build.

## 7. Plan

Ordered by how much of the service depends on the component.

1. `RwzCache` with `ArchiveSlot`, `SymListCache`, `KmlCrawler`: done, with proofs.
2. `RwServer`, `ElevationSources` with `DemPool` and `GoogleKeys`, `RwZip`, `ScanQueue`: done, with proofs.
3. `LinkCrawl`, which `KmlCrawler` implements: done, with the refinement proved.
4. `ListScan` (`CSymListThread`): each item once, no use of the object after the constructor returns.
5. `Waterflow` (`CSite`): load, merge, flush, exit and restart; what was saved is what was merged. `OverlayList`: nobody sees
   a half-loaded list.
