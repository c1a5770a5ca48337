---- MODULE RwZip ----
(***************************************************************************)
(* The end of a zipx= request (the destructor of inetrwzip).  PhantomJS    *)
(* renders the pages into a folder; the checker thread adds each new file  *)
(* of the folder to a ZIP whose bytes go into a pipe; the sender thread    *)
(* copies the pipe to the client.  The request waits for PhantomJS, then   *)
(* for the checker, closes the ZIP, waits for the sender, and deletes the  *)
(* files.  The pipe has two write handles, hwrite and the duplicate that   *)
(* CreateZip makes of it: its reader sees the end when both are closed.    *)
(***************************************************************************)
EXTENDS Integers, Sequences, FiniteSets, SequencesExt

CONSTANTS Files,     \* what PhantomJS may write
          Logo, Dir, \* the other parts of the ZIP: ropewiki.png, its directory
          Cap        \* writes the pipe can hold

ASSUME FilesAssumption == IsFiniteSet(Files) /\ {Logo, Dir} \cap Files = {} /\ Logo # Dir
ASSUME CapAssumption == Cap \in Nat \ {0}

VARIABLES main,       \* the request
          phantomjs,  \* the flag it lowers when PhantomJS is over
          old,        \* nfiles as the wait for PhantomJS last saw it
          js,         \* the process: "none", "run", "over"
          file,       \* each file: "none", "open", "whole", "cut"
          checker,    \* its thread: "none", "sleep", "scan", "end"
          todo,       \* files of the folder it has yet to look at
          found,      \* a file was added in this round
          retry,      \* rounds without one since PhantomJS is over
          listfiles,  \* files it has added; nfiles is their number
          refused,    \* history: whole files it could not add in this round
          sender,     \* its thread: "none", "run", "end"
          handles,    \* open write handles of the pipe
          pipe,       \* what has been written and not yet read
          received    \* what the client was sent

vars == <<main, phantomjs, old, js, file, checker, todo, found, retry,
          listfiles, refused, sender, handles, pipe, received>>

request == <<main, phantomjs, old>>
folder == <<js, file>>
check == <<checker, todo, found, retry, listfiles, refused>>
line == <<sender, handles, pipe, received>>

nfiles == Cardinality(listfiles)
Written == {f \in Files : file[f] # "none"}

Init ==
    /\ main = "start" /\ phantomjs = TRUE /\ old = 0
    /\ js = "none" /\ file = [f \in Files |-> "none"]
    /\ checker = "none" /\ todo = {} /\ found = FALSE /\ retry = 0
    /\ listfiles = {} /\ refused = {}
    /\ sender = "none" /\ handles = {"hwrite", "hz"} /\ pipe = <<>> /\ received = <<>>

----------------------------------------------------------------------------
(* The request                                                             *)

\* when one thread cannot be created the request returns, and the other one
\* keeps running
Start ==
    /\ main = "start"
    /\ sender' \in {"none", "run"}
    /\ checker' \in {"none", "sleep"}
    /\ main' = IF sender' = "run" /\ checker' = "sleep" THEN "logo" ELSE "failed"
    /\ UNCHANGED <<phantomjs, old, folder, todo, found, retry, listfiles, refused,
                   handles, pipe, received>>

\* without the logo's file the failure is logged and the request goes on
AddLogo ==
    /\ main = "logo"
    /\ \/ Len(pipe) < Cap /\ pipe' = Append(pipe, Logo)
       \/ UNCHANGED pipe
    /\ main' = "js"
    /\ UNCHANGED <<phantomjs, old, folder, check, sender, handles, received>>

\* CreateProcess, which may fail
RunJS ==
    /\ main = "js" /\ js = "none"
    /\ js' \in {"run", "over"}
    /\ old' = nfiles
    /\ UNCHANGED <<main, phantomjs, file, check, line>>

\* what PhantomJS was writing stays as it is when it ends
CutOpen == file' = [f \in Files |-> IF file[f] = "open" THEN "cut" ELSE file[f]]

\* after a minute without a new file the process is terminated
Minute ==
    /\ main = "js" /\ js = "run"
    /\ IF old = nfiles THEN js' = "over" /\ CutOpen ELSE UNCHANGED folder
    /\ old' = nfiles
    /\ UNCHANGED <<main, phantomjs, check, line>>

JSOver ==
    /\ main = "js" /\ js = "over"
    /\ phantomjs' = FALSE
    /\ main' = "check"
    /\ UNCHANGED <<old, folder, check, line>>

\* mutant: the ZIP is closed without waiting for the checker
WaitCheckerNot ==
    /\ main = "check"
    /\ handles' = handles \ {"hwrite"}
    /\ main' = "dir"
    /\ UNCHANGED <<phantomjs, old, folder, check, sender, pipe, received>>

\* the wait for the checker, and CloseHandle(hwrite)
WaitChecker ==
    /\ main = "check" /\ checker = "end"
    /\ handles' = handles \ {"hwrite"}
    /\ main' = "dir"
    /\ UNCHANGED <<phantomjs, old, folder, check, sender, pipe, received>>

\* mutant: the ZIP keeps its own handle of the pipe
CloseZipKept ==
    /\ main = "dir" /\ Len(pipe) < Cap
    /\ pipe' = Append(pipe, Dir)
    /\ main' = "send"
    /\ UNCHANGED <<phantomjs, old, folder, check, sender, handles, received>>

\* CloseZip writes the directory, through its own handle, and closes that
CloseZip ==
    /\ main = "dir" /\ Len(pipe) < Cap
    /\ pipe' = Append(pipe, Dir)
    /\ handles' = handles \ {"hz"}
    /\ main' = "send"
    /\ UNCHANGED <<phantomjs, old, folder, check, sender, received>>

\* mutant: the request does not wait for the sender
WaitSenderNot ==
    /\ main = "send"
    /\ main' = "done"
    /\ file' = IF nfiles > 0 THEN [f \in Files |-> IF f \in listfiles THEN "none" ELSE file[f]]
               ELSE file
    /\ UNCHANGED <<phantomjs, old, js, check, line>>

\* the wait for the sender; the files are deleted if there were any
WaitSender ==
    /\ main = "send" /\ sender = "end"
    /\ main' = "done"
    /\ file' = IF nfiles > 0 THEN [f \in Files |-> IF f \in listfiles THEN "none" ELSE file[f]]
               ELSE file
    /\ UNCHANGED <<phantomjs, old, js, check, line>>

----------------------------------------------------------------------------
(* PhantomJS                                                               *)

Create(f) ==
    /\ js = "run" /\ file[f] = "none"
    /\ file' = [file EXCEPT ![f] = "open"]
    /\ UNCHANGED <<request, js, check, line>>

Complete(f) ==
    /\ js = "run" /\ file[f] = "open"
    /\ file' = [file EXCEPT ![f] = "whole"]
    /\ UNCHANGED <<request, js, check, line>>

\* it exits, or crashes
Exit ==
    /\ js = "run"
    /\ js' = "over"
    /\ CutOpen
    /\ UNCHANGED <<request, check, line>>

----------------------------------------------------------------------------
(* The checker                                                             *)

Wake ==
    /\ checker = "sleep"
    /\ checker' = "scan"
    /\ todo' = Written \ listfiles
    /\ found' = FALSE /\ refused' = {}
    /\ UNCHANGED <<request, folder, retry, listfiles, line>>

\* ZipAdd fails: PhantomJS still has the file open, or it cannot be read.  It is
\* left for another round
Skip(f) ==
    /\ checker = "scan" /\ f \in todo
    /\ todo' = todo \ {f}
    /\ refused' = IF file[f] = "open" THEN refused ELSE refused \cup {f}
    /\ UNCHANGED <<request, folder, checker, found, retry, listfiles, line>>

ZipAdd(f) ==
    /\ checker = "scan" /\ f \in todo /\ file[f] \in {"whole", "cut"}
    /\ Len(pipe) < Cap
    /\ pipe' = Append(pipe, f)
    /\ todo' = todo \ {f}
    /\ listfiles' = listfiles \cup {f}
    /\ found' = TRUE
    /\ UNCHANGED <<request, folder, checker, retry, refused, sender, handles, received>>

\* mutant: the first quiet round after PhantomJS is the last one
RoundOnce ==
    /\ checker = "scan" /\ todo = {}
    /\ checker' = IF ~found /\ ~phantomjs THEN "end" ELSE "sleep"
    /\ UNCHANGED <<request, folder, todo, found, retry, listfiles, refused, line>>

\* mutant: one quiet round more
RoundLonger ==
    /\ checker = "scan" /\ todo = {}
    /\ IF ~found /\ ~phantomjs
       THEN /\ checker' = IF retry > 3 THEN "end" ELSE "sleep"
            /\ retry' = retry + 1
       ELSE checker' = "sleep" /\ UNCHANGED retry
    /\ UNCHANGED <<request, folder, todo, found, listfiles, refused, line>>

\* retry++ > 2
Round ==
    /\ checker = "scan" /\ todo = {}
    /\ IF ~found /\ ~phantomjs
       THEN /\ checker' = IF retry > 2 THEN "end" ELSE "sleep"
            /\ retry' = retry + 1
       ELSE checker' = "sleep" /\ UNCHANGED retry
    /\ UNCHANGED <<request, folder, todo, found, listfiles, refused, line>>

----------------------------------------------------------------------------
(* The sender                                                              *)

Send ==
    /\ sender = "run" /\ pipe # <<>>
    /\ received' = Append(received, Head(pipe))
    /\ pipe' = Tail(pipe)
    /\ UNCHANGED <<request, folder, check, sender, handles>>

SendEnd ==
    /\ sender = "run" /\ pipe = <<>> /\ handles = {}
    /\ sender' = "end"
    /\ UNCHANGED <<request, folder, check, handles, pipe, received>>

----------------------------------------------------------------------------
Request == Start \/ AddLogo \/ RunJS \/ JSOver \/ WaitChecker \/ CloseZip \/ WaitSender
Checker == Wake \/ Round \/ \E f \in Files : Skip(f) \/ ZipAdd(f)
Sender == Send \/ SendEnd
Script == Exit \/ \E f \in Files : Create(f) \/ Complete(f)

Next == Request \/ Minute \/ Checker \/ Sender \/ Script

\* the threads run, minutes pass, and the client takes what it is sent; nothing
\* is asked of PhantomJS
Spec == /\ Init /\ [][Next]_vars
        /\ WF_vars(Request) /\ WF_vars(Minute) /\ WF_vars(Checker) /\ WF_vars(Sender)

----------------------------------------------------------------------------
TypeOK ==
    /\ main \in {"start", "logo", "js", "check", "dir", "send", "done", "failed"}
    /\ phantomjs \in BOOLEAN /\ found \in BOOLEAN
    /\ js \in {"none", "run", "over"}
    /\ file \in [Files -> {"none", "open", "whole", "cut"}]
    /\ checker \in {"none", "sleep", "scan", "end"}
    /\ sender \in {"none", "run", "end"}
    /\ todo \subseteq Files /\ listfiles \subseteq Files /\ refused \subseteq Files
    /\ retry \in 0..4 /\ old \in 0..Cardinality(Files)
    /\ handles \subseteq {"hwrite", "hz"}
    /\ pipe \in Seq(Files \cup {Logo, Dir}) /\ Len(pipe) <= Cap
    /\ received \in Seq(Files \cup {Logo, Dir})

\* Nothing PhantomJS left in the folder is missed: when the checker ends, every
\* file written, the last one included, is in the ZIP or was tried in the last
\* round and could not be read, although the checker reads the folder first and
\* the flag afterwards (inetdata.h:112).
NoFileMissed == checker = "end" => Written \subseteq listfiles \cup refused \/ main = "done"

\* What is deleted at the end has been received, and the client has a ZIP with
\* each of those files once and the directory last.  (The logo, where it could
\* be added, is in it once too; it may be missing.)
WholeZip ==
    main = "done" =>
        /\ received # <<>> /\ Last(received) = Dir
        /\ ToSet(received) \ {Logo} = listfiles \cup {Dir}
        /\ Len(received) = Cardinality(ToSet(received))

\* The object is destroyed after both threads have stopped using it (except
\* where one of them could not be created).
NoneLeftBehind == main = "done" => checker = "end" /\ sender = "end"

\* Every request ends, even when PhantomJS hangs or the client reads slowly
\* enough to fill the pipe and stop the checker, which has PhantomJS terminated.
Ends == <>(main \in {"done", "failed"})
====
