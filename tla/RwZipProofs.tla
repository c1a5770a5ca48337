---- MODULE RwZipProofs ----
(***************************************************************************)
(* The ZIP of a zipx= request is whole: every file PhantomJS left in the   *)
(* folder is in it, each once, unless it could not be read in the last     *)
(* round either; what is deleted has been received, and both threads are   *)
(* over when the request is.  For any set of files and any capacity of the *)
(* pipe, whenever PhantomJS ends or is terminated, logo or not.            *)
(***************************************************************************)
EXTENDS RwZip, FiniteSetTheorems, SequenceTheorems, TLAPS

Parts == Files \cup {Logo, Dir}

\* What the client was sent, and what it will be.
Sent == received \o pipe

\* Where the request is after it has written the logo, waited for PhantomJS,
\* waited for the checker, written the directory.
LogoDone == {"js", "check", "dir", "send", "done"}
JSDone == {"check", "dir", "send", "done"}
CheckDone == {"dir", "send", "done"}
DirDone == {"send", "done"}

\* The bytes so far are the files listed, each once, after them the directory,
\* and the logo, if it could be added, before them.
Bytes ==
    /\ ToSet(Sent) \ {Logo} = listfiles \cup (IF main \in DirDone THEN {Dir} ELSE {})
    /\ Len(Sent) = Cardinality(ToSet(Sent))
    /\ main \notin LogoDone => Logo \notin ToSet(Sent)
    /\ main \in DirDone => Last(Sent) = Dir

\* Where the others are while the request goes on.
Stages ==
    /\ main = "start" => checker = "none" /\ sender = "none"
    /\ ~phantomjs <=> main \in JSDone
    /\ ~phantomjs => js = "over"
    /\ js # "run" => \A f \in Files : file[f] # "open"
    /\ main \in CheckDone => checker = "end"
    /\ "hwrite" \in handles <=> main \notin CheckDone
    /\ "hz" \in handles <=> main \notin DirDone
    /\ sender = "end" => handles = {} /\ pipe = <<>>
    /\ main = "done" => sender = "end"

\* The rounds of the checker: from the second quiet one on, it looked at the
\* folder after PhantomJS was over, and what it saw is all there is.
Rounds ==
    /\ todo \cap listfiles = {}
    /\ checker \in {"sleep", "scan"} => retry <= 3
    /\ checker = "end" => retry >= 2
    /\ retry >= 1 => ~phantomjs
    /\ retry >= 1 /\ checker = "scan" => Written \subseteq listfiles \cup todo \cup refused
    /\ retry >= 2 /\ checker # "scan" => Written \subseteq listfiles \cup refused

IInv == TypeOK /\ Bytes /\ Stages /\ Rounds

----------------------------------------------------------------------------
(* Sequences *)

\* The elements of a sequence with one more.
LEMMA ToSetAppend ==
    ASSUME NEW S, NEW s \in Seq(S), NEW e \in S
    PROVE  ToSet(Append(s, e)) = ToSet(s) \cup {e} /\ Last(Append(s, e)) = e
<1>1. /\ Append(s, e) \in Seq(S) /\ Len(Append(s, e)) = Len(s) + 1 /\ Len(s) \in Nat
      /\ \A i \in 1..Len(s) : Append(s, e)[i] = s[i]
      /\ Append(s, e)[Len(s) + 1] = e
  BY AppendProperties, LenProperties
<1>2. DOMAIN Append(s, e) = 1..(Len(s) + 1) /\ DOMAIN s = 1..Len(s)
  BY <1>1, LenProperties
<1>3. 1..(Len(s) + 1) = 1..Len(s) \cup {Len(s) + 1}
  BY <1>1
<1> QED
  BY <1>1, <1>2, <1>3 DEF ToSet, Last

\* A write to the pipe comes after all that was sent.
LEMMA SentWrite ==
    ASSUME NEW S, NEW s \in Seq(S), NEW t \in Seq(S), NEW e \in S
    PROVE  s \o Append(t, e) = Append(s \o t, e)
<1>1. <<e>> \in Seq(S)
  OBVIOUS
<1>2. Append(t, e) = t \o <<e>> /\ s \o t \in Seq(S)
  BY AppendIsConcat, ConcatProperties
<1>3. Append(s \o t, e) = (s \o t) \o <<e>>
  BY <1>2, AppendIsConcat
<1> QED
  BY <1>1, <1>2, <1>3, ConcatAssociative

\* What the sender takes from the pipe is the next that the client gets.
LEMMA SentRead ==
    ASSUME NEW S, NEW s \in Seq(S), NEW t \in Seq(S), t # <<>>
    PROVE  Append(s, Head(t)) \o Tail(t) = s \o t
<1>1. /\ Head(t) \in S /\ Tail(t) \in Seq(S) /\ Head(t) = t[1] /\ <<Head(t)>> \in Seq(S)
      /\ Len(t) \in Nat \ {0}
  BY HeadTailProperties, EmptySeq
<1>2. t = <<Head(t)>> \o Tail(t)
  <2>1. 1 \in 1..Len(t) /\ Len(t) \in 1..Len(t)
    BY <1>1
  <2>2. SubSeq(t, 1, Len(t)) = <<t[1]>> \o SubSeq(t, 1 + 1, Len(t))
    BY <2>1, SubSeqRecursiveFirst
  <2>3. SubSeq(t, 1, Len(t)) = t /\ Tail(t) = SubSeq(t, 2, Len(t)) /\ 1 + 1 = 2
    BY SubSeqFull, TailIsSubSeq
  <2> QED
    BY <1>1, <2>2, <2>3
<1>3. Append(s, Head(t)) = s \o <<Head(t)>>
  BY <1>1, AppendIsConcat
<1>4. (s \o <<Head(t)>>) \o Tail(t) = s \o (<<Head(t)>> \o Tail(t))
  BY <1>1, ConcatAssociative
<1> QED
  BY <1>2, <1>3, <1>4

----------------------------------------------------------------------------
(* Writes and reads of the pipe *)

\* nfiles is a number of files.
LEMMA FilesCounted ==
    ASSUME NEW F \in SUBSET Files
    PROVE  IsFiniteSet(F) /\ Cardinality(F) \in Nat /\ Cardinality(F) \in 0..Cardinality(Files)
BY FilesAssumption, FS_Subset, FS_CardinalityType

\* What is sent is made of finitely many parts.
LEMMA SentFinite ==
    ASSUME TypeOK
    PROVE  Sent \in Seq(Parts) /\ ToSet(Sent) \subseteq Parts /\ IsFiniteSet(ToSet(Sent))
<1>1. Sent \in Seq(Parts)
  BY ConcatProperties DEF TypeOK, Parts, Sent
<1>2. ToSet(Sent) \subseteq Parts
  BY <1>1, ElementOfSeq, LenProperties DEF ToSet
<1>3. IsFiniteSet({Logo}) /\ IsFiniteSet({Dir})
  BY FS_Singleton
<1>4. IsFiniteSet({Logo} \cup {Dir})
  BY <1>3, FS_Union
<1>5. Parts = Files \cup ({Logo} \cup {Dir})
  BY DEF Parts
<1>6. IsFiniteSet(Parts)
  BY <1>4, <1>5, FilesAssumption, FS_Union
<1> QED
  BY <1>1, <1>2, <1>6, FS_Subset

\* One more write.
LEMMA Write ==
    ASSUME TypeOK, NEW e \in Parts, Len(pipe) < Cap, pipe' = Append(pipe, e), UNCHANGED received
    PROVE  /\ pipe' \in Seq(Parts) /\ Len(pipe') <= Cap
           /\ ToSet(Sent)' = ToSet(Sent) \cup {e}
           /\ Len(Sent) = Cardinality(ToSet(Sent)) /\ e \notin ToSet(Sent)
                  => Len(Sent)' = Cardinality(ToSet(Sent)')
           /\ Last(Sent)' = e
<1>1. pipe \in Seq(Parts) /\ received \in Seq(Parts)
  BY DEF TypeOK, Parts
<1>2. received \o pipe \in Seq(Parts)
  BY <1>1, ConcatProperties
<1>3. received \o Append(pipe, e) = Append(received \o pipe, e)
  BY <1>1, SentWrite
<1>4. Sent' = Append(Sent, e) /\ Sent \in Seq(Parts)
  BY <1>2, <1>3 DEF Sent
<1>5. ToSet(Append(Sent, e)) = ToSet(Sent) \cup {e} /\ Last(Append(Sent, e)) = e
  BY <1>4, ToSetAppend
<1>6. Len(Append(Sent, e)) = Len(Sent) + 1 /\ Len(Sent) \in Nat
  BY <1>4, AppendProperties, LenProperties
<1>7. Append(pipe, e) \in Seq(Parts) /\ Len(Append(pipe, e)) <= Cap
  BY <1>1, AppendProperties, LenProperties, CapAssumption
<1>8. e \notin ToSet(Sent)
        => Cardinality(ToSet(Sent) \cup {e}) = Cardinality(ToSet(Sent)) + 1
  BY SentFinite, FS_AddElement
<1>9. ToSet(Sent)' = ToSet(Sent) \cup {e} /\ Last(Sent)' = e /\ Len(Sent)' = Len(Sent) + 1
  BY <1>4, <1>5, <1>6 DEF ToSet, Last
<1> QED
  BY <1>7, <1>8, <1>9

\* A read changes nothing of what is sent in the end.
LEMMA Read ==
    ASSUME TypeOK, Send
    PROVE  /\ Sent' = Sent
           /\ pipe' \in Seq(Parts) /\ Len(pipe') <= Cap /\ received' \in Seq(Parts)
<1>1. pipe \in Seq(Parts) /\ received \in Seq(Parts) /\ pipe # <<>> /\ Len(pipe) <= Cap
  BY DEF TypeOK, Parts, Send
<1>2. /\ Head(pipe) \in Parts /\ Tail(pipe) \in Seq(Parts)
      /\ Len(Tail(pipe)) <= Cap
  <2>1. Len(Tail(pipe)) = Len(pipe) - 1 /\ Len(pipe) \in Nat
    BY <1>1, HeadTailProperties, LenProperties
  <2> QED
    BY <1>1, <2>1, HeadTailProperties, CapAssumption
<1>3. Append(received, Head(pipe)) \in Seq(Parts)
  BY <1>1, <1>2, AppendProperties
<1>4. Append(received, Head(pipe)) \o Tail(pipe) = received \o pipe
  BY <1>1, SentRead
<1> QED
  BY <1>2, <1>3, <1>4 DEF Send, Sent

\* The bytes are right as long as none is written and the request does not
\* pass a stage where it writes.
LEMMA SameBytes ==
    ASSUME Bytes, UNCHANGED <<Sent, listfiles>>,
           main' \in LogoDone <=> main \in LogoDone, main' \in DirDone <=> main \in DirDone
    PROVE  Bytes'
BY DEF Bytes, ToSet, Last

----------------------------------------------------------------------------
(* The request *)

\* It starts the threads, or fails to.
LEMMA StartStep ==
    ASSUME IInv, Start
    PROVE  IInv'
<1> USE DEF IInv
<1>1. /\ main = "start" /\ main' \in {"logo", "failed"}
      /\ sender' \in {"none", "run"} /\ checker' \in {"none", "sleep"}
      /\ UNCHANGED <<phantomjs, old, folder, todo, found, retry, listfiles, refused,
                     handles, pipe, received>>
  BY DEF Start
<1>2. TypeOK'
  BY <1>1 DEF TypeOK, folder
<1>3. Bytes'
  BY <1>1, SameBytes DEF Sent, LogoDone, DirDone
<1>4. Stages'
  BY <1>1 DEF Stages, folder, JSDone, CheckDone, DirDone
<1>5. Rounds'
  <2>1. retry = 0
    BY <1>1 DEF Rounds, Stages, JSDone, TypeOK
  <2> QED
    BY <1>1, <2>1 DEF Rounds, Written, folder
<1> QED
  BY <1>2, <1>3, <1>4, <1>5

\* It writes the logo, or not.
LEMMA AddLogoStep ==
    ASSUME IInv, AddLogo
    PROVE  IInv'
<1> USE DEF IInv
<1>1. /\ main = "logo" /\ main' = "js"
      /\ (pipe' = Append(pipe, Logo) /\ Len(pipe) < Cap) \/ UNCHANGED pipe
      /\ UNCHANGED <<phantomjs, old, folder, check, sender, handles, received>>
  BY DEF AddLogo
<1>2. Logo \in Parts
  BY DEF Parts
<1>3. Logo \notin ToSet(Sent)
  BY <1>1 DEF Bytes, LogoDone
<1>4. TypeOK'
  BY <1>1, <1>2, Write DEF TypeOK, folder, check, Parts
<1>5. Bytes'
  <2>1. CASE pipe' = Append(pipe, Logo) /\ Len(pipe) < Cap
    <3>1. /\ ToSet(Sent)' = ToSet(Sent) \cup {Logo}
          /\ Len(Sent)' = Cardinality(ToSet(Sent)')
      BY <1>1, <1>2, <1>3, <2>1, Write DEF Bytes
    <3> QED
      BY <1>1, <3>1 DEF Bytes, check, LogoDone, DirDone
  <2>2. CASE UNCHANGED pipe
    BY <1>1, <1>3, <2>2 DEF Bytes, Sent, ToSet, check, LogoDone, DirDone
  <2> QED
    BY <1>1, <2>1, <2>2
<1>6. Stages'
  BY <1>1 DEF Stages, folder, check, JSDone, CheckDone, DirDone
<1>7. Rounds'
  BY <1>1 DEF Rounds, Written, folder, check
<1> QED
  BY <1>4, <1>5, <1>6, <1>7

\* It starts PhantomJS and waits for its end, or terminates it.
LEMMA WaitJSStep ==
    ASSUME IInv, RunJS \/ Minute \/ JSOver
    PROVE  IInv'
<1> USE DEF IInv
<1>1. /\ main = "js" /\ main' \in {"js", "check"} /\ phantomjs' \in BOOLEAN
      /\ js' \in {"run", "over"}
      /\ UNCHANGED <<check, line>>
  BY DEF RunJS, Minute, JSOver, CutOpen, folder, TypeOK
<1>2. /\ file' \in [Files -> {"none", "open", "whole", "cut"}]
      /\ Written' = Written
      /\ js' # "run" => \A f \in Files : file'[f] # "open"
  <2>1. CASE UNCHANGED file
    BY <1>1, <2>1 DEF RunJS, Minute, JSOver, CutOpen, folder, TypeOK, Written, Stages
  <2>2. CASE CutOpen
    BY <2>2 DEF CutOpen, TypeOK, Written
  <2> QED
    BY <2>1, <2>2 DEF RunJS, Minute, JSOver, folder
<1>3. TypeOK'
  <2>1. old' \in 0..Cardinality(Files)
    BY FilesCounted DEF RunJS, Minute, JSOver, TypeOK, nfiles
  <2> QED
    BY <1>1, <1>2, <2>1 DEF TypeOK, check, line
<1>4. Bytes'
  BY <1>1, SameBytes DEF Sent, check, line, LogoDone, DirDone
<1>5. Stages'
  BY <1>1, <1>2 DEF Stages, RunJS, Minute, JSOver, folder, check, line, JSDone, CheckDone, DirDone
<1>6. Rounds'
  <2>1. ~phantomjs => ~phantomjs'
    BY <1>1 DEF Stages, JSDone
  <2> QED
    BY <1>1, <1>2, <2>1 DEF Rounds, check
<1> QED
  BY <1>3, <1>4, <1>5, <1>6

\* It waits for the checker and closes its handle of the pipe.
LEMMA WaitCheckerStep ==
    ASSUME IInv, WaitChecker
    PROVE  IInv'
<1> USE DEF IInv
<1>1. /\ main = "check" /\ main' = "dir" /\ checker = "end" /\ handles' = handles \ {"hwrite"}
      /\ UNCHANGED <<phantomjs, old, folder, check, sender, pipe, received>>
  BY DEF WaitChecker
<1>2. TypeOK'
  BY <1>1 DEF TypeOK, folder, check
<1>3. Bytes'
  BY <1>1, SameBytes DEF Sent, check, LogoDone, DirDone
<1>4. Stages'
  BY <1>1 DEF Stages, folder, check, JSDone, CheckDone, DirDone
<1>5. Rounds'
  BY <1>1 DEF Rounds, Written, folder, check
<1> QED
  BY <1>2, <1>3, <1>4, <1>5

\* It writes the directory and closes the ZIP's handle of the pipe.
LEMMA CloseZipStep ==
    ASSUME IInv, CloseZip
    PROVE  IInv'
<1> USE DEF IInv
<1>1. /\ main = "dir" /\ main' = "send" /\ handles' = handles \ {"hz"}
      /\ pipe' = Append(pipe, Dir) /\ Len(pipe) < Cap
      /\ UNCHANGED <<phantomjs, old, folder, check, sender, received>>
  BY DEF CloseZip
<1>2. Dir \in Parts
  BY DEF Parts
<1>3. TypeOK'
  BY <1>1, <1>2, Write DEF TypeOK, folder, check, Parts
<1>4. Dir \notin ToSet(Sent)
  BY <1>1, FilesAssumption DEF Bytes, DirDone, TypeOK
<1>5. Bytes'
  <2>1. /\ ToSet(Sent)' = ToSet(Sent) \cup {Dir} /\ Last(Sent)' = Dir
        /\ Len(Sent)' = Cardinality(ToSet(Sent)')
    BY <1>1, <1>2, <1>4, Write DEF Bytes
  <2> QED
    BY <1>1, <2>1, FilesAssumption DEF Bytes, check, LogoDone, DirDone
<1>6. Stages'
  BY <1>1 DEF Stages, folder, check, JSDone, CheckDone, DirDone
<1>7. Rounds'
  BY <1>1 DEF Rounds, Written, folder, check
<1> QED
  BY <1>3, <1>5, <1>6, <1>7

\* It waits for the sender and deletes the files.
LEMMA WaitSenderStep ==
    ASSUME IInv, WaitSender
    PROVE  IInv'
<1> USE DEF IInv
<1>1. /\ main = "send" /\ main' = "done" /\ sender = "end"
      /\ UNCHANGED <<phantomjs, old, js, check, line>>
  BY DEF WaitSender
<1>2. /\ file' \in [Files -> {"none", "open", "whole", "cut"}]
      /\ \A f \in Files : file'[f] \in {file[f], "none"}
  BY DEF WaitSender, TypeOK
<1>3. TypeOK'
  BY <1>1, <1>2 DEF TypeOK, check, line
<1>4. Bytes'
  BY <1>1, SameBytes DEF Sent, check, line, LogoDone, DirDone
<1>5. Stages'
  BY <1>1, <1>2 DEF Stages, check, line, JSDone, CheckDone, DirDone
<1>6. Rounds'
  <2>1. Written' \subseteq Written
    BY <1>2 DEF Written
  <2> QED
    BY <1>1, <2>1 DEF Rounds, check
<1> QED
  BY <1>3, <1>4, <1>5, <1>6

----------------------------------------------------------------------------
(* PhantomJS *)

\* It writes files only before its end, which the checker's quiet rounds follow.
LEMMA ScriptStep ==
    ASSUME IInv, Script
    PROVE  IInv'
<1> USE DEF IInv
<1>1. js = "run" /\ js' \in {"run", "over"} /\ UNCHANGED <<request, check, line>>
  BY DEF Script, Exit, Create, Complete
<1>2. /\ file' \in [Files -> {"none", "open", "whole", "cut"}]
      /\ js' # "run" => \A f \in Files : file'[f] # "open"
  BY <1>1 DEF Script, Exit, CutOpen, Create, Complete, TypeOK
<1>3. TypeOK'
  BY <1>1, <1>2 DEF TypeOK, request, check, line
<1>4. Bytes'
  BY <1>1, SameBytes DEF Sent, request, check, line
<1>5. Stages'
  BY <1>1, <1>2 DEF Stages, request, check, line
<1>6. Rounds'
  <2>1. ~(retry >= 1) /\ ~(retry >= 2)
    BY <1>1 DEF Rounds, Stages, TypeOK
  <2> QED
    BY <1>1, <2>1 DEF Rounds, check, request
<1> QED
  BY <1>3, <1>4, <1>5, <1>6

----------------------------------------------------------------------------
(* The checker *)

\* It looks at the folder.
LEMMA WakeStep ==
    ASSUME IInv, Wake
    PROVE  IInv'
<1> USE DEF IInv
<1>1. /\ checker = "sleep" /\ checker' = "scan" /\ todo' = Written \ listfiles /\ found' = FALSE
      /\ refused' = {}
      /\ UNCHANGED <<request, folder, retry, listfiles, line>>
  BY DEF Wake
<1>2. TypeOK'
  BY <1>1 DEF TypeOK, request, folder, line, Written
<1>3. Bytes'
  BY <1>1, SameBytes DEF Sent, request, line
<1>4. Stages'
  BY <1>1 DEF Stages, request, folder, line
<1>5. Rounds'
  BY <1>1 DEF Rounds, Written, request, folder
<1> QED
  BY <1>2, <1>3, <1>4, <1>5

\* It leaves an open file, and none is open once PhantomJS is over, or one it
\* could not read.
LEMMA SkipStep ==
    ASSUME IInv, NEW f \in Files, Skip(f)
    PROVE  IInv'
<1> USE DEF IInv
<1>1. /\ checker = "scan" /\ todo' = todo \ {f}
      /\ refused' = IF file[f] = "open" THEN refused ELSE refused \cup {f}
      /\ UNCHANGED <<request, folder, checker, found, retry, listfiles, line>>
  BY DEF Skip
<1>2. TypeOK'
  BY <1>1 DEF TypeOK, request, folder, line
<1>3. Bytes'
  BY <1>1, SameBytes DEF Sent, request, line
<1>4. Stages'
  BY <1>1 DEF Stages, request, folder, line
<1>5. Rounds'
  <2>1. retry >= 1 => refused' = refused \cup {f}
    BY <1>1 DEF Rounds, Stages
  <2> QED
    BY <1>1, <2>1 DEF Rounds, Written, request, folder
<1> QED
  BY <1>2, <1>3, <1>4, <1>5

\* It adds a file to the ZIP, one that was not added before.
LEMMA ZipAddStep ==
    ASSUME IInv, NEW f \in Files, ZipAdd(f)
    PROVE  IInv'
<1> USE DEF IInv
<1>1. /\ checker = "scan" /\ f \in todo /\ Len(pipe) < Cap
      /\ pipe' = Append(pipe, f) /\ todo' = todo \ {f} /\ listfiles' = listfiles \cup {f}
      /\ found' = TRUE
      /\ UNCHANGED <<request, folder, checker, retry, refused, sender, handles, received>>
  BY DEF ZipAdd
<1>2. f \in Parts /\ f \notin listfiles
  BY <1>1 DEF Parts, Rounds
<1>3. TypeOK'
  BY <1>1, <1>2, Write DEF TypeOK, request, folder, Parts
<1>4. main \notin DirDone
  BY <1>1 DEF Stages, CheckDone, DirDone
<1>5. f \notin ToSet(Sent) /\ f # Logo
  BY <1>2, <1>4, FilesAssumption DEF Bytes
<1>6. Bytes'
  <2>1. /\ ToSet(Sent)' = ToSet(Sent) \cup {f}
        /\ Len(Sent)' = Cardinality(ToSet(Sent)')
    BY <1>1, <1>2, <1>5, Write DEF Bytes
  <2> QED
    BY <1>1, <1>4, <1>5, <2>1 DEF Bytes, request, LogoDone, DirDone
<1>7. Stages'
  BY <1>1, <1>4 DEF Stages, request, folder, CheckDone, DirDone
<1>8. Rounds'
  BY <1>1 DEF Rounds, Written, request, folder
<1> QED
  BY <1>3, <1>6, <1>7, <1>8

\* It ends a round: when the round is a quiet one after PhantomJS and the one
\* before it was too, all that is in the folder is listed or was refused.
LEMMA RoundStep ==
    ASSUME IInv, Round
    PROVE  IInv'
<1> USE DEF IInv
<1>1. /\ checker = "scan" /\ todo = {}
      /\ \/ /\ ~phantomjs /\ retry' = retry + 1
            /\ checker' = IF retry > 2 THEN "end" ELSE "sleep"
         \/ checker' = "sleep" /\ UNCHANGED retry
      /\ UNCHANGED <<request, folder, todo, found, listfiles, refused, line>>
  BY DEF Round
<1>2. retry \in 0..3
  BY <1>1 DEF Rounds, TypeOK
<1>3. TypeOK'
  BY <1>1, <1>2 DEF TypeOK, request, folder, line
<1>4. Bytes'
  BY <1>1, SameBytes DEF Sent, request, line
<1>5. Stages'
  BY <1>1 DEF Stages, request, folder, line, CheckDone
<1>6. Rounds'
  <2>1. retry >= 1 => Written \subseteq listfiles \cup refused
    BY <1>1 DEF Rounds
  <2> QED
    BY <1>1, <1>2, <2>1 DEF Rounds, Written, request, folder
<1> QED
  BY <1>3, <1>4, <1>5, <1>6

----------------------------------------------------------------------------
(* The sender, and the theorems *)

\* It takes the pipe to the client, and ends when nobody can write any more.
LEMMA SenderStep ==
    ASSUME IInv, Sender
    PROVE  IInv'
<1> USE DEF IInv
<1>1. /\ sender = "run" /\ UNCHANGED <<request, folder, check, handles>>
      /\ \/ sender' = "run" /\ Send
         \/ sender' = "end" /\ pipe = <<>> /\ handles = {} /\ UNCHANGED <<pipe, received>>
  BY DEF Sender, Send, SendEnd
<1>2. /\ Sent' = Sent
      /\ pipe' \in Seq(Parts) /\ Len(pipe') <= Cap /\ received' \in Seq(Parts)
  BY <1>1, Read DEF Sent, TypeOK, Parts
<1>3. TypeOK'
  BY <1>1, <1>2 DEF TypeOK, request, folder, check, Parts
<1>4. Bytes'
  BY <1>1, <1>2, SameBytes DEF request, check
<1>5. Stages'
  BY <1>1 DEF Stages, request, folder, check
<1>6. Rounds'
  BY <1>1 DEF Rounds, Written, request, folder, check
<1> QED
  BY <1>3, <1>4, <1>5, <1>6

LEMMA Inductive ==
    ASSUME IInv, [Next]_vars
    PROVE  IInv'
<1>1. CASE UNCHANGED vars
  <2>1. TypeOK' /\ Stages' /\ Rounds'
    BY <1>1 DEF vars, IInv, TypeOK, Stages, Rounds, Written
  <2>2. Bytes'
    BY <1>1, SameBytes DEF vars, IInv, Sent
  <2> QED
    BY <2>1, <2>2 DEF IInv
<1> QED
  BY <1>1, StartStep, AddLogoStep, WaitJSStep, WaitCheckerStep, CloseZipStep, WaitSenderStep,
     ScriptStep, WakeStep, SkipStep, ZipAddStep, RoundStep, SenderStep
     DEF Next, Request, Checker

\* The inductive invariant holds in every reachable state.
THEOREM Invariance == Spec => []IInv
<1>1. Init => IInv
  <2> SUFFICES ASSUME Init PROVE IInv
    OBVIOUS
  <2>1. Sent = <<>> /\ <<>> \in Seq(Parts) /\ Len(<<>>) = 0 /\ ToSet(<<>>) = {}
    BY EmptySeq DEF Init, Sent, ToSet
  <2>2. TypeOK
    <3>1. 0 \in 0..Cardinality(Files) /\ 0 <= Cap
      BY FilesCounted, CapAssumption
    <3>2. /\ pipe = <<>> /\ received = <<>> /\ old = 0 /\ retry = 0
          /\ file \in [Files -> {"none", "open", "whole", "cut"}]
      BY DEF Init
    <3>3. /\ pipe \in Seq(Parts) /\ Len(pipe) <= Cap /\ received \in Seq(Parts)
          /\ old \in 0..Cardinality(Files) /\ retry \in 0..4
      BY <2>1, <3>1, <3>2
    <3>4. /\ main = "start" /\ phantomjs = TRUE /\ js = "none" /\ checker = "none"
          /\ todo = {} /\ found = FALSE /\ listfiles = {} /\ refused = {} /\ sender = "none"
          /\ handles = {"hwrite", "hz"}
      BY DEF Init
    <3> QED
      BY <3>2, <3>3, <3>4 DEF TypeOK, Parts
  <2>3. Bytes
    BY <2>1, FS_EmptySet DEF Init, Bytes, LogoDone, DirDone
  <2>4. Stages /\ Rounds
    BY DEF Init, Stages, Rounds, Written, JSDone, CheckDone, DirDone
  <2> QED
    BY <2>2, <2>3, <2>4 DEF IInv
<1> QED
  BY <1>1, Inductive, PTL DEF Spec

\* Types of the request, its threads, the folder and the pipe.
THEOREM TypeCorrect == Spec => []TypeOK
<1>1. IInv => TypeOK
  BY DEF IInv
<1> QED
  BY Invariance, <1>1, PTL

\* When the checker ends, every file PhantomJS wrote is in the ZIP or could not
\* be read in the last round.
THEOREM NoFileMissedThm == Spec => []NoFileMissed
<1>1. IInv => NoFileMissed
  BY DEF IInv, Rounds, NoFileMissed
<1> QED
  BY Invariance, <1>1, PTL

\* The client has each file listed once and the directory last.
THEOREM WholeZipThm == Spec => []WholeZip
<1>1. IInv => WholeZip
  <2> SUFFICES ASSUME IInv, main = "done" PROVE WholeZip
    BY DEF WholeZip
  <2>1. received \in Seq(Parts) /\ pipe = <<>>
    BY DEF IInv, TypeOK, Parts, Stages
  <2>2. Sent = received
    BY <2>1, ConcatEmptySeq DEF Sent
  <2>3. /\ ToSet(received) \ {Logo} = listfiles \cup {Dir} /\ Last(received) = Dir
        /\ Len(received) = Cardinality(ToSet(received))
    BY <2>2 DEF IInv, Bytes, DirDone
  <2>4. received # <<>>
    <3>1. Dir \in ToSet(received)
      BY <2>3
    <3> QED
      BY <3>1 DEF ToSet
  <2> QED
    BY <2>3, <2>4 DEF WholeZip
<1> QED
  BY Invariance, <1>1, PTL

\* Both threads are over when the request is.
THEOREM NoneLeftBehindThm == Spec => []NoneLeftBehind
<1>1. IInv => NoneLeftBehind
  BY DEF IInv, Stages, CheckDone, NoneLeftBehind
<1> QED
  BY Invariance, <1>1, PTL
====
