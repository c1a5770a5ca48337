---- MODULE LinkCrawl ----
(***************************************************************************)
(* What a crawl promises its caller, without threads, counters and locks:  *)
(* each URL it is given or finds is handled once, on its own; a page that  *)
(* is parsed has given all of its links, in order, a page that failed has  *)
(* given none; and the answer comes when every URL has been handled, and   *)
(* tells whether one has failed.  It does not promise to unpack an archive:*)
(* the links of a file of it may be lost, and what memory held be taken    *)
(* for them.                                                               *)
(***************************************************************************)
EXTENDS Naturals, Sequences

CONSTANTS Pages, Links, Start, Flaky, Archives, Leftovers

VARIABLES list,     \* the URLs, as they are found: [page, left, mark]
          answer    \* what the caller got: "none" yet, "clean", "errors"

crawlVars == <<list, answer>>

Found(p) == [page |-> p, left |-> Links[p], mark |-> "open"]

Init ==
    /\ list = [i \in 1..Len(Start) |-> Found(Start[i])]
    /\ answer = "none"

Open(i) == i \in 1..Len(list) /\ list[i].mark = "open"
Mark(i, m) == list' = [list EXCEPT ![i].mark = m]

\* the next link of a page is a new URL, even when the list has one like it
Find(i) ==
    /\ Open(i) /\ list[i].left # <<>>
    /\ list' = Append([list EXCEPT ![i].left = Tail(@)], Found(Head(list[i].left)))
    /\ UNCHANGED answer

\* the next links of an archive, of a file that is not unpacked, are lost
Spoil(i) ==
    /\ Open(i) /\ list[i].page \in Archives
    /\ \E n \in 0..Len(list[i].left), l \in Leftovers :
          list' = [list EXCEPT ![i].left = l \o SubSeq(@, n + 1, Len(@))]
    /\ UNCHANGED answer

Parse(i) ==
    /\ Open(i) /\ list[i].left = <<>>
    /\ Mark(i, "parsed")
    /\ UNCHANGED answer

Fail(i) ==
    /\ Open(i) /\ list[i].page \in Flaky /\ list[i].left = Links[list[i].page]
    /\ Mark(i, "failed")
    /\ UNCHANGED answer

Return ==
    /\ answer = "none" /\ \A i \in 1..Len(list) : ~Open(i)
    /\ answer' = IF \E i \in 1..Len(list) : list[i].mark = "failed" THEN "errors" ELSE "clean"
    /\ UNCHANGED list

Next == Return \/ \E i \in 1..Len(list) : Find(i) \/ Spoil(i) \/ Parse(i) \/ Fail(i)

Spec == Init /\ [][Next]_crawlVars
====
