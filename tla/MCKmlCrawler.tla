---- MODULE MCKmlCrawler ----
EXTENDS KmlCrawler
CONSTANTS top, left, right, shared1, leaf, t1, t2, t3

\* a root with two children that share a grandchild, and a leaf
MCLinks == [p \in Pages |->
              CASE p = top -> <<left, right>>
                [] p = left -> <<shared1>>
                [] p = right -> <<shared1, leaf>>
                [] OTHER -> <<>>]
MCStart == <<top>>

\* memory that was never written: nothing, or the link of a page read before
MCLeftovers == {<<>>, <<leaf>>}
====
