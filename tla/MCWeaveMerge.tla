---------------------------- MODULE MCWeaveMerge ----------------------------
EXTENDS WeaveMerge

\* Kinds of bolt: plain ones of two sizes, one with tombstones, one that carries a
\* reused line pointer, ones with wefts, damaged ones, one whose
\* vector weft does not open.
Plain == [n |-> 1, tomb |-> 0, reused |-> "no", geom |-> "none", grams |-> FALSE,
          complete |-> TRUE, bad |-> "no"]
Large == [Plain EXCEPT !.n = 3]
Tombed == [Plain EXCEPT !.tomb = 1, !.reused = "dead", !.complete = FALSE]
Reborn == [Plain EXCEPT !.reused = "live"]
Lanes == [Plain EXCEPT !.geom = "g1"]
OtherLanes == [Plain EXCEPT !.geom = "g2", !.n = 3]
Grams == [Plain EXCEPT !.grams = TRUE]
Chain == [Plain EXCEPT !.bad = "chain"]
Weft == [Lanes EXCEPT !.bad = "weft"]
Torn == [Lanes EXCEPT !.geom = "torn"]

Kinds == <<Plain, Large, Tombed, Reborn, Lanes, OtherLanes, Grams, Chain, Weft, Torn>>

\* Directories of three and four bolts: any three kinds in order, and plain, damaged
\* or large bolts in any order.
MCDirectories ==
    {<<Kinds[i], Kinds[j], Kinds[k]>> : i \in 1..3, j \in 3..10, k \in {1, 3, 5, 6, 7, 8}} \union
    {<<Kinds[i], Kinds[i], Kinds[j], Kinds[k]>> : i \in {1, 5, 7}, j \in {1, 2, 7, 8}, k \in {1, 2, 3, 7, 8}}

MCArrivals == {Grams, Reborn}
=============================================================================
