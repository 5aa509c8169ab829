---------------------------- MODULE MCWatchlist ----------------------------
EXTENDS Watchlist, TargetIdentity

\* Targets and messages, so that the configurations can name them.
CONSTANTS d, a, b, m1, m2

\* Two messages with a target each.
MCCarries == [m \in Msgs |-> IF m = m1 THEN {a} ELSE {b}]

-----------------------------------------------------------------------------
\* What TargetIdentity says of small lists; TLC evaluates it before it starts.

Handle(i) == Text("handle", i, "plain")
Id(i) == Text("uc", i, "plain")
Title(i) == Text("title", i, "plain")
Page(kind, i) == Text(kind, i, "plain")
Titled(entry, i) == [entry EXCEPT !.name = Title(i)]

\* Entries of the channels x and y: by handle, by id, by both, with a name or without.
mcEntries ==
    {TargetOf(Page("hurl", "x")), TargetOf(Text("handle", "x", "cap")), TargetOf(Page("curl", "x")),
     Titled(TargetOf(Page("curl", "x")), "x"),
     [TargetOf(Page("hurl", "x")) EXCEPT !.channel_id = Id("x")],
     TargetOf(Text("hurl", "y", "tail")), Titled(TargetOf(Page("curl", "y")), "y"), TargetOf(Page("nurl", "y"))}

mcLists == UNION {[1 .. n -> mcEntries] : n \in 0 .. 3}

Healed(list) == MergeTargets(<<>>, list, <<>>).list
Twins(list, i, j) == i # j /\ KeySet(list[i]) \intersect KeySet(list[j]) # {}
Distinct(list) == \A i, j \in DOMAIN list : ~Twins(list, i, j)
ChannelsOf(list) == {list[i].url.id : i \in DOMAIN list}

\* Merging loses no channel and adds none, and a second merge of the result leaves no two
\* entries with an alias in common and is final ("self-healing", _merge_targets).  One
\* merge is not enough when an entry links two that were kept apart before it.
ASSUME HealsInTwo ==
    \A l \in mcLists :
        LET once == Healed(l)
            again == Healed(once)
        IN /\ ChannelsOf(once) = ChannelsOf(l)
           /\ Distinct(again) /\ ~Changed(again, Healed(again))
           /\ ~Distinct(once) => \E i, j, k \in DOMAIN l :
                                    i < j /\ j < k /\ ~Twins(l, i, j) /\ Twins(l, i, k) /\ Twins(l, j, k)

ASSUME OnceIsNotEnough == \E l \in mcLists : ~Distinct(Healed(l))

\* What counts as added was not among the existing entries under any alias.
ASSUME AddedIsNew ==
    \A l \in mcLists : \A e \in mcEntries :
        LET merged == MergeTargets(l, <<e>>, <<>>)
        IN merged.added # <<>> => \A i \in DOMAIN l : KeySet(l[i]) \intersect KeySet(e) = {}

\* Once a check has resolved the handle, entries by handle and by id become one whatever
\* their order ("leverages resolved cache", _merge_targets).
ASSUME CacheCollapses ==
    LET known == [q \in {Handle("x")} |-> Entry(Title("x"), Blank, Blank, Id("x"), Page("curl", "x"))]
        twins == {TargetOf(Page("hurl", "x")), TargetOf(Page("curl", "x")), Titled(TargetOf(Page("curl", "x")), "x")}
    IN \A l \in [1 .. 3 -> twins] : Len(MergeTargets(<<>>, l, known).list) = 1

\* Two channels whose display names agree become one entry, though their ids differ: the
\* name is an alias like any other (the comment in _merge_targets calls it a last resort).
ASSUME SameNameCollapses ==
    LET x == Titled(TargetOf(Page("curl", "x")), "n")
        y == Titled(TargetOf(Page("curl", "y")), "n")
    IN Healed(<<x, y>>) = <<x>>

\* Each channel a text names becomes one target however often and in whatever spelling it
\* is named, and a video becomes none ...
Ingested(text) ==
    LET toks == SelectSeq(Tokens(text, {"x", "y"}), IsTarget)
    IN Healed([i \in DOMAIN toks |-> TargetOf(toks[i])])

ASSUME OneTargetEach ==
    LET pieces == {Page("hurl", "x"), Text("hurl", "x", "tail"), Text("handle", "x", "cap"), Text("handle", "x", "wide"),
                   Page("watch", "v"), Page("short", "v"), Text("curl", "z", "tail")}
    IN \A l \in UNION {[1 .. n -> pieces] : n \in 0 .. 3} :
          /\ Distinct(Ingested(l)) /\ Len(Ingested(l)) = Cardinality(ChannelsOf(Ingested(l)))
          /\ ChannelsOf(Ingested(l)) = {l[i].id : i \in DOMAIN l} \ {"v"}

\* ... but a full stop behind the URL of a handle makes a second target of it.
ASSUME FullStopSplits == Len(Ingested(<<Text("hurl", "x", "dot")>>)) = 2

\* No display name is a handle or an id, whatever is looked up, and a query that tells
\* the channel is never given up for a name.
ASSUME NamesAreProper ==
    \A e \in mcEntries : \A o, p \in {Blank, Title("t"), Handle("x"), Id("x")} :
        LET named == Named(e, o, p)
        IN /\ Said(named.name) => Proper(named.name)
           /\ Said(e.handle) \/ Said(e.channel_id) => named.query.kind # "title"

\* Every entry is on a page that can be turned to, whatever page an older and longer list
\* had led to.
ASSUME PagerReachesAll ==
    \A n \in {0, 1, 60, 61, 120, 121}, page \in 1 .. 4 :
        /\ Turn(page, 1, n) \in 1 .. Pages(n) /\ Turn(page, -1, n) \in 1 .. Pages(n)
        /\ \A i \in 1 .. n : \E p \in 1 .. Pages(n) : i \in OnPage(p, n)
        /\ \A p \in 1 .. Pages(n) : \A step \in Buttons(p, n) : Turn(p, step, n) = p + step
        /\ HasPager(n) <=> \E p \in 1 .. Pages(n) : Buttons(p, n) # {}
=============================================================================
