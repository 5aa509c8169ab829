--------------------------- MODULE MCLiveAnnounce ---------------------------
EXTENDS LiveAnnounce, LiveCheck
LOCAL INSTANCE TLC

CONSTANTS k1, k2, v1, v2

\* Two targets of one channel and its stream v1, and a later stream v2 of k2.
MCFeed == {<<k1, v1>>, <<k2, v1>>, <<k2, v2>>}

-----------------------------------------------------------------------------
\* What LiveCheck says of small inputs; TLC evaluates it before it starts.

Handle == Text("handle", "x", "plain")
Id == Text("uc", "x", "plain")
Title == Text("title", "x", "plain")
Owner == Text("title", "o", "plain")

\* Targets as _reload_watchlist makes them: by handle, by id, by .../c/name, by a mere
\* query, and by a handle that an entry had for its name.
mcTargets ==
    LET byHandle == TargetOf(Handle)
        list == <<byHandle, [TargetOf(Text("curl", "x", "plain")) EXCEPT !.name = Title], TargetOf(Text("nurl", "x", "plain")),
                  Entry(Title, Blank, Blank, Blank, Blank)>>
    IN {Runtime(<<list[i]>>)[1] : i \in DOMAIN list} \union {Runtime(<<[byHandle EXCEPT !.name = Handle]>>)[1]}

mcPlayers ==
    {NoPlayer} \union {Player(vid, title, now, clock, hls, owner) :
        vid \in {"", "v"}, title \in {"none", "other", "match"}, now \in {"yes", "no", "absent"},
        clock \in {"between", "ended"}, hls \in BOOLEAN, owner \in {Blank, Handle, Id, Owner}}
mcPages == {Lost} \union {Fetched(p, id) : p \in mcPlayers, id \in {"", "v"}}

\* A live stream with a fitting title: on the live page, or on the watch page only.
Streaming(owner) == Fetched(Player("v", "match", "yes", "between", FALSE, owner), "v")
NoName == [oembed |-> Blank, video |-> Blank, page |-> Blank]
OnLive(owner) == [live |-> Streaming(owner), watch |-> Lost] @@ NoName
OnWatch(owner) == [live |-> Fetched(NoPlayer, "v"), watch |-> Streaming(owner)] @@ NoName

mcHits == {<<>>, <<[score |-> 0, name |-> Owner, channel_id |-> Text("uc", "o", "plain")],
                   [score |-> 7, name |-> Title, channel_id |-> Id],
                   [score |-> 7, name |-> Owner, channel_id |-> Text("uc", "o", "plain")]>>}
Check(t, cache0, names, net) == CheckLive(t, cache0, names, net, <<>>)

\* A report is of a live stream with a fitting title that a page showed, and of nothing
\* that is over or scheduled unless a manifest is there ("avoid scheduled streams and VOD
\* spam", _yt_live_info).
ASSUME OnlyLiveIsReported ==
    \A t \in mcTargets : \A page \in mcPages : \A direct \in BOOLEAN :
        LET net == (IF direct THEN [live |-> page, watch |-> Lost]
                    ELSE [live |-> Fetched(NoPlayer, "v"), watch |-> page]) @@ NoName
            r == Check(t, <<>>, <<>>, net)
            p == page.player
        IN r.live => /\ page.ok /\ r.vid = "v" /\ p.title = "match"
                     /\ p.now = "yes" \/ p.hls \/ (p.now = "absent" /\ p.clock = "between")

\* A name that the player gives is the one announced; no handle with its at sign and no
\* id ever is ("never allow UC ids / handles", _check_live).
ASSUME CreatorIsNoHandle ==
    \A t \in mcTargets, owner \in {Blank, Handle, Id, Owner}, hits \in mcHits :
        \A net \in {OnLive(owner), OnWatch(owner)} :
            LET r == CheckLive(t, <<>>, <<>>, net, hits)
            IN /\ r.creator.kind \notin {"handle", "uc"}
               /\ r.live /\ owner = Owner => r.creator = Owner

\* A handle that was stored as a name loses its at sign when the list is loaded and passes
\* for a display name, and a .../c/ target without one is announced under its URL.
ASSUME StandInsPass ==
    {Check(t, <<>>, <<>>, OnLive(Blank)).creator.kind : t \in mcTargets} = {"none", "bare", "title", "nurl"}

\* What the direct path learned serves a later check that is told no name ("cache resolved
\* name for stability across restarts") ...
Later(t, r) == Check(t, r.cache, r.names, OnLive(Blank)).creator
ASSUME DirectIsRemembered ==
    \A t \in mcTargets : LET r == Check(t, <<>>, <<>>, OnLive(Owner))
                         IN r.live /\ ~Said(t.name) => Later(t, r) = Owner

\* ... what the fall-back learned does not: it stores a bare name where the readers expect
\* an entry, and overwrites the entry of an earlier search with it.
ASSUME FallbackIsForgotten ==
    /\ \E t \in mcTargets : LET r == Check(t, <<>>, <<>>, OnWatch(Owner))
                            IN r.live /\ r.creator = Owner /\ Later(t, r) # Owner
    /\ \E t \in mcTargets, hits \in mcHits :
          LET searched == CheckLive(t, <<>>, <<>>, [OnLive(Blank) EXCEPT !.live = Lost], hits)
              again == CheckLive(t, searched.cache, <<>>, OnWatch(Owner), <<>>)
              third == CheckLive(t, again.cache, <<>>, OnLive(Owner), <<>>)
          IN Said(searched.t.channel_id) /\ again.live /\ ~third.live

\* Of a search the first of the best hits is taken, and it is looked up, not searched for,
\* the next time.
ASSUME SearchedOnce ==
    \A hits \in mcHits :
        LET t == [Entry(Title, Title, Blank, Blank, Blank) EXCEPT !.name = Blank]
            r == Resolve(t, <<>>, hits)
        IN hits # <<>> => r.t.channel_id = Id /\ Resolve(t, r.cache, <<>>).t = r.t

\* The video is remembered under every name the target has after the check, so that a
\* later check that resolved less or more finds it.
ASSUME KeysOverlap ==
    \A t \in mcTargets : \A first, second \in {OnLive(Blank), OnLive(Owner), OnWatch(Owner)} :
        LET r == Check(t, <<>>, <<>>, first)
            s == Check(t, r.cache, r.names, second)
        IN r.live /\ s.live => AnnounceKeys(r.t) \intersect AnnounceKeys(s.t) # {}
=============================================================================
