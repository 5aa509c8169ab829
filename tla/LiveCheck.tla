----------------------------- MODULE LiveCheck -----------------------------
(***************************************************************************)
(* _check_live of nixe/cogs/a21_youtube_wuwa_live_announce.py for one      *)
(* target: what the pages of YouTube say of a live stream, and under which *)
(* name it is announced.  LiveAnnounce takes the report for granted.       *)
(*                                                                         *)
(* A target is an entry of TargetIdentity.  The pages are the argument     *)
(* net: live and watch, the names that oEmbed gives for the channel and    *)
(* for the video, and the title of the channel's page.  cache is           *)
(* state["resolved"], by the text it is looked up with.                    *)
(***************************************************************************)
EXTENDS TargetIdentity
LOCAL INSTANCE SequencesExt
LOCAL INSTANCE TLC

\* A page that could be fetched has a player or only the id of some video, or neither.
\* title: none, other or match; now: isLiveNow; clock: where now lies between the two
\* timestamps; hls: a manifest; owner: the channel's name.
Player(vid, title, now, clock, hls, owner) ==
    [there |-> TRUE, vid |-> vid, title |-> title, now |-> now, clock |-> clock, hls |-> hls, owner |-> owner]
NoPlayer == [Player("", "none", "no", "unknown", FALSE, Blank) EXCEPT !.there = FALSE]
Fetched(player, vid) == [ok |-> TRUE, player |-> player, vid |-> vid]
Lost == [ok |-> FALSE, player |-> NoPlayer, vid |-> ""]

\* What the cache keeps of a channel.  The fall-back path stores the bare name.
Dict(name, cid, url) == [shape |-> "dict", name |-> name, channel_id |-> cid, url |-> url]
Name(name) == [shape |-> "name", name |-> name, channel_id |-> Blank, url |-> Blank]

-----------------------------------------------------------------------------
\* _yt_live_info: isLiveNow decides if it is there, else the timestamps; a manifest
\* makes any of them live.
LiveNow(player) ==
    \/ player.now = "yes"
    \/ player.now = "absent" /\ player.clock = "between"
    \/ player.hls

\* What the check goes on with: a video with a title that is live.
Streams(player) == player.vid # "" /\ player.title # "none" /\ LiveNow(player)

\* _pick_best_channel: the first hit of the highest score.
BestHit(hits) ==
    IF hits = <<>> THEN <<>>
    ELSE <<hits[CHOOSE i \in DOMAIN hits :
                  \A j \in DOMAIN hits : IF j < i THEN hits[j].score < hits[i].score
                                         ELSE hits[j].score <= hits[i].score]>>

Put(cache, keys, value) == [k \in {keys[i] : i \in {j \in DOMAIN keys : Said(keys[j])}} |-> value] @@ cache
PutNew(cache, keys, value) == cache @@ Put(<<>>, keys, value)

\* The first of the keys that the cache knows.
Looked(cache, keys) ==
    LET i == SelectInSeq(keys, LAMBDA k : k \in DOMAIN cache)
    IN IF i = 0 THEN Name(Blank) ELSE cache[keys[i]]

\* _resolve_channel: an entry with only a query is looked up, then searched for.
Resolve(t, cache, hits) ==
    LET known == Looked(cache, <<t.handle, t.query, t.name>>)
        best == BestHit(hits)
        cached == [t EXCEPT !.channel_id = known.channel_id, !.url = known.url,
                            !.name = IF Said(known.name) THEN known.name ELSE @]
        found == [t EXCEPT !.channel_id = best[1].channel_id, !.name = best[1].name,
                           !.url = Text("curl", best[1].channel_id.id, "plain")]
        same == [t |-> t, cache |-> cache]
    IN IF Said(t.channel_id) \/ Said(t.url) THEN same
       ELSE IF known.shape = "dict" /\ (Said(known.channel_id) \/ Said(known.url))
            THEN [same EXCEPT !.t = cached]
       ELSE IF best = <<>> THEN same
       ELSE [t |-> found,
             cache |-> Put(cache, <<t.query>>, Dict(found.name, found.channel_id, found.url))]

-----------------------------------------------------------------------------
Where(t) == IF Said(t.url) THEN t.url ELSE BaseUrl(t)

\* A name that is a handle is replaced before the pages are read.
NameFirst(s, net) ==
    LET t == s.t
        known == Looked(s.cache, <<t.handle, t.query, t.name>>)
        nm == IF known.shape = "dict" /\ Said(known.name) THEN known.name ELSE OEmbed(net.oembed)
        entry == Dict(nm, t.channel_id, Where(t))
    IN IF t.name.kind # "handle" \/ ~Said(nm) THEN s
       ELSE [t |-> [t EXCEPT !.name = nm],
             cache |-> PutNew(Put(s.cache, <<t.handle>>, entry), <<t.query>>, entry)]

\* The player: of the live page, or of the watch page of a video that the live page names.
Direct(net) == net.live.ok /\ net.live.player.there
Indirect(net) ==
    /\ net.live.ok /\ ~net.live.player.there /\ net.live.vid # ""
    /\ net.watch.ok /\ net.watch.player.there
PlayerOf(net) ==
    CASE Direct(net) -> net.live.player
      [] Indirect(net) -> net.watch.player
      [] OTHER -> NoPlayer

\* It names the channel; the direct path notes that where nothing is known, the fall-back
\* writes the bare name over what is known, and only once the stream is live.
NameByPlayer(s, net) ==
    LET owner == PlayerOf(net).owner
        t == [s.t EXCEPT !.name = owner]
        keys == <<t.channel_id, Where(t), t.handle, t.query, t.name>>
    IN CASE Proper(owner) /\ Direct(net) ->
              [t |-> t, cache |-> PutNew(s.cache, keys, Dict(owner, t.channel_id, Where(t)))]
         [] Proper(owner) /\ Indirect(net) /\ Streams(PlayerOf(net)) ->
              [t |-> t, cache |-> Put(s.cache, keys, Name(owner))]
         [] OTHER -> s

\* A name that is none is looked up in the cache, for the video and on the channel's page.
Nameless(name) == name.kind \in {"none", "handle", "uc"}

NameLast(s, net) ==
    LET t == s.t
        keys == <<t.channel_id, Where(t), t.handle, t.query, t.name>>
        i == SelectInSeq(keys, LAMBDA k : /\ Said(k) /\ k \in DOMAIN s.cache
                                    /\ s.cache[k].shape = "dict" /\ Proper(s.cache[k].name))
        nm == CASE i # 0 -> s.cache[keys[i]].name
                [] i = 0 /\ Said(OEmbed(net.video)) -> OEmbed(net.video)
                [] OTHER -> PageName(net.page)
    IN IF ~Nameless(t.name) \/ ~Said(nm) THEN s
       ELSE [t |-> [t EXCEPT !.name = nm],
             cache |-> Put(s.cache, <<t.channel_id, Where(t), t.handle, t.query>>,
                           Dict(nm, t.channel_id, Where(t)))]

\* The display name, or one remembered for the channel id ...
BestName(t, names) ==
    IF t.name.kind \in {"handle", "uc"} /\ t.channel_id \in DOMAIN names THEN names[t.channel_id] ELSE t.name
Remember(t, names) ==
    IF Said(t.channel_id) /\ Proper(BestName(t, names))
    THEN [k \in {t.channel_id} |-> BestName(t, names)] @@ names ELSE names

\* ... or in the end the name or the query of the target, if that is neither handle nor id.
Creator(t, names) ==
    LET last == IF Said(t.name) THEN t.name ELSE t.query
    IN CASE Proper(BestName(t, names)) -> BestName(t, names)
         [] ~Proper(BestName(t, names)) /\ Proper(last) -> last
         [] OTHER -> Blank

\* _check_live: what it reports, and the target, cache and names it leaves behind.
NotLive(s, names) == [live |-> FALSE, vid |-> "", creator |-> Blank, t |-> s.t, cache |-> s.cache, names |-> names]

CheckLive(target, cache, names, net, hits) ==
    LET s0 == Resolve(target, cache, hits)
        s2 == NameByPlayer(NameFirst(s0, net), net)
        s3 == NameLast(s2, net)
        player == PlayerOf(net)
    IN CASE ~Said(BaseUrl(s0.t)) -> NotLive(s0, names)
         [] Said(BaseUrl(s0.t)) /\ ~Streams(player) -> NotLive(s2, names)
         [] Said(BaseUrl(s0.t)) /\ Streams(player) /\ player.title = "other" -> NotLive(s3, names)
         [] OTHER -> [live |-> TRUE, vid |-> player.vid, creator |-> Creator(s3.t, names),
                      t |-> s3.t, cache |-> s3.cache, names |-> Remember(s3.t, names)]

\* The keys under which _maybe_announce_live_result remembers the video.
AnnounceKeys(t) == {k \in {t.channel_id, BaseUrl(t), t.url, t.handle, t.query, t.name} : Said(k)}
=============================================================================
