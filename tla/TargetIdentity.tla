--------------------------- MODULE TargetIdentity ---------------------------
(***************************************************************************)
(* What makes two entries of the YouTube watchlist one target: the tokens  *)
(* of a moderator's message, the entries they become, and _merge_targets,  *)
(* which folds lists of entries by aliases (channel id, handle, URL, query *)
(* and display name).  nixe/cogs/a21_youtube_wuwa_live_announce.py; the    *)
(* module Watchlist takes its result for granted and merges sets.          *)
(*                                                                         *)
(* Every field holds a text: what it says (kind, id) and how it is spelled *)
(* (form).  MCWatchlist states what comes of it for all short lists.       *)
(***************************************************************************)
EXTENDS Integers, Sequences, FiniteSets
LOCAL INSTANCE SequencesExt
LOCAL INSTANCE TLC

Url == {"hurl", "curl", "nurl"}      \* .../@handle, .../channel/UC..., .../c/name
\* bare: a handle without its at sign; watch, short: a video's URLs.
TextKind == Url \union {"none", "handle", "bare", "uc", "title", "watch", "short"}

\* cap: in other letters; tail: with a sub-page or query; wide, double: written with
\* another at sign or two of them; dot: with the full stop of its sentence.
Form == {"plain", "cap", "tail", "wide", "double", "dot"}

Text(kind, id, form) == [kind |-> kind, id |-> id, form |-> form]
Blank == Text("none", "", "plain")
Said(t) == t.kind # "none"
Plain(t) == [t EXCEPT !.form = "plain"]

Field == {"name", "query", "handle", "channel_id", "url"}
Entry(name, query, handle, cid, url) ==
    [name |-> name, query |-> query, handle |-> handle, channel_id |-> cid, url |-> url]

\* The URL of a channel's page without sub-page, query or fragment.
Canonical(t) == IF t.kind \in Url /\ t.form = "tail" THEN Plain(t) ELSE t

-----------------------------------------------------------------------------
\* _extract_watchlist_tokens: the URLs of the text, then its video links, then all that
\* looks like a handle, in URLs too.  Only a URL loses the full stop behind it, and
\* letters outside ASCII are no part of a bare handle.
Bare(t) == Text("handle", t.id, IF t.form \in {"dot", "cap"} THEN t.form ELSE "plain")

Unique(s) == FoldLeft(LAMBDA out, t : IF \E i \in DOMAIN out : out[i] = t
                                      THEN out ELSE Append(out, t), <<>>, s)

Tokens(text, ascii) ==
    LET Is(kinds) == SelectSeq(text, LAMBDA t : t.kind \in kinds)
        Urls == Is(Url \union {"watch"})
        Stripped == [i \in DOMAIN Urls |-> IF Urls[i].form = "dot" THEN Plain(Urls[i]) ELSE Urls[i]]
        Marked == SelectSeq(text, LAMBDA t : t.kind \in {"handle", "hurl"} /\ t.id \in ascii)
    IN Unique(Stripped \o Is({"short"}) \o [i \in DOMAIN Marked |-> Bare(Marked[i])])

\* _token_to_target: a video link is no target; the name is looked up later.
IsTarget(t) == t.kind \in Url \union {"handle"}

TargetOf(t) ==
    CASE t.kind \in {"handle", "hurl"} ->
            LET h == Text("handle", t.id, IF t.kind = "hurl" THEN Canonical(t).form ELSE t.form)
            IN Entry(Blank, h, h, Blank, Text("hurl", t.id, h.form))
      [] t.kind = "curl" ->
            Entry(Blank, Text("uc", t.id, "plain"), Blank, Text("uc", t.id, "plain"),
                  Text("curl", t.id, "plain"))
      [] t.kind = "nurl" -> Entry(Blank, Canonical(t), Blank, Blank, Canonical(t))

-----------------------------------------------------------------------------
\* Keys.  norm_handle folds case and drops one at sign, but no full stop.
HandleKey(t) == <<"h", t.id, IF t.form \in {"double", "dot"} THEN t.form ELSE "">>
UrlKey(t) == <<"u", t.id, IF t.form = "dot" THEN "dot" ELSE t.kind>>
IdKey(t) == <<"cid", t.id, "">>
NameKey(t) == <<"n", t.id, IF t.kind = "handle" THEN "bare" ELSE t.kind>>

\* _target_dedupe_key: the strongest thing the entry says.
DedupeKey(d) ==
    CASE Said(d.channel_id) -> IdKey(d.channel_id)
      [] ~Said(d.channel_id) /\ Said(d.handle) -> HandleKey(d.handle)
      [] ~Said(d.channel_id) /\ ~Said(d.handle) /\ Said(d.url) -> UrlKey(Canonical(d.url))
      [] OTHER -> NameKey(d.name)

\* What the query says besides.
QueryKey(q) ==
    CASE q.kind = "handle" -> <<HandleKey(q)>>
      [] q.kind = "uc" -> <<IdKey(q)>>
      [] q.kind \in Url -> <<UrlKey(Canonical(q))>>
      [] OTHER -> <<>>

\* Every alias of an entry, in the order in which they are looked up.
Aliases(d) ==
    LET If(t, key) == IF Said(t) THEN <<key>> ELSE <<>>
    IN Unique(<<DedupeKey(d)>> \o If(d.channel_id, IdKey(d.channel_id))
              \o If(d.handle, HandleKey(d.handle)) \o If(d.url, UrlKey(Canonical(d.url)))
              \o QueryKey(d.query) \o If(d.name, NameKey(d.name)))

KeySet(d) == {Aliases(d)[i] : i \in DOMAIN Aliases(d)}  \* the set of them

-----------------------------------------------------------------------------
\* is_better_name, and the same test in apply_resolved_cache.
Placeholder(name) == name.kind \in {"none", "handle", "uc"} \union Url
BetterName(cur, new) == Said(new) /\ Placeholder(cur)

\* apply_resolved_cache: what earlier checks found out about the query of the entry,
\* then what the query says itself.  The cache maps queries to entries.
Learn(d, cache) ==
    LET r == IF d.query \in DOMAIN cache THEN cache[d.query] ELSE Entry(Blank, Blank, Blank, Blank, Blank)
    IN [d EXCEPT !.channel_id = IF Said(@) THEN @ ELSE r.channel_id,
                 !.url = IF Said(@) THEN @ ELSE r.url,
                 !.name = IF BetterName(@, r.name) THEN r.name ELSE @]

Derive(d) ==
    LET q == d.query
    IN [d EXCEPT !.handle = IF ~Said(@) /\ q.kind = "handle"
                            THEN (IF q.form = "wide" THEN Plain(q) ELSE q) ELSE @,
                 !.channel_id = IF ~Said(@) /\ q.kind = "uc" THEN q ELSE @,
                 !.url = IF ~Said(@) /\ q.kind \in Url THEN Canonical(q) ELSE @]

\* canonicalize_inplace.
Tidy(d) ==
    [d EXCEPT !.url = Canonical(@), !.handle = IF @.form \in {"wide", "double"} THEN Plain(@) ELSE @]

Settle(d, cache) == Tidy(Derive(Learn(d, cache)))

\* merge_into: fill what the kept entry lacks.
Fill(base, d) ==
    [f \in Field |-> IF f = "name" THEN (IF BetterName(base.name, d.name) THEN d.name ELSE base.name)
                     ELSE IF Said(base[f]) THEN base[f] ELSE d[f]]

\* bind_keys: every alias leads to this entry from now on.
Bind(index, d, at) == [k \in KeySet(d) |-> at] @@ index

\* add_one, on the list merged so far, the index by alias and the entries that were added.
Add(st, raw, isNew, cache) ==
    LET new == Settle(raw, cache)
        hits == SelectSeq(Aliases(new), LAMBDA k : k \in DOMAIN st.index)
        at == IF hits = <<>> THEN Len(st.list) + 1 ELSE st.index[hits[1]]
        kept == IF hits = <<>> THEN new ELSE Settle(Fill(st.list[at], new), cache)
    IN [list |-> IF hits = <<>> THEN Append(st.list, new) ELSE [st.list EXCEPT ![at] = kept],
        index |-> Bind(st.index, kept, at),
        added |-> IF hits = <<>> /\ isNew THEN Append(st.added, at) ELSE st.added]

\* _merge_targets: the existing entries among themselves, then the new ones.
MergeTargets(existing, new, cache) ==
    LET none == [list |-> <<>>, index |-> <<>>, added |-> <<>>]
        healed == FoldLeft(LAMBDA st, d : Add(st, d, FALSE, cache), none, existing)
    IN FoldLeft(LAMBDA st, d : Add(st, d, TRUE, cache), healed, new)

-----------------------------------------------------------------------------
\* _targets_semantic_repr: what _targets_changed compares, the order left out.
Repr(list) ==
    LET Shown(d) == [Tidy(d) EXCEPT !.url = Canonical(@)]
    IN {<<Shown(list[i]), Cardinality({j \in DOMAIN list : Shown(list[j]) = Shown(list[i])})>> :
           i \in DOMAIN list}

Changed(old, new) == Repr(old) # Repr(new)

\* _reload_watchlist: the entries as targets; a name that is a handle loses its at sign.
Runtime(list) ==
    LET Of(d) == [d EXCEPT !.query = CASE Said(@) -> @
                                       [] ~Said(@) /\ Said(d.handle) -> d.handle
                                       [] ~Said(@) /\ ~Said(d.handle) /\ Said(d.channel_id) -> d.channel_id
                                       [] OTHER -> d.name]
        Unmarked(t) == IF t.kind = "handle" /\ t.form \in {"plain", "cap", "dot"}
                       THEN [t EXCEPT !.kind = "bare"] ELSE t
        Usable(d) == \E f \in Field \ {"query"} : Said(d[f])
        merged == MergeTargets(<<>>, list, <<>>).list
        kept == SelectSeq([i \in DOMAIN merged |-> [merged[i] EXCEPT !.name = Unmarked(@)]], Usable)
    IN [i \in DOMAIN kept |-> Of(kept[i])]

\* Target.key, by which announcements are remembered, and Target.base_url.
TargetKey(d) ==
    CASE Said(d.channel_id) -> d.channel_id
      [] ~Said(d.channel_id) /\ Said(d.url) -> d.url
      [] ~Said(d.channel_id) /\ ~Said(d.url) /\ Said(d.handle) -> d.handle
      [] OTHER -> d.query

BaseUrl(d) ==
    CASE Said(d.url) -> d.url
      [] ~Said(d.url) /\ Said(d.handle) -> Text("hurl", d.handle.id, d.handle.form)
      [] ~Said(d.url) /\ ~Said(d.handle) /\ Said(d.channel_id) -> Text("curl", d.channel_id.id, "plain")
      [] OTHER -> Blank

-----------------------------------------------------------------------------
\* The names an ingest looks up.  oEmbed, and the title of the channel's page: neither
\* answer may be a handle or an id.
Proper(name) == Said(name) /\ name.kind \notin {"handle", "uc"}
OEmbed(answer) == IF Proper(answer) THEN answer ELSE Blank
PageName(answer) == IF Proper(answer) THEN answer ELSE Blank

NeedsName(d) ==
    /\ \/ ~Said(d.name) \/ d.name.kind \in Url
       \/ d.name.kind = "handle" /\ d.name.id = d.handle.id
       \/ d.name.kind = "uc" /\ d.name = d.channel_id
    /\ Said(BaseUrl(d))

\* With its name the entry may get another query: its handle, else its id, else the name.
Named(d, oembed, page) ==
    LET nm == IF Said(OEmbed(oembed)) THEN OEmbed(oembed) ELSE PageName(page)
        better == CASE Said(d.handle) -> d.handle
                    [] ~Said(d.handle) /\ Said(d.channel_id) -> d.channel_id
                    [] OTHER -> nm
    IN IF ~NeedsName(d) \/ ~Said(nm) THEN d
       ELSE [d EXCEPT !.name = nm,
                      !.query = IF ~Said(@) \/ @.kind \in Url \union {"uc"} \/ @ = nm THEN better ELSE @]

-----------------------------------------------------------------------------
\* The pager of the store message, 60 entries on a page: the list may have changed since
\* the page in the footer was shown.
PageSize == 60
Pages(n) == IF n = 0 THEN 1 ELSE (n + PageSize - 1) \div PageSize
Clamp(page, n) == IF page < 1 THEN 1 ELSE IF page > Pages(n) THEN Pages(n) ELSE page
OnPage(page, n) == {i \in 1 .. n : (Clamp(page, n) - 1) * PageSize < i /\ i <= Clamp(page, n) * PageSize}
Turn(page, delta, n) == Clamp(page + delta, n)
HasPager(n) == Pages(n) > 1
Buttons(page, n) == (IF page <= 1 THEN {} ELSE {-1}) \union (IF page >= Pages(n) THEN {} ELSE {1})
=============================================================================
