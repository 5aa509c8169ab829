------------------------------ MODULE MCGuards ------------------------------
EXTENDS Guards, MessageSignals, Sequences
LOCAL INSTANCE FiniteSetsExt

\* 1, 2: mass mentions in two channels; 3: three images; 10: a burst of them; 4: a bad archive;
\* 5: one WEBP; 6: bait after 7's chat; 8: an NSFW invite; 9, 11: WEBPs with a mention;
\* 12: an invite; 13: a listed link to everyone; 14: one to nobody; 15: a listed picture
mcAuthor == <<"ann", "ann", "bob", "bob", "ann", "bob", "bob", "ann", "bob", "ann", "bob", "ann", "ann", "ann", "ann">>
mcChannel == <<1, 2, 1, 1, 1, 1, 1, 2, 2, 1, 1, 1, 2, 1, 1>>
mcTraits ==
    <<{"mass"}, {"mass", "many", "file"}, {"file"},
      {"file", "sus", "archive", "bait", "scam"}, {"webp", "file"}, {"bait", "scam"}, {},
      {"nsfw"}, {"mass", "torn", "webp", "file"}, {"many", "file"}, {"webp", "mass", "black", "file"},
      {"invite", "url", "black", "file"}, {"mass", "url", "domain"},
      {"url", "domain"}, {"file", "black"}>>
mcScope == [g \in {"firewall", "spam", "attach", "harden", "casino", "groq", "regroq"} |->
              CASE g = "firewall" -> {1, 2} \union 8 .. 15
                [] g = "spam" -> {1, 2, 9, 13}
                [] g = "attach" -> {2, 4, 10}
                [] g = "harden" -> {4, 10}
                [] g = "casino" -> {4, 6, 7}
                [] g = "groq" -> {3, 5}
                [] g = "regroq" -> {3}]
mcHolds == [m \in 1 .. 15 |-> CASE m = 3 -> {"jpg", "png", "webp"} [] m = 5 -> {"webp"} [] OTHER -> {}]
mcBatches == {{1, 2}, {3, 5}, {6, 7}, {8, 1}, {9, 11}, {4, 6}, {8, 10}, {12, 13}, {10, 13}, {13, 14, 15}}

-----------------------------------------------------------------------------
\* Facts about MessageSignals over small messages.
mcPlain == [stem |-> "image", mark |-> "none", ext |-> "jpg", lure |-> FALSE, bytes |-> "jpg",
            type |-> "image", url |-> 1, size |-> 20000, wordy |-> FALSE, w |-> 600, h |-> 600, hash |-> 0]
mcMessage == [mention |-> "none", words |-> FALSE, text |-> 0, links |-> <<>>, embeds |-> <<>>,
              files |-> <<>>, casino |-> [domain |-> FALSE, hits |-> 0, combo |-> FALSE]]
mcLink == [host |-> "other", picture |-> FALSE, invite |-> "none", blocked |-> FALSE]
mcEmbed == [url |-> "plain", image |-> "none", thumb |-> "none", nsfw |-> FALSE]
mcWebp == [mcPlain EXCEPT !.ext = "webp", !.bytes = "webp", !.type = "webp"]
mcZip == [mcPlain EXCEPT !.ext = "zip", !.bytes = "binary", !.type = "other", !.size = 100]
mcBait == [domain |-> FALSE, hits |-> 2, combo |-> TRUE]
Files(f, n) == [i \in 1 .. n |-> [f EXCEPT !.url = i]]

\* Each message of the run is one that can be written: its traits are what the guards find.
mcWritten ==
    <<[mcMessage EXCEPT !.mention = "flag"],
      [mcMessage EXCEPT !.mention = "here", !.files = Files(mcPlain, 4)],
      [mcMessage EXCEPT !.files = Files(mcPlain, 2) \o <<[mcWebp EXCEPT !.url = 3]>>],
      [mcMessage EXCEPT !.files = <<mcZip>>, !.words = TRUE, !.casino = mcBait],
      [mcMessage EXCEPT !.files = <<mcWebp>>],
      [mcMessage EXCEPT !.casino = mcBait],
      mcMessage,
      [mcMessage EXCEPT !.embeds = <<[mcEmbed EXCEPT !.nsfw = TRUE]>>],
      [mcMessage EXCEPT !.mention = "everyone", !.files = <<[mcWebp EXCEPT !.bytes = "jpg"]>>],
      [mcMessage EXCEPT !.files = Files(mcPlain, 4)],
      [mcMessage EXCEPT !.mention = "flag", !.files = <<[mcWebp EXCEPT !.hash = 9]>>],
      [mcMessage EXCEPT !.links = <<[mcLink EXCEPT !.invite = "listed"]>>,
                        !.files = <<[mcPlain EXCEPT !.hash = 9]>>],
      [mcMessage EXCEPT !.mention = "flag", !.links = <<[mcLink EXCEPT !.blocked = TRUE]>>],
      [mcMessage EXCEPT !.links = <<[mcLink EXCEPT !.blocked = TRUE]>>],
      [mcMessage EXCEPT !.files = <<[mcPlain EXCEPT !.hash = 9]>>]>>
ASSUME TraitsAreReal == \A m \in DOMAIN mcWritten : TraitsOf(mcWritten[m], {9}) = mcTraits[m]

\* Files of all kinds and messages with one or two of them.
mcFiles == {[mcPlain EXCEPT !.ext = e, !.bytes = b, !.size = n, !.lure = l] :
               e \in {"png", "jpg", "webp", "zip", "exe", "txt"}, b \in {"png", "webp", "zip", "binary"},
               n \in {100, 20000}, l \in BOOLEAN}
mcSmall == {[mcMessage EXCEPT !.files = fs, !.words = w, !.embeds = es] :
               fs \in {<<f>> : f \in mcFiles} \union {<<f, f>> : f \in mcFiles},
               w \in BOOLEAN, es \in {<<>>, <<[mcEmbed EXCEPT !.url = "lookalike"]>>}}

\* The scores name what they should: a file that is what its name says, is no program and
\* is not tiny scores 0; an image of unknown bytes and a program are deleted for their
\* own sake; but so is one preview of a Steam page, and so are three files of 200 bytes.
ASSUME ScoresTell ==
    /\ \A f \in mcFiles :
          /\ f.ext = f.bytes /\ f.size > 200 /\ ~f.lure => Score(f) = 0
          /\ f.ext \in ImageExt /\ f.bytes = "binary" => Score(f) >= 3
          /\ f.ext = "exe" \/ f.lure => Score(f) >= 3
    /\ ContentScore([mcMessage EXCEPT !.embeds = <<[mcEmbed EXCEPT !.url = "steam", !.thumb = "steam"]>>]) = 4
    /\ FileScore([mcMessage EXCEPT !.files = Files([mcPlain EXCEPT !.ext = "txt", !.size = 100], 3)]) = 3

\* With no model asked the Lucky Pull gate changes nothing: it is asked about messages only
\* that would stay anyway.  With one it spares what Groq would convict.
mcYes == <<"none", "phish">>
ASSUME GateIsIdle ==
    /\ \A m \in mcSmall : AttachVerdict(m, FALSE, TRUE, mcYes) = AttachVerdict(m, FALSE, FALSE, mcYes)
    /\ \E m \in mcSmall : AttachVerdict(m, TRUE, TRUE, mcYes) = {} /\ AttachVerdict(m, TRUE, FALSE, mcYes) # {}

\* Of the two guards of attachments the hardener misses what the rule for archives adds,
\* and nothing else; an archive is never deleted without a ban.
ASSUME GuardsAgree ==
    \A m \in mcSmall :
        LET v == AttachVerdict(m, FALSE, FALSE, <<>>)
        IN /\ HardenVerdict(m, <<>>) => "delete" \in v
           /\ "delete" \in v /\ ~HardenVerdict(m, <<>>) => HasArchive(m) /\ ContentScore(m) > 0
           /\ HasArchive(m) => v \in {{}, {"delete", "ban"}}

\* The hardener's two answers: the order matters, for a harmless image may hide a hit that
\* is as sure as it must be; no answer hides nothing.
mcAnswers == [ok : BOOLEAN, phish : BOOLEAN, conf : {0, 89, 90, 95}]
ASSUME OrderMatters ==
    LET sure(as) == Confirm(as).phish /\ Confirm(as).conf >= 90
        hit(a) == a.ok /\ a.phish /\ a.conf >= 90
    IN /\ \A a, b \in mcAnswers : sure(<<a, b>>) => hit(a) \/ hit(b)
       /\ \A a, b \in mcAnswers : hit(a) => sure(<<a, b>>)
       /\ \A a, b \in mcAnswers : (hit(b) /\ ~sure(<<a, b>>)) => a.ok /\ ~a.phish /\ a.conf > b.conf
       /\ \E a, b \in mcAnswers : hit(b) /\ ~sure(<<a, b>>)

\* The disguise is worded for a subset of what the firewall bans: four images and a mention.
ASSUME DisguiseIsABlast ==
    \A n \in 3 .. 5 : \A t \in {"image", "webp"} : \A who \in {"none", "flag", "everyone", "here"} :
        LET m == [mcMessage EXCEPT !.mention = who, !.files = Files([mcPlain EXCEPT !.ext = "png", !.type = t], n)]
        IN Disguise(m) => {"mass", "many"} \subseteq TraitsOf(m, {})

\* The Groq guard looks into a small ordinary picture in company only.  Of five pictures
\* that are marked four are asked about, the largest; the edit that comes next, or a repost
\* of the same link, finds the fifth marked and asks about none.
ASSUME FifthIsNeverAsked ==
    LET files == [i \in 1 .. 5 |-> [mcPlain EXCEPT !.url = i, !.w = IF i = 1 THEN 100 ELSE 600,
                                                  !.size = IF i = 2 THEN 30000 ELSE 20000]]
        kept == Collect(files, {}).seen
        chosen == AskAbout(files, {})
    IN /\ AskAbout(<<mcPlain>>, {}) = <<>> /\ Len(AskAbout(Files(mcPlain, 2), {})) = 2
       /\ kept = 1 .. 5 /\ AskAbout(files, kept) = <<>>
       /\ [i \in DOMAIN chosen |-> chosen[i].url] = <<2, 3, 4, 5>>

\* The answers: what is acted on was said of one image, and the first hit of 0.82 decides,
\* whatever would be said of the images after it; loose text is never acted on; without
\* that first hit no answer hides a later one.
mcHits == [kind : {"json"}, phish : BOOLEAN, conf : {50, 82, 95}, strong : BOOLEAN]
              \union {[kind |-> "loose", phish |-> TRUE, conf |-> 0, strong |-> TRUE],
                      [kind |-> "fail", phish |-> TRUE, conf |-> 95, strong |-> TRUE]}
ASSUME FirstHitDecides ==
    LET Acts(a) == a.kind = "json" /\ a.phish /\ a.conf = 95 /\ a.strong
        Ends(a) == a.kind = "json" /\ a.phish /\ a.conf >= 82
    IN \A as \in [1 .. 3 -> mcHits] :
          Emits(as) <=> \E i \in 1 .. 3 : Acts(as[i]) /\ \A j \in 1 .. (i - 1) : ~Ends(as[j])

\* The pause after a 429 is positive and bounded, and may be shorter than Groq asked for.
ASSUME PauseIsBounded ==
    \A ra \in {0, 1, 28, 900, 4000} : \A byte \in {0, 127, 128, 255} :
        LET p == Cooldown(ra, byte, 900)
        IN /\ 10200 <= p /\ p <= 900 * 10200
           /\ (ra \in {28, 900} /\ byte > 127) => p < ra * 10200

\* Links to pictures: one host by its exact name (a direct link to imgur is on another), and
\* an attachment's own link never counts.
ASSUME HostsAreExact ==
    \A h1, h2 \in {"i.ibb.co", "imgur.com", "i.imgur.com", "cdn.discordapp.com"} : \A p \in BOOLEAN :
        LinkBlast([mcMessage EXCEPT !.links = <<[mcLink EXCEPT !.host = h1, !.picture = TRUE],
                                               [mcLink EXCEPT !.host = h2, !.picture = p]>>])
            <=> p /\ {h1, h2} \subseteq {"i.ibb.co", "imgur.com"}

\* Copies with a number in their names are no pack; one that is a pack stays one when an
\* image is added that is no larger than 5 % more.
\* Three WEBPs named PNG are one whatever their names.
ASSUME PacksAreOneName ==
    LET pack(mark, size) ==
            [mcMessage EXCEPT !.files = <<mcPlain, mcPlain, [mcPlain EXCEPT !.mark = mark, !.size = size]>>]
    IN \A size \in {0, 19000, 20000, 21000, 21001} : \A mark \in {"none", "number", "copy"} :
          /\ IdenticalPack(pack(mark, size)) <=> mark = "none" /\ size \in {0, 20000, 21000}
          /\ LET fake == [pack(mark, size) EXCEPT !.files = [i \in 1 .. 3 |-> [@[i] EXCEPT !.ext = "png", !.bytes = "webp"]]]
             IN Autoban(fake) /\ ~Autoban([fake EXCEPT !.files = <<@[1], @[2], mcPlain>>])

\* A picture is read once, and those after a hit are left for the edit; the hashes are kept
\* without twins and up to the bound, and are loaded anew at each message while there are none.
ASSUME ReadOnce ==
    \A hs \in [1 .. 3 -> 1 .. 2] : \A us \in [1 .. 3 -> 1 .. 2] : \A max \in 1 .. 3 :
        LET files == [i \in 1 .. 3 |-> [mcWebp EXCEPT !.hash = hs[i], !.url = us[i]]]
            one == Match(files, {}, {2})
            db == LoadHashes([at |-> 0, list |-> <<>>], 1, 600, <<hs, us>>, max)
            none == LoadHashes([at |-> 0, list |-> <<>>], 1, 600, <<>>, max)
        IN /\ one.hit <=> \E i \in 1 .. 3 : hs[i] = 2 /\ \A j \in 1 .. (i - 1) : us[j] # us[i]
           /\ ~one.hit => Match(files, one.seen, {1, 2}) = [hit |-> FALSE, seen |-> one.seen]
           /\ Cardinality({db.list[i] : i \in DOMAIN db.list}) = Len(db.list) /\ Len(db.list) <= max
           /\ LoadHashes(db, 2, 600, <<>>, max) = db /\ LoadHashes(none, 2, 600, <<hs>>, max).list # <<>>

\* In the channel for links a refusal lets every message of the next 5 s stay for good.
ASSUME RefusalLetsPass ==
    \A now \in 0 .. 6 :
        LET first == LinkOnly(0, 0, "user", mcMessage, "429")
        IN LinkOnly(first.until, now, "user", mcMessage, "ok").asked <=> now >= 5
=============================================================================
