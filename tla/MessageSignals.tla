--------------------------- MODULE MessageSignals ---------------------------
(***************************************************************************)
(* What the guards look for in a message: the scores of suspicious         *)
(* attachments (suspicious_attachment_guard, a16_sus_attach_hardener_      *)
(* overlay), the signals of the firewall (a00_first_touchdown_firewall),   *)
(* which images go to Groq and what its answers amount to (phish_groq_     *)
(* guard), crypto-casino bait (b10_crypto_casino_guard), picture links     *)
(* (phish_link_guard, a40_link_only_guard), packs of one image (a00_phish_ *)
(* first_touchdown_autoban) and known WEBPs (phash_match_guard).  The      *)
(* module Guards takes these for the traits of a message.                  *)
(*                                                                         *)
(* An attachment is [stem, mark, ext, lure, bytes, type, url, size, wordy, *)
(* w, h, hash]: mark is what follows the stem ("none", "number", "copy"),  *)
(* lure says the name ends in two extensions, bytes is what _sniff makes   *)
(* of the first bytes ("binary" is application/octet-stream), type what    *)
(* Discord declares ("image", "webp", "other"), size is in bytes.          *)
(* A message is [mention, words, text, links, embeds, files, casino]:      *)
(* mention is "none", "flag", "everyone" or "here" (what only its text     *)
(* says), words that one of _SUS_WORDS occurs, text how many letters there *)
(* are beside links.                                                       *)
(***************************************************************************)
EXTENDS Naturals, Sequences, FiniteSets
LOCAL INSTANCE SequencesExt
LOCAL INSTANCE FiniteSetsExt

One(b) == IF b THEN 1 ELSE 0
Least(a, b) == Min({a, b})
Most(a, b) == Max({a, b})
Take(s, n) == SubSeq(s, 1, Least(n, Len(s)))

\* The extensions the guards know, and the bytes that belong to them.
ImageExt == {"png", "jpg", "gif", "bmp", "webp", "tiff"}
Archive == {"zip", "tar"}
ExecLike == {"exe", "msi"}
ImageBytes == {"png", "jpg", "gif", "bmp", "webp"}

-----------------------------------------------------------------------------
\* _score_attachment
Score(f) ==
    3 * One(f.lure) + 3 * One(f.ext \in ExecLike)
    + 2 * One(f.ext \in ImageExt /\ f.bytes \notin ImageBytes)
    + 2 * One(f.ext \in ImageExt /\ f.bytes = "binary")
    + One(f.ext \in Archive /\ f.bytes # "zip")
    + One(f.ext = "png" /\ f.bytes = "webp")
    + One(f.size <= 200) + One(f.bytes \in ImageBytes /\ f.wordy)

\* _content_signals: a word counts once, a lookalike once for each URL of each embed.
\* "stea[mrn]" takes the hosts of Steam for lookalikes.
ContentScore(m) ==
    One(m.words) + 2 * Cardinality({<<i, u>> \in (DOMAIN m.embeds) \X {"url", "image", "thumb"} :
                                        m.embeds[i][u] \in {"lookalike", "steam"}})

FileScore(m) == MapThenSumSet(LAMBDA i : Score(m.files[i]), DOMAIN m.files)

\* _collect_images, _collect_image_urls: attachments by their names, then embeds.
Pictured(m) ==
    \/ \E i \in DOMAIN m.files : m.files[i].ext \in ImageExt
    \/ \E i \in DOMAIN m.embeds : m.embeds[i].image # "none" \/ m.embeds[i].thumb # "none"

HasArchive(m) == \E i \in DOMAIN m.files : m.files[i].ext \in Archive

\* classify_phish_image: image by image until one is phishing; no answer is none.
AnyPhish(answers) == \E i \in DOMAIN Take(answers, 2) : answers[i] = "phish"

\* What the guard does: gem says whether a model is asked (it is not, as deployed), gate
\* what the Lucky Pull gate says of the first PNG or JPG, answers what Groq says of the images.
AttachVerdict(m, gem, gate, answers) ==
    LET burst == Len(m.files) >= 4
        look == AnyPhish(answers)
        sum == ContentScore(m) + FileScore(m)
        spared == /\ 0 < sum /\ sum < 3 /\ ~HasArchive(m) /\ gate
                  /\ \E i \in DOMAIN m.files : m.files[i].ext \in {"png", "jpg"}
        convicted == \/ sum >= 3
                     \/ gem /\ look /\ Pictured(m)
                     \/ HasArchive(m) /\ ContentScore(m) > 0
    IN CASE burst /\ m.mention # "none" -> {"ban"}
         [] burst /\ m.mention = "none" /\ look /\ Pictured(m) -> {"ban"}
         [] OTHER -> IF spared \/ ~convicted THEN {}
                     ELSE {"delete"} \union (IF HasArchive(m) THEN {"ban"} ELSE {})

\* _groq_confirm_phish: the best of the answers about the first two URLs.
Better(best, a) ==
    CASE ~a.ok \/ a.conf < best.conf -> best
      [] a.ok /\ a.conf >= best.conf /\ a.phish -> a
      [] OTHER -> IF best.phish THEN best ELSE [best EXCEPT !.conf = a.conf]
Confirm(answers) == FoldLeft(Better, [ok |-> TRUE, phish |-> FALSE, conf |-> 0], Take(answers, 2))

\* The hardener asks when the score is too low, with 0.90 to reach.
HardenVerdict(m, answers) ==
    LET sum == ContentScore(m) + FileScore(m)
        best == Confirm(answers)
    IN sum >= 3 \/ (Pictured(m) /\ best.phish /\ best.conf >= 90)

-----------------------------------------------------------------------------
\* The firewall's images, by name or declared type; a WEBP that says so; the disguise.
FirewallImage(f) == f.ext \in {"png", "jpg", "webp", "gif"} \/ f.type \in {"image", "webp"}
IsWebp(f) == f.ext = "webp" \/ f.type = "webp"
FirewallImages(m) == SelectSeq(m.files, FirewallImage)

\* _mass_blast_disguise: it words the reason of the ban only.
Disguise(m) ==
    /\ m.mention \in {"flag", "everyone"}
    /\ Len(SelectSeq(m.files, LAMBDA f : f.ext = "png")) >= 4
    /\ \E i \in DOMAIN m.files : m.files[i].ext = "png" /\ m.files[i].type = "webp"

\* _single_webp_valid: of one image alone, which is not over 8 MB.
SingleWebp(m) ==
    LET imgs == FirewallImages(m)
    IN CASE Len(imgs) # 1 -> "none"
         [] Len(imgs) = 1 /\ (~IsWebp(imgs[1]) \/ imgs[1].size > 8388608) -> "none"
         [] OTHER -> IF imgs[1].bytes = "webp" THEN "valid" ELSE "torn"

\* _image_hit: the first two images of at most 8 MB against the blacklist.
ImageHit(m, black) ==
    \E i \in DOMAIN Take(SelectSeq(FirewallImages(m), LAMBDA f : f.size <= 8388608), 2) :
        SelectSeq(FirewallImages(m), LAMBDA f : f.size <= 8388608)[i].hash \in black

\* _discord_invite_hit, _link_hit: any page of discord.com is an invite.
InviteHit(m) == \E i \in DOMAIN m.links : m.links[i].invite \in {"listed", "pattern"}
LinkHit(m) == \E i \in DOMAIN m.links : m.links[i].blocked

\* _score, _should_ban of the casino guard, as deployed: a domain or the sum with the coin
\* bans, keywords delete from two occurrences on.
Bait(c) == c.domain \/ c.combo \/ c.hits >= 2
Scam(c) == c.domain \/ c.combo

\* _invite_embed_nsfw
NsfwInvite(m) == \E i \in DOMAIN m.embeds : m.embeds[i].nsfw

\* What the module Guards knows of a message.
TraitsOf(m, black) ==
    {t \in {"mass", "many", "url", "file", "nsfw", "invite", "domain", "webp", "torn", "black",
            "sus", "archive", "bait", "scam"} :
        CASE t = "mass"    -> m.mention # "none"
          [] t = "many"    -> Len(FirewallImages(m)) >= 4
          [] t = "url"     -> m.links # <<>>
          [] t = "file"    -> m.files # <<>>
          [] t = "nsfw"    -> NsfwInvite(m)
          [] t = "invite"  -> InviteHit(m)
          [] t = "domain"  -> LinkHit(m)
          [] t = "webp"    -> SingleWebp(m) # "none"
          [] t = "torn"    -> SingleWebp(m) = "torn"
          [] t = "black"   -> ImageHit(m, black)
          [] t = "sus"     -> ContentScore(m) + FileScore(m) >= 3
          [] t = "archive" -> HasArchive(m)
          [] t = "bait"    -> Bait(m.casino)
          [] OTHER         -> Scam(m.casino)}

-----------------------------------------------------------------------------
\* _sus of the Groq guard: heavy formats; else nothing small, and of the rest WEBPs,
\* screenshots and large files.
Screen(f) ==
    LET long == Most(f.w, f.h)
    IN f.w > 0 /\ f.h > 0 /\ long >= 900 /\ 4 * long >= 5 * Least(f.w, f.h)

LooksRisky(f) ==
    \/ f.ext \in {"tiff", "bmp"}
    \/ (f.size \notin 1 .. 8191) /\ (IsWebp(f) \/ Screen(f) \/ f.size >= 32768)

\* The name, the declared type or the first bytes, fetched for the purpose.
AnyWebp(f) == IsWebp(f) \/ f.bytes = "webp"

\* on_message: images that were not seen and are not over 1 MB become candidates, a WEBP by
\* its bytes, too, and every image that is not alone; they are marked at once.
GroqImage(f) == f.ext \in ImageExt \/ f.type \in {"image", "webp"}
Collect(files, seen) ==
    LET imgs == SelectSeq(files, GroqImage)
        Add(st, f) ==
            IF f.url \notin st.seen /\ f.size <= 1048576
               /\ (AnyWebp(f) \/ LooksRisky(f) \/ Len(imgs) > 1)
            THEN [cand |-> Append(st.cand, f), seen |-> st.seen \union {f.url}] ELSE st
    IN FoldLeft(Add, [cand |-> <<>>, seen |-> seen], imgs)

\* _sort_key, largest first; four of them are put to Groq.
Larger(f, g) ==
    \/ f.w * f.h > g.w * g.h
    \/ f.w * f.h = g.w * g.h /\ f.size > g.size
Ranked(s) ==
    LET Before(i) == {j \in DOMAIN s : Larger(s[j], s[i]) \/ (~Larger(s[i], s[j]) /\ j < i)}
    IN [k \in DOMAIN s |-> s[CHOOSE i \in DOMAIN s : Cardinality(Before(i)) = k - 1]]
AskAbout(files, seen) == Take(Ranked(Collect(files, seen).cand), 4)

\* The answers in turn: 0.82 ends the loop, text with "phish": true is worth 0.70.
Weigh(best, a) ==
    LET conf == IF a.kind = "loose" THEN 70 ELSE a.conf
        this == [phish |-> TRUE, conf |-> conf, strong |-> a.strong, over |-> conf >= 82]
    IN IF best.over \/ a.kind = "fail" \/ ~a.phish THEN best
       ELSE IF conf > best.conf \/ this.over THEN this ELSE best
Weighed(answers) ==
    FoldLeft(Weigh, [phish |-> FALSE, conf |-> 0, strong |-> FALSE, over |-> FALSE], answers)

\* Every hit must reach 0.92 and name a strong signal (_webp_signals_ok), a WEBP or not.
Emits(answers) == LET best == Weighed(answers) IN best.phish /\ best.conf >= 92 /\ best.strong

\* _groq_mark_429, in 1/10200 s: what was asked for or 15 s, within 7.5 %, at most cap.
Cooldown(asked, byte, cap) ==
    LET base == IF asked > 0 THEN asked ELSE 15
    IN Most(10200, Least(base * (10965 - 6 * byte), 10200 * Most(1, cap)))

-----------------------------------------------------------------------------
\* phish_link_guard: two links to pictures on a host of the list, by its exact name.
PictureHosts == {"ibb.co", "i.ibb.co", "postimg.cc", "imgur.com"}
PictureLinks(m) ==
    {i \in DOMAIN m.links : m.links[i].host \in PictureHosts /\ m.links[i].picture}
LinkBlast(m) == Cardinality(PictureLinks(m)) >= 2

\* a40_link_only_guard: what may stay, and the pause of 5 s after a refusal.
MayStay(m) ==
    \/ m.links # <<>>
    \/ \E i \in DOMAIN m.files : m.files[i].ext \in {"png", "jpg"} \/ m.files[i].type # "other"
LinkOnly(until, now, author, m, answer) ==
    LET asked == until <= now /\ (author = "self" \/ (author = "user" /\ ~MayStay(m)))
    IN [asked |-> asked, until |-> IF asked /\ answer = "429" THEN now + 5 ELSE until]

\* a00_phish_first_touchdown_autoban.  _sanitize_name looks for a mark at the end of the
\* whole name, where the extension is.
Sanitized(f) == IF f.ext = "" THEN <<f.stem, "none", "">> ELSE <<f.stem, f.mark, f.ext>>
SizesWithin(files, pct) ==
    LET sizes == {i \in DOMAIN files : files[i].size > 0}
        All == {files[i].size : i \in sizes}
    IN Cardinality(sizes) >= 2 /\ 100 * (Max(All) - Min(All)) <= pct * Min(All)

IdenticalPack(m) ==
    /\ Len(m.files) >= 3 /\ Cardinality({Sanitized(m.files[i]) : i \in DOMAIN m.files}) = 1
    /\ \A i \in DOMAIN m.files : m.files[i].type # "other"
    /\ SizesWithin(m.files, 5) /\ m.text <= 8
DisguisedPack(m) ==
    /\ Len(m.files) >= 3 /\ \A i \in DOMAIN m.files : m.files[i].ext = "png"
    /\ Cardinality({i \in DOMAIN m.files : m.files[i].bytes = "webp"}) >= 3
    /\ (SizesWithin(m.files, 10) \/ m.text <= 8)
PostimgLink(m) == \E i \in DOMAIN m.links : m.links[i].host = "postimg.cc"
Autoban(m) == PostimgLink(m) \/ IdenticalPack(m) \/ DisguisedPack(m)

\* phash_match_guard: image by image, until one is known; each is marked when it is met.
Match(files, seen, known) ==
    FoldLeft(LAMBDA st, f :
                 IF st.hit \/ f.url \in st.seen THEN st
                 ELSE [hit |-> f.size <= 1048576 /\ f.bytes = "webp" /\ f.hash \in known,
                       seen |-> st.seen \union {f.url}],
             [hit |-> FALSE, seen |-> seen], files)

\* _load_db_hashes: pins, then history, up to max; an empty list is not kept.
LoadHashes(cache, now, ttl, posts, max) ==
    IF cache.list # <<>> /\ now - cache.at < ttl THEN cache
    ELSE [at |-> now,
          list |-> FoldLeft(LAMBDA out, h : IF h \in ToSet(out) \/ Len(out) >= max THEN out
                                            ELSE Append(out, h), <<>>, FlattenSeq(posts))]
=============================================================================
