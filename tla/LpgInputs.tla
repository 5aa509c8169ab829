----------------------------- MODULE LpgInputs ------------------------------
(***************************************************************************)
(* What the Lucky Pull guard works on, beside LpgGuard and LpgMemory: the  *)
(* image it sends, hashes and logs (cogs/a00_lpg_thread_bridge_guard.py),  *)
(* the words and keys of its reading of images, its settings, the memory   *)
(* thread as it is cleaned, read again and followed by                     *)
(* cogs/a17_lpg_cache_persistence_overlay.py, and the file that            *)
(* cogs/lpg_whitelist_ingestor.py makes of the whitelist thread.           *)
(***************************************************************************)
EXTENDS Integers, Sequences, FiniteSets
LOCAL INSTANCE SequencesExt
LOCAL INSTANCE FiniteSetsExt
LOCAL INSTANCE Providers

Distinct(s) == FoldLeft(LAMBDA out, x : IF x \in ToSet(out) THEN out ELSE Append(out, x), <<>>, s)

-----------------------------------------------------------------------------
\* An image is [head, len, opens, jpeg, small]: what its bytes begin with ("png8" and "jpeg3"
\* are whole signatures, "png4" and "jpeg2" a part of them), its length, whether PIL opens
\* it, its length as a JPEG by quality (0: at the smaller size), and by step of the second ladder and quality.
SniffFmt(head) ==
    CASE head = "jpeg3" -> "jpeg" [] head = "png8" -> "png" [] head = "gif89" -> "gif"
      [] head = "webp" -> "webp" [] OTHER -> "other"
Mime(head) ==
    CASE head \in {"jpeg3", "jpeg2"} -> "jpeg" [] head = "webp" -> "webp"
      [] head \in {"gif89", "gif"} -> "gif" [] OTHER -> "png"

\* _maybe_convert_to_jpeg: what the reader of the text is sent, and as what.
ForReading(img, pil) ==
    IF Mime(img.head) \in {"jpeg", "png"} \/ ~pil \/ ~img.opens
    THEN [head |-> img.head, as |-> Mime(img.head)]
    ELSE [head |-> "jpeg3", as |-> "jpeg"]

\* _compress_to_under: the first quality that fits, else the smaller size, whatever it has.
Ladder == <<80, 75, 70, 65, 60, 55, 50, 45, 40>>
Jpeg(img, len) == [img EXCEPT !.head = "jpeg3", !.len = len]
CompressToUnder(img, max) ==
    LET fits == SelectSeq(Ladder, LAMBDA q : img.jpeg[q] <= max)
    IN IF img.len <= max \/ ~img.opens THEN img
       ELSE Jpeg(img, img.jpeg[(fits \o <<0>>)[1]])

\* on_message: WEBP and what is neither PNG nor JPEG is not looked at.
MaxSend == 512000
MaxFetch == 8000000
Looked(img) == img.len <= MaxFetch /\ SniffFmt(img.head) \in {"jpeg", "png"}
Sent(img) == CompressToUnder(img, MaxSend)

\* _phash64_bytes: one bit for each of seven by seven coefficients above their median.
PHashBits == 7 * 7
Median(v) ==
    LET below(i) == Cardinality({j \in DOMAIN v : v[j] < v[i] \/ (v[j] = v[i] /\ j < i)})
    IN v[CHOOSE i \in DOMAIN v : below(i) = Len(v) \div 2]
PHash(v) == [i \in DOMAIN v |-> v[i] > Median(v)]

\* _prepare_status_embed_image: six sizes, seven qualities each, else the image as it is.
EmbedMax == 7500000
StatusImage(img, max, pil) ==
    LET name == IF SniffFmt(img.head) = "png" THEN "lpg_lucky.png" ELSE "lpg_lucky.jpg"
        fits == {s \in DOMAIN img.small : img.small[s] <= max}
        first == CHOOSE s \in fits : \A t \in fits : s[1] < t[1] \/ (s[1] = t[1] /\ s[2] >= t[2])
    IN IF img.len <= max \/ ~pil \/ ~img.opens \/ fits = {} THEN [img |-> img, name |-> name]
       ELSE [img |-> Jpeg(img, img.small[first]), name |-> "lpg_lucky.jpg"]

\* _post_status_embed.  The fields are [name, value]; works says which sends do.
NotLucky(value) == value \in {"not lucky", "cross"}
IsLuckyLog(fields) ==
    LET result == SelectSeq(fields, LAMBDA f : f.name = "result")
    IN result = <<>> \/ ~NotLucky(result[1].value)
PostStatus(fields, image, works) ==
    CASE ~IsLuckyLog(fields) -> "nothing"
      [] IsLuckyLog(fields) /\ image /\ "file" \in works -> "file"
      [] IsLuckyLog(fields) /\ ~(image /\ "file" \in works) /\ "plain" \in works -> "plain"
      [] OTHER -> "nothing"

-----------------------------------------------------------------------------
\* Settings.  names in order, env the pairs that are set and not empty.
Setting(env, names, default) ==
    LET set == SelectSeq(names, LAMBDA n : n \in DOMAIN env) IN IF set = <<>> THEN default ELSE env[set[1]]
ParseIds(parts) == SelectSeq(parts, LAMBDA p : p # "bad")
GuardIds(env) == ToSet(ParseIds(Setting(env, <<"LPG_GUARD_CHANNELS", "LUCKYPULL_GUARD_CHANNELS">>, <<>>)))
InGuard(ids, channel, parent) == channel \in ids \/ (parent \in ids /\ parent # "0")
Tone(t) ==
    CASE t \in {"soft", "agro", "sharp"} -> t [] t \in {"harsh", "hard"} -> "agro" [] OTHER -> "soft"

\* LPG_NEGATIVE_TEXT is "unset", a JSON "list", another JSON value ("string", "object"),
\* "plain" text, or "broken" JSON.  items are the words of the list or string, pieces
\* those between the commas of the raw text.  The file is "missing" or lines.
InlineWords(t) ==
    CASE t.kind \in {"list", "string"} -> t.items
      [] t.kind \in {"plain", "object", "broken"} -> t.pieces
      [] OTHER -> <<>>
FileWords(file) == SelectSeq(file, LAMBDA l : l.text # "" /\ ~l.comment)
NegText(t, file) ==
    Distinct(SelectSeq(InlineWords(t) \o [i \in DOMAIN FileWords(file) |-> FileWords(file)[i].text], LAMBDA w : w # ""))
NegTokens(words, lens, minLen) == SelectSeq(words, LAMBDA w : lens[w] >= minLen)

\* The configuration's list gets into the environment as Python prints it: no JSON.
Exported(value) == IF value.kind = "list" THEN [value EXCEPT !.kind = "broken"] ELSE value

\* _ocr_neg_text: one source of keys, the first that has any; and the model.
OcrSources == <<{"LPG_API_KEYS"}, {"LPG_API_KEY", "LPG_API_KEY_B", "LPG_BACKUP_API_KEY"},
                {"GEMINI_API_KEYS"}, {"GEMINI_API_KEY", "GEMINI_API_KEY_B", "GEMINI_BACKUP_API_KEY"}>>
OcrKeys(env) ==
    LET some == SelectSeq(OcrSources, LAMBDA s : s \intersect env # {})
    IN IF some = <<>> THEN {} ELSE some[1] \intersect env
OcrModel(env) ==
    LET set == SelectSeq(<<"GROQ_MODEL_VISION_OCR", "GROQ_MODEL_VISION", "GROQ_MODEL_VISION_CANDIDATES">>,
                         LAMBDA n : n \in env)
    IN (set \o <<"">>)[1]

\* The keys in turn: answers[i] is what the i-th would give.  A time-out ends it, and so
\* does text; a 429 makes the next key wait for the cool-down of all.
OcrEnds == {"text", "timeout"}
OcrRun(answers) ==
    LET ends == {i \in DOMAIN answers : answers[i] \in OcrEnds}
        last == IF ends = {} THEN Len(answers) ELSE Min(ends)
    IN [ok |-> last > 0 /\ answers[last] = "text", asked |-> last,
        reason |-> IF last = 0 THEN "no_key" ELSE answers[last],
        cools |-> Cardinality({i \in 1 .. last - 1 : answers[i] = "429"})]
\* _lpg_groq_mark_429 and the gate before a call.
Marked(now, cooldown) == now + Max({1, cooldown})
GateOpens(now, until) == Max({now, until})

-----------------------------------------------------------------------------
\* The memory thread, newest first.  A message is [id, ours, embed, lucky, print, picture,
\* image, ts]: lucky is "lucky", "not" or "none", print the image its footer names (0 if
\* none), picture "none", "fails", "big" or "ok", image what the picture shows.
Limited(s, limit) == IF limit <= 0 THEN s ELSE SubSeq(s, 1, Min({limit, Len(s)}))
Purged(m, stuck) == m.ours /\ m.embed /\ m.lucky = "not" /\ m.id \notin stuck
Purge(thread, c, stuck) ==
    LET n == Len(Limited(thread, IF c.purgeLimit > 0 THEN c.purgeLimit ELSE c.scanLimit))
        keep(i) == i > n \/ ~Purged(thread[i], stuck)
        kept == SetToSortSeq({i \in DOMAIN thread : keep(i)}, LAMBDA a, b : a < b)
    IN [i \in DOMAIN kept |-> thread[kept[i]]]

\* One message of _bootstrap_from_thread.  c is the configuration, with the hour; the
\* cache is that of lpg_cache_memory in Providers, an image standing for its hashes.
Learned(st, m, image, ts, c) ==
    [st EXCEPT !.cache = Upsert(@, image, [ah |-> image, ts |-> ts], c.max), !.fp = @ \union {<<m.id, image>>}]
TakeIn(st, m, c) ==
    CASE m.print # 0 -> Learned(st, m, m.print, m.ts, c)
      [] m.print = 0 /\ st.back < c.backfill /\ (m.picture = "ok" \/ (m.picture = "big" /\ ~c.render)) ->
             [Learned(st, m, m.image, c.now, c) EXCEPT !.back = @ + 1,
                 !.signed = IF c.write /\ m.embed /\ m.ours THEN @ \union {m.id} ELSE @]
      [] OTHER -> st
Bootstrap(thread, c, st) ==
    FoldLeft(LAMBDA x, m : TakeIn(x, m, c), [st EXCEPT !.back = 0], Limited(thread, c.scanLimit))
Signed(thread, st) ==
    [i \in DOMAIN thread |-> IF thread[i].id \in st.signed THEN [thread[i] EXCEPT !.print = thread[i].image] ELSE thread[i]]
Defaults(render) ==
    [max |-> IF render THEN 5000 ELSE 0, scanLimit |-> IF render THEN 3000 ELSE 0,
     backfill |-> IF render THEN 15 ELSE 200, write |-> ~render, weekly |-> ~render]
Weekly(c, minipc) == c.weekly /\ minipc

\* on_message in the thread, and the deletion of several messages at once: shared is the
\* map in lpg_cache_memory, beside the overlay's own.
Noted(st, m) ==
    IF m.embed /\ m.print # 0 THEN [st EXCEPT !.fp = @ \union {<<m.id, m.print>>}, !.shared = @ \union {<<m.id, m.print>>}]
    ELSE st
BulkDelete(st, ids) ==
    LET own == {p \in st.fp : p[1] \in ids}
        other == {p \in st.shared : p[1] \in ids /\ \A q \in own : q[1] # p[1]}
        images == {p[2] : p \in own \union other}
    IN [st EXCEPT !.fp = @ \ own, !.shared = @ \ other, !.deny = @ \union images,
                  !.cache = FoldLeft(RemoveSha, @, SetToSeq(images))]

-----------------------------------------------------------------------------
\* The whitelist's file is [shape, items]; an item is a pair of message and attachment, or
\* <<"junk">>, which has no keys.
LoadDb(db) == IF db.shape \in {"list", "attachments", "other key"} THEN db.items ELSE <<>>

\* The thread by its number, else by its name: among the active ones and the parent's
\* archived ones, all or nothing.
ResolveThread(byId, parentFails, active, archived) ==
    CASE byId # "" -> byId
      [] byId = "" /\ ~parentFails /\ active \o archived # <<>> -> (active \o archived)[1]
      [] OTHER -> ""

\* _ingest_once: the oldest messages first, up to the limit, or up to where the scan fails.
Pictures(m) == [i \in DOMAIN m.pictures |-> <<m.id, m.pictures[i]>>]
IngestOnce(db, thread, limit, upTo, writable) ==
    LET items == LoadDb(db)
        seen == SubSeq(thread, 1, Min({limit, upTo, Len(thread)}))
        found == FlattenSeq([i \in DOMAIN seen |-> Pictures(seen[i])])
        new == SelectSeq(found, LAMBDA x : x \notin ToSet(items))
    IN CASE <<"junk">> \in ToSet(items) -> [db |-> db, dies |-> TRUE]
         [] <<"junk">> \notin ToSet(items) /\ writable -> [db |-> [shape |-> "attachments", items |-> items \o new], dies |-> FALSE]
         [] OTHER -> [db |-> db, dies |-> FALSE]

\* What runs after the first pass: a pass that dies takes its loop with it.
Periodic(firstDies, interval) == ~firstDies /\ interval > 0
=============================================================================
