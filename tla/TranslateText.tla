--------------------------- MODULE TranslateText ---------------------------
(***************************************************************************)
(* What the translator (cogs/c20_translate_commands.py) does with a text   *)
(* between the request and the reply, which are Translator: which text and *)
(* which images it takes from a message, how it cuts the text, what it     *)
(* makes of the models' answers, and how the result is packed into an      *)
(* embed; and what the dictionary (translate/local_dict_store.py) answers  *)
(* on its own before a model is asked, as its files are DictStore.         *)
(*                                                                         *)
(* A text is its length, its paragraphs or its words, as the operator      *)
(* needs; letters are never looked at.                                     *)
(***************************************************************************)
EXTENDS Integers, Sequences, FiniteSets
LOCAL INSTANCE SequencesExt
LOCAL INSTANCE FiniteSetsExt

Fewer(a, b) == Min({a, b})
More(a, b) == Max({a, b})
Total(s) == FoldLeft(LAMBDA n, x : n + x, 0, s)
OnlyOnce(s) == FoldLeft(LAMBDA out, x : IF x \in ToSet(out) THEN out ELSE Append(out, x), <<>>, s)

-----------------------------------------------------------------------------
\* The source.  A message is [content, atts, embeds, reference, snapshots], content "none",
\* "urls" (nothing but links, or no letters) or "text"; an embed is [text, pics].
EmbedText(m) == \E e \in ToSet(m.embeds) : e.text
EffectivelyEmpty(m) == m.content = "none" /\ m.atts = <<>> /\ ~EmbedText(m)

\* _pick_best_source_message: what a reply or a forward wraps, if it is empty itself.
PickSource(m) ==
    LET inner == SelectSeq(m.reference \o m.snapshots, LAMBDA x : ~EffectivelyEmpty(x))
    IN IF ~EffectivelyEmpty(m) \/ inner = <<>> THEN m ELSE inner[1]

\* The text that is translated: the message's own, the embeds', or both.
BaseText(m) ==
    (IF m.content = "text" \/ (m.content = "urls" /\ ~EmbedText(m)) THEN {"content"} ELSE {})
      \union (IF EmbedText(m) THEN {"embeds"} ELSE {})

\* Images: each attachment that is one, read or else fetched, then the embeds' pictures,
\* each link once.  can says what may be had: "read" and "fetch" with the name.
Gained(xs, can) == SelectSeq(xs, LAMBDA x : <<"fetch", x>> \in can)
AttImages(m, can) ==
    SelectSeq(m.atts, LAMBDA a : a.image /\ (<<"read", a.name>> \in can \/ <<"fetch", a.name>> \in can))
EmbedPics(m) == OnlyOnce(FlattenSeq([i \in DOMAIN m.embeds |-> m.embeds[i].pics]))
Images(m, max, can) ==
    LET all == [i \in DOMAIN AttImages(m, can) |-> AttImages(m, can)[i].name] \o Gained(EmbedPics(m), can)
    IN SubSeq(all, 1, Fewer(More(0, max), Len(all)))

\* _fetch_image_bytes holds a link to six megabytes; an attachment that can be read has no limit.
MaxBytes == 6000000
Fetched(r) == r.status = 200 /\ r.type \in {"image", "octet-stream"} /\ r.bytes <= MaxBytes

-----------------------------------------------------------------------------
\* _chunk_text over the lengths of the paragraphs.  A chunk is [ps, len]: the paragraphs
\* it holds and its length, two characters between paragraphs.
NoBuf == [ps |-> <<>>, len |-> 0]
Pieces(i, p, max) ==
    [k \in 1 .. (p + max - 1) \div max |-> [ps |-> <<i>>, len |-> Fewer(max, p - max * (k - 1))]]
Flushed(st) == IF st.buf.len > 0 THEN Append(st.out, st.buf) ELSE st.out
TakeParagraph(st, i, p, max) ==
    LET cand == IF st.buf.len > 0 THEN [ps |-> Append(st.buf.ps, i), len |-> st.buf.len + 2 + p]
                ELSE [ps |-> <<i>>, len |-> p]
    IN CASE cand.len <= max -> [st EXCEPT !.buf = cand]
         [] cand.len > max /\ p > max -> [out |-> Flushed(st) \o Pieces(i, p, max), buf |-> NoBuf]
         [] OTHER -> [out |-> Flushed(st), buf |-> [ps |-> <<i>>, len |-> p]]

ChunkText(paras, max) ==
    LET len == Total(paras) + 2 * (Len(paras) - 1)
        st == FoldLeft(LAMBDA s, i : TakeParagraph(s, i, paras[i], max), [out |-> <<>>, buf |-> NoBuf],
                       [i \in DOMAIN paras |-> i])
    IN IF len <= max THEN <<[ps |-> [i \in DOMAIN paras |-> i], len |-> len]>> ELSE Flushed(st)

\* _seems_untranslated over the normalised texts, and the share of other scripts' signs.
SeemsUntranslated(src, out, latinTarget, foreign) ==
    LET n == Fewer(Len(src), Len(out))
        common == Cardinality({i \in 1 .. n : src[i] = out[i]})
    IN /\ src # <<>> /\ out # <<>>
       /\ \/ src = out
          \/ common * 10 > More(Len(src), Len(out)) * 9
          \/ latinTarget /\ foreign > 8 /\ foreign * 5 > Len(out)

-----------------------------------------------------------------------------
\* An answer of a model: "raised", "status" (not 200), "prose" (no JSON),
\* "blank", "list" (JSON, but no object) or "object" with the keys that are not empty.
SingleReply(a) ==
    CASE a.kind \in {"raised", "status"} -> [ok |-> FALSE, text |-> "error"]
      [] a.kind = "object" /\ "translation" \in a.keys -> [ok |-> TRUE, text |-> "translation"]
      [] OTHER -> [ok |-> TRUE, text |-> "raw"]

\* The helpers for two styles look at the keys outside the handler of the parsing.
MultiReply(a) ==
    CASE a.kind = "object" -> [ok |-> TRUE, styles |-> a.keys \intersect {"formal", "casual", "romaji"}]
      [] a.kind = "prose" -> [ok |-> TRUE, styles |-> {"formal"}]
      [] a.kind = "blank" -> [ok |-> TRUE, styles |-> {}]
      [] OTHER -> [ok |-> FALSE, styles |-> {}]

\* _groq_qc_and_fix_id: what the second model's answer makes of a translation.  Its word on
\* whether the translation passes is only reported.
QcResult(hasKey, a, translated) ==
    CASE ~hasKey \/ a.kind \in {"raised", "status", "blank"} -> translated
      [] hasKey /\ a.kind \in {"prose", "list"} -> "reply"
      [] OTHER -> IF a.fixed THEN "fixed" ELSE translated

\* Only an image's translation into Indonesian, by one of these names, is looked at.
QcTargets == {"id", "indonesian", "bahasa indonesia", "indo"}
ImageResult(target, hasKey, detected, a, translated) ==
    IF target \in QcTargets /\ detected /\ translated # "" THEN QcResult(hasKey, a, translated) ELSE translated

\* Japanese: greetings are put aside and back.  A text is a sequence of words; a greeting is
\* <<"kon", name>>, a placeholder <<"greet", i>>.
IsGreeting(w) == w[1] = "kon"
Greetings(ws) == SelectSeq(ws, IsGreeting)
LockGreetings(ws) ==
    [i \in DOMAIN ws |->
        IF IsGreeting(ws[i]) THEN <<"greet", Len(Greetings(SubSeq(ws, 1, i)))>> ELSE ws[i]]
RestoreLocked(out, locked) ==
    [i \in DOMAIN out |-> IF out[i][1] = "greet" /\ out[i][2] \in DOMAIN locked THEN locked[out[i][2]] ELSE out[i]]

\* _wuwa_strip_injection_line, and the nickname that must not get lost, in that order.
StripInjection(line, src) ==
    LET at == {i \in DOMAIN line : line[i] = "stream"}
    IN IF "stream" \in ToSet(src) \/ at = {} THEN line ELSE SubSeq(line, 1, Min(at) - 1)
WuwaLine(line, src) ==
    LET cut == StripInjection(line, src)
    IN IF "buaya" \in ToSet(src) /\ "wani" \notin ToSet(cut) THEN <<"wani">> \o cut ELSE cut

-----------------------------------------------------------------------------
\* _pack_text_into_embed over lengths: a description, at most twenty fields, and the full
\* text as a file if it is longer than max.
NoteLen == 46
DescBudget == 3900
FieldLen == 1024
Slices(n) == [k \in 1 .. (n + FieldLen - 1) \div FieldLen |-> Fewer(FieldLen, n - FieldLen * (k - 1))]
PackText(len, max, attachable) ==
    LET over == max > 0 /\ len > max
        file == over /\ attachable
        preview == IF over THEN max + 3 ELSE len
        head == Fewer(preview, DescBudget - (IF file THEN NoteLen ELSE 0))
        fields == SubSeq(Slices(preview - head), 1, Fewer(20, Len(Slices(preview - head))))
    IN [desc |-> head + (IF file THEN NoteLen ELSE 0), fields |-> fields, file |-> file,
        shown |-> Fewer(IF over THEN max ELSE len, head + Total(fields))]

\* The styles become fields after that; their names count, too, at least fifteen
\* signs and one for each further field, and the title "Translation".
StyleNameLen == 15
Embed(packed, styles) ==
    LET added == FlattenSeq([i \in DOMAIN styles |-> Slices(styles[i])])
    IN [desc |-> packed.desc, fields |-> packed.fields \o added,
        chars |-> 11 + packed.desc + Total(packed.fields) + Total(added)
                     + Len(packed.fields) + Len(added) + (StyleNameLen - 1) * Len(styles)]

\* What Discord takes.
Sendable(e) ==
    e.desc <= 4096 /\ Len(e.fields) <= 25 /\ (\A n \in ToSet(e.fields) : n <= 1024) /\ e.chars <= 6000

-----------------------------------------------------------------------------
\* The language.  resolve_lang knows a code by many names; the dictionary is asked with
\* the name itself, unless that has more than four letters and is known.
Aliases == [ja |-> {"ja", "jp", "japanese"}, ko |-> {"ko", "kr", "korean"}, zh |-> {"zh", "cn", "chinese", "mandarin"},
            id |-> {"id", "indo", "indonesian"}, en |-> {"en", "english"}, su |-> {"su", "sunda"}, jv |-> {"jv", "jawa"}]
Short == {"ja", "jp", "ko", "kr", "zh", "cn", "id", "indo", "en", "su", "jv", "jawa"}
Resolved(name) == {c \in DOMAIN Aliases : name \in Aliases[c]}
CodeOf(name) == IF name \notin Short /\ Resolved(name) # {} THEN CHOOSE c \in Resolved(name) : TRUE ELSE name

\* _pick_gemini_key, _pick_groq_key, _pick_groq_qc_key: a purpose has its own keys only.
KeyFor(env, purpose) ==
    LET own == [text |-> <<"TRANSLATE_GEMINI">>, qc |-> <<"TRANSLATE_GROQ_QC", "TRANSLATE_GROQ">>,
                groq |-> <<"TRANSLATE_GROQ">>][purpose]
        set == SelectSeq(own, LAMBDA k : k \in env)
    IN IF set = <<>> THEN "" ELSE set[1]

\* _translate_guild_ids: the new setting wins if it is there, numbers or not.
GuildIds(new, old) == IF new # <<>> THEN SelectSeq(new, LAMBDA x : x # "bad") ELSE SelectSeq(old, LAMBDA x : x # "bad")

-----------------------------------------------------------------------------
\* local_dict_store.py.  is_short_input, _detect_source_lang.
IsShort(words, chars) == words > 0 /\ words <= 3 /\ chars <= 48
SourceLang(scripts) ==
    CASE "kana" \in scripts -> "ja"
      [] "kana" \notin scripts /\ "hangul" \in scripts -> "ko"
      [] "kana" \notin scripts /\ "hangul" \notin scripts /\ "han" \in scripts -> "zh"
      [] OTHER -> "id"
LookIn(scripts) == <<SourceLang(scripts), "en">>
LangsAllowed(raw) == IF raw \ {""} = {} THEN DOMAIN Aliases ELSE raw \ {""}

\* A row of a dump is [trans, gloss]: the languages it is translated into, and whether it
\* is explained; an explanation serves every language.
Payload(row, target) ==
    CASE target \in row.trans -> target
      [] target \notin row.trans /\ row.gloss -> "gloss"
      [] OTHER -> ""

\* lookup_term_sync without a split folder: a dump per source language, and beside it a
\* cache whose key is the word alone.
LookupDump(cache, dump, word, target) ==
    LET found == IF word \in DOMAIN dump THEN Payload(dump[word], target) ELSE ""
    IN CASE word \in DOMAIN cache -> [hit |-> cache[word], cache |-> cache]
         [] word \notin DOMAIN cache /\ found # "" ->
                [hit |-> found, cache |-> [w \in DOMAIN cache \union {word} |-> IF w = word THEN found ELSE cache[w]]]
         [] OTHER -> [hit |-> "", cache |-> cache]

LookupTerm(caches, dumps, word, target, scripts) ==
    LET got(l) == LookupDump(caches[l], dumps[l], word, target)
        hits == SelectSeq(LookIn(scripts), LAMBDA l : got(l).hit # "")
    IN IF hits = <<>> THEN [hit |-> "", caches |-> caches]
       ELSE [hit |-> got(hits[1]).hit, caches |-> [caches EXCEPT ![hits[1]] = got(hits[1]).cache]]

\* build_glossary_block: the longest words first, four times as many looked up at most as
\* are wanted.  A word is [id, len]; known are the ids the dictionary has.
Glossary(words, known, maxTerms) ==
    LET all == ToSet(words)
        before(w) == {v \in all : v.len > w.len \/ (v.len = w.len /\ v.id < w.id)}
        sorted == [k \in 1 .. Cardinality(all) |-> CHOOSE w \in all : Cardinality(before(w)) = k - 1]
        uniq == SelectSeq(sorted, LAMBDA w : w.len <= 40)
        tried == SubSeq(uniq, 1, Fewer(4 * maxTerms, Len(uniq)))
        hits == SelectSeq(tried, LAMBDA w : w.id \in known)
    IN SubSeq(hits, 1, Fewer(maxTerms, Len(hits)))

\* _SentenceAssembler.  fixed maps the words it knows (to "" what is dropped), dict what the
\* dictionary has; any other word stays as it is.
Puncts == {".", ",", "!", "?"}
Rendered(w, fixed, dict) ==
    CASE w \in DOMAIN fixed -> fixed[w]
      [] w \notin DOMAIN fixed /\ w \in DOMAIN dict -> dict[w]
      [] OTHER -> w
RenderAll(ws, fixed, dict) ==
    SelectSeq([i \in DOMAIN ws |-> IF ws[i] \in Puncts THEN ws[i] ELSE Rendered(ws[i], fixed, dict)],
              LAMBDA w : w # "")
UpToPunct(ws) ==
    LET at == {i \in DOMAIN ws : ws[i] \in Puncts}
    IN IF at = {} THEN ws ELSE SubSeq(ws, 1, Min(at) - 1)

\* "saya suka ..." and "I like ..." have a frame of their own: all between the subject and
\* the verb is left out, and all after the next punctuation mark.
Framed(ws, l) == Len(ws) >= l.least /\ ws[1] \in DOMAIN l.subjects /\ l.verb \in ToSet(ws)
Assemble(ws, l, dict) ==
    IF ws # <<>> /\ Framed(ws, l)
    THEN LET after == SubSeq(ws, Min({i \in DOMAIN ws : ws[i] = l.verb}) + 1, Len(ws))
         IN <<l.subjects[ws[1]], "ha">> \o RenderAll(UpToPunct(after), l.fixed, dict) \o <<"ga suki desu">>
    ELSE RenderAll(ws, l.fixed, dict)

DetectSentence(ws) ==
    IF ToSet(ws) \intersect {"saya", "aku", "dan", "yang", "tidak", "nggak", "gak", "bukan"} # {} THEN "id" ELSE "en"

\* translate_message_ctx up to the model.  The dictionary d is [on, phrase, words, max]: its
\* answer to the whole text, to single words, and the longest text it may put together.
\* It is asked about a short text, and for Japanese about any text of other letters.
Offline(m, target, words, chars, cjk, langs, d) ==
    IF ~d.on \/ m.atts # <<>> \/ m.embeds # <<>> THEN <<>>
    ELSE IF IsShort(Len(words), chars) /\ d.phrase # "" THEN <<d.phrase>>
    ELSE IF CodeOf(target) = "ja" /\ ~cjk /\ chars <= (IF d.max <= 0 THEN 200 ELSE d.max)
    THEN Assemble(words, langs[DetectSentence(words)], d.words)
    ELSE <<>>
=============================================================================
