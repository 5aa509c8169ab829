---------------------------- MODULE MCTranslator ----------------------------
(***************************************************************************)
(* Two users; short words, a long text with images, a text command, an     *)
(* image search, and guilds that join.                                     *)
(***************************************************************************)
EXTENDS Translator, TranslateText
LOCAL INSTANCE TLC
LOCAL INSTANCE SequencesExt
LOCAL INSTANCE FiniteSetsExt

CONSTANTS d1, d2, long, plain, text, image, u1, u2, w1, w2, p1, p2, g1, g2, g3

MCWord == [c \in Calls |-> IF c = d1 THEN w1 ELSE w2]

\* The second version moves a word to the other part.
MCHolder == [v \in 1..MaxVersion |->
    [w \in Words |-> IF w = w1 THEN p1 ELSE IF v = 1 THEN p2 ELSE p1]]

Plain(user) == [cmd |-> "translate", user |-> user, asks |-> FALSE, images |-> 0,
                chunks |-> 1, dual |-> FALSE, short |-> FALSE]

MCShape ==
    [c \in Calls |->
        CASE c = d1    -> [Plain(u1) EXCEPT !.short = TRUE]
          [] c = d2    -> [Plain(u2) EXCEPT !.short = TRUE]
          [] c = long  -> [Plain(u1) EXCEPT !.asks = TRUE, !.images = 1, !.chunks = 2,
                                            !.dual = TRUE]
          [] c = plain -> Plain(u1)
          [] c = text  -> [Plain(u1) EXCEPT !.cmd = "text"]
          [] c = image -> [Plain(u2) EXCEPT !.cmd = "reverse", !.images = 1, !.chunks = 0]]

Plan(requests, joins, uploads, restarts) ==
    [requests |-> requests, joins |-> joins, uploads |-> uploads, boots |-> restarts,
     settled |-> joins = {}]

MCPlans ==
    {Plan({d1, d2}, {}, TRUE, 0),
     Plan({d1}, {g2}, FALSE, 0),
     Plan({d1}, {}, TRUE, 1),
     Plan({long, plain}, {}, FALSE, 0),
     Plan({text, image}, {}, FALSE, 0),
     Plan({}, {g2, g3}, FALSE, 1)}
-----------------------------------------------------------------------------
\* TranslateText over small inputs.
mcMsg == [content |-> "none", atts |-> <<>>, embeds |-> <<>>, reference |-> <<>>, snapshots |-> <<>>]
mcAtt(n) == [name |-> n, image |-> TRUE]
mcTexts == {[mcMsg EXCEPT !.content = c, !.atts = a, !.embeds = e] :
               c \in {"none", "urls", "text"}, a \in {<<>>, <<mcAtt("a")>>},
               e \in {<<>>, <<[text |-> TRUE, pics |-> <<"x">>]>>, <<[text |-> FALSE, pics |-> <<"x", "y">>]>>}}

\* What is translated is empty only if all is that the message wraps.  A reply that has
\* but the picture of a link stands back for what it replies to.
ASSUME SourceIsUnwrapped ==
    /\ \A m, ref, snap \in mcTexts :
          LET w == [m EXCEPT !.reference = <<ref>>, !.snapshots = <<snap>>]
          IN /\ EffectivelyEmpty(PickSource(w)) => EffectivelyEmpty(m) /\ EffectivelyEmpty(ref) /\ EffectivelyEmpty(snap)
             /\ PickSource(w) \in {w, ref, snap} /\ (BaseText(m) # {} => PickSource(w) = w)
    /\ \A m \in mcTexts : BaseText(m) = {} => m.content = "none" /\ ~EmbedText(m)
    /\ \E m, ref \in mcTexts :
          Images(m, 3, {<<"fetch", "x">>}) # <<>> /\ PickSource([m EXCEPT !.reference = <<ref>>]) = ref

\* At most so many images, what is attached before what is linked, and no link twice.
ASSUME ImagesAreBounded ==
    LET m == [mcMsg EXCEPT !.atts = <<mcAtt("a"), mcAtt("b")>>,
                           !.embeds = <<[text |-> FALSE, pics |-> <<"x", "y">>], [text |-> FALSE, pics |-> <<"y">>]>>]
        ways == {"read", "fetch"} \X {"a", "b"} \union {"fetch"} \X {"x", "y"}
    IN /\ \A max \in -1 .. 5 : \A can \in SUBSET ways :
             LET got == Images(m, max, can)
             IN /\ Len(got) <= More(0, max) /\ IsInjective(got)
                /\ \A i, j \in DOMAIN got : i < j => ~(got[i] \in {"x", "y"} /\ got[j] \in {"a", "b"})
                /\ max >= 4 => ToSet(got) = {w[2] : w \in can}
       /\ ~Fetched([status |-> 200, type |-> "image", bytes |-> MaxBytes + 1])
       /\ ~Fetched([status |-> 200, type |-> "html", bytes |-> 1])

\* Every chunk fits and is not empty; no sign of the text is in none, or in two.
ASSUME ChunksFit ==
    \A n \in 1 .. 4 : \A paras \in [1 .. n -> {0, 1, 3, 6, 11}] : \A max \in {3, 5, 8} :
        LET cs == ChunkText(paras, max)
            flat == FlattenSeq([i \in DOMAIN cs |-> cs[i].ps])
        IN Total(paras) > 0 =>
             /\ \A c \in ToSet(cs) : 0 < c.len /\ c.len <= max
             /\ Total([i \in DOMAIN cs |-> cs[i].len - 2 * (Len(cs[i].ps) - 1)]) = Total(paras)
             /\ {i \in 1 .. n : paras[i] > 0} \subseteq ToSet(flat)
             /\ \A i \in 1 .. Len(flat) - 1 : flat[i] <= flat[i + 1]

\* A text that came back is recognised, and one with a slip in twenty signs; not if a sign
\* was put before it.
mcLine == [i \in 1 .. 20 |-> i]
ASSUME EchoIsSeen ==
    /\ SeemsUntranslated(mcLine, mcLine, FALSE, 0) /\ SeemsUntranslated(mcLine, [mcLine EXCEPT ![7] = 0], FALSE, 0)
    /\ ~SeemsUntranslated(mcLine, [mcLine EXCEPT ![7] = 0, ![8] = 0], FALSE, 0)
    /\ ~SeemsUntranslated(mcLine, <<0>> \o mcLine, FALSE, 0) /\ ~SeemsUntranslated(mcLine, <<>>, TRUE, 20)
    /\ SeemsUntranslated(mcLine, [i \in 1 .. 20 |-> 0], TRUE, 9) /\ ~SeemsUntranslated(mcLine, [i \in 1 .. 20 |-> 0], TRUE, 8)

\* What is no object is shown as it is by the one helper and fails the others; an object
\* with other keys is shown raw, or has no style at all.
mcReplies == [kind : {"raised", "status", "prose", "blank", "list", "object"}, keys : SUBSET {"translation", "formal", "casual"}]
ASSUME AnswersAreTaken ==
    /\ \A a \in mcReplies : (SingleReply(a).ok \/ a.kind \in {"raised", "status"}) /\ (MultiReply(a).ok => SingleReply(a).ok)
    /\ {a.kind : a \in {x \in mcReplies : SingleReply(x).ok /\ ~MultiReply(x).ok}} = {"list"}
    /\ \A a \in mcReplies : MultiReply(a).styles # {} => MultiReply(a).ok

\* The second model's verdict decides nothing, its text does: also one that is no JSON.
ASSUME VerdictIsIgnored ==
    \A t \in QcTargets \union {"ja"} : \A key, fixed \in BOOLEAN : \A kind \in {"raised", "blank", "prose", "object"} :
        LET reply(pass) == ImageResult(t, key, TRUE, [kind |-> kind, pass |-> pass, fixed |-> fixed], "first")
        IN /\ reply(TRUE) = reply(FALSE) /\ (reply(TRUE) # "first" => key /\ t # "ja")
           /\ key /\ t = "id" /\ kind = "prose" => reply(TRUE) = "reply"

\* Greetings come back as they were written, wherever the model puts their places; if it
\* changes nothing, so does the whole text.
mcWord == {<<"kon", "pekora">>, <<"kon", "tora">>, <<"word", "x">>}
mcPlaces == {<<"greet", 1>>, <<"greet", 2>>, <<"greet", 3>>, <<"word", "x">>}
ASSUME GreetingsSurvive ==
    \A src \in [1 .. 3 -> mcWord] :
        /\ RestoreLocked(LockGreetings(src), Greetings(src)) = src
        /\ \A i \in 1 .. 3 : ~IsGreeting(LockGreetings(src)[i])
        /\ \A out \in [1 .. 3 -> mcPlaces] :
              LET back == RestoreLocked(out, Greetings(src))
              IN \A i \in 1 .. 3 : IsGreeting(back[i]) => back[i] \in ToSet(src)

\* The gamer's line never brings up a stream the text has not, and never loses the nickname.
ASSUME NicknameIsKept ==
    \A src \in [1 .. 2 -> {"stream", "buaya", "x"}] : \A line \in [1 .. 3 -> {"stream", "wani", "y"}] :
        LET out == ToSet(WuwaLine(line, src))
        IN /\ "stream" \in out => "stream" \in ToSet(src)
           /\ "buaya" \in ToSet(src) => "wani" \in out
           /\ "stream" \in ToSet(src) => ToSet(line) \subseteq out
           /\ "y" \in ToSet(line) /\ "stream" \notin ToSet(line) => "y" \in out

\* Within its limit the embed is taken by Discord and shows all there is, or all up to the
\* limit beside the file.  The styles that are added after the packing are counted by
\* nobody: with a picture's text before them the reply may be one Discord refuses.
ASSUME PackedFits ==
    /\ \A len \in {1, 3853, 3900, 3901, 4800, 4801, 9000, 60000} : \A max \in {500, 4800} : \A a \in BOOLEAN :
          LET p == PackText(len, max, a)
          IN /\ Sendable(Embed(p, <<>>))
             /\ p.desc <= DescBudget /\ p.shown >= Fewer(len, max) /\ (p.shown < len => len > max)
             /\ p.file <=> a /\ len > max
    /\ LET p == PackText(30000, 60000, TRUE) IN p.shown < 30000 /\ ~p.file /\ Len(p.fields) <= 20
    /\ Sendable(Embed(PackText(1000, 4800, TRUE), <<1500, 1500, 1500>>))
    /\ ~Sendable(Embed(PackText(1500, 4800, TRUE), <<1500, 1500, 1500>>))

\* A key of the guards is never used.  A short second name of a language reaches the model,
\* not the dictionary.
ASSUME NamesAndKeys ==
    /\ \A env \in SUBSET {"TRANSLATE_GEMINI", "TRANSLATE_GROQ", "TRANSLATE_GROQ_QC", "GEMINI", "GROQ"} :
          \A p \in {"text", "qc", "groq"} : KeyFor(env, p) \notin {"GEMINI", "GROQ"}
    /\ KeyFor({"TRANSLATE_GROQ"}, "qc") = "TRANSLATE_GROQ" /\ KeyFor({"TRANSLATE_GROQ"}, "text") = ""
    /\ CodeOf("japanese") = "ja" /\ CodeOf("jp") = "jp" /\ Resolved("jp") = {"ja"} /\ Resolved("klingon") = {}
    /\ GuildIds(<<"bad">>, <<"7">>) = <<>> /\ GuildIds(<<>>, <<"7">>) = <<"7">>

\* A dump's cache does not know for which language an answer was: the next one gets it,
\* too, and what only English explains is an answer in every language.
mcRow(trans, gloss) == [trans |-> trans, gloss |-> gloss]
mcDumps == [id |-> ("neko" :> mcRow({"id", "ko"}, FALSE) @@ "inu" :> mcRow({}, FALSE)),
            en |-> ("neko" :> mcRow({}, TRUE) @@ "inu" :> mcRow({}, TRUE))]
mcNoCaches == [id |-> <<>>, en |-> <<>>]
ASSUME CacheKnowsNoTarget ==
    LET ask(caches, w, t) == LookupTerm(caches, mcDumps, w, t, {"latin"})
        after(w, t) == ask(mcNoCaches, w, t).caches
    IN /\ \A t \in {"id", "ko", "zh"} : ask(mcNoCaches, "neko", t).hit = IF t = "zh" THEN "gloss" ELSE t
       /\ \A s, t \in {"id", "ko"} : ask(after("neko", s), "neko", t).hit = s
       /\ ask(after("neko", "zh"), "neko", "ko").hit = "ko" /\ ask(after("inu", "ko"), "inu", "id").hit = "gloss"
       /\ \A t \in {"id", "zh"} : ask(after("neko", "id"), "saru", t) = [hit |-> "", caches |-> after("neko", "id")]
       /\ LookIn({"kana", "han"}) = <<"ja", "en">> /\ LookIn({"han"})[1] = "zh" /\ LangsAllowed({"", "id"}) = {"id"}

\* The glossary has the longest words that are known, of the longest four times as many.
mcTerms == [i \in 1 .. 12 |-> [id |-> i, len |-> (i * 5) % 13]]
ASSUME LongestFirst ==
    \A known \in {1 .. 12, {1, 2, 3}, {5, 10}, {}} : \A max \in 0 .. 3 :
        LET g == Glossary(mcTerms, known, max)
        IN /\ Len(g) <= max /\ \A i \in 1 .. Len(g) - 1 : g[i].len >= g[i + 1].len
           /\ \A i \in DOMAIN g : g[i].id \in known
           /\ Len(g) < max => Cardinality({i \in known : Cardinality({j \in 1 .. 12 : mcTerms[j].len > mcTerms[i].len}) < 4 * max}) = Len(g)

\* "I do not like cats" is put together as "I like cats", and "but" after a comma is lost.
mcId == [subjects |-> ("saya" :> "watashi"), verb |-> "suka", least |-> 3,
         fixed |-> ("saya" :> "watashi") @@ ("tidak" :> "nai") @@ ("suka" :> "suki") @@ ("yang" :> "") @@ ("dan" :> "to")]
mcEn == [subjects |-> ("i" :> "watashi"), verb |-> "like", least |-> 1, fixed |-> ("i" :> "watashi") @@ ("and" :> "to") @@ ("like" :> "suki")]
mcJa == ("kucing" :> "neko") @@ ("cats" :> "neko")
ASSUME NegationIsLost ==
    /\ Assemble(<<"saya", "tidak", "suka", "kucing">>, mcId, mcJa) = Assemble(<<"saya", "suka", "kucing">>, mcId, mcJa)
    /\ Assemble(<<"i", "do", "not", "like", "cats">>, mcEn, mcJa) = <<"watashi", "ha", "neko", "ga suki desu">>
    /\ Assemble(<<"i", "like", "cats", ",", "not", "dogs">>, mcEn, mcJa) = <<"watashi", "ha", "neko", "ga suki desu">>
    /\ Assemble(<<"kucing", "tidak", "makan">>, mcId, mcJa) = <<"neko", "nai", "makan">>

\* Into Japanese the model is not asked for any text of Latin letters alone, whatever its
\* language, as long as the dictionary is on and the text is not too long; for the same
\* text with a link's preview, or with the language named "jp", it is.
ASSUME JapaneseIsOffline ==
    \A words \in UNION {[1 .. n -> {"saya", "suka", "chat", ",", "yang"}] : n \in 1 .. 4} : \A chars \in {20, 500, 501} :
        LET d == [on |-> TRUE, phrase |-> "", words |-> mcJa, max |-> 500]
            reply(m, t, x) == Offline(m, t, words, chars, FALSE, ("id" :> mcId) @@ ("en" :> mcEn), x)
            japanese == reply([mcMsg EXCEPT !.content = "text"], "ja", d)
        IN /\ japanese = <<>> <=> chars > 500 \/ (DetectSentence(words) = "id" /\ ToSet(words) = {"yang"})
           /\ reply([mcMsg EXCEPT !.embeds = <<[text |-> TRUE, pics |-> <<>>]>>], "ja", d) = <<>>
           /\ reply(mcMsg, "jp", d) = <<>> /\ reply(mcMsg, "ko", d) = <<>> /\ reply(mcMsg, "ja", [d EXCEPT !.on = FALSE]) = <<>>
           /\ reply(mcMsg, "japanese", d) = japanese /\ (Len(words) <= 3 /\ chars = 20 => reply(mcMsg, "ko", [d EXCEPT !.phrase = "p"]) = <<"p">>)
=============================================================================
