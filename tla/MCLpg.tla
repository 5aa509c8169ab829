-------------------------------- MODULE MCLpg -------------------------------
(***************************************************************************)
(* The guard of the lucky-pull channels and its memory, which meet only in *)
(* the answers LpgMemory takes for its inputs: a behaviour is one of the   *)
(* one or of the other.  Of the guard: three overlapping handlers and, as  *)
(* in runtime_env.json, two permits; the third handler waits for one, or   *)
(* is of a message delivered again.  Of the memory: one image posted       *)
(* twice, logged, unlearned and posted again, over a restart.              *)
(***************************************************************************)
EXTENDS LpgGuard, LpgMemory, Providers, LpgInputs
LOCAL INSTANCE SequencesExt

CONSTANTS t1, t2, t3, m1, m2, m3, a1, a2, x

MCEvents == {<<t1, m1>>, <<t2, m1>>, <<t2, m2>>, <<t3, m1>>, <<t3, m2>>, <<t3, m3>>}
MCImage == [p \in Posts |-> x]

VARIABLE subject  \* what the behaviour is of

MCInit ==
    /\ Init /\ MemInit /\ subject \in {"guard", "memory"}
    /\ subject = "memory" => ocrWhen = "never"  \* LpgMemory does not read it

\* Handlers and messages are alike, and posts: the first to come is called t1 and is of m1,
\* the first post a1, and so on.
InOrder ==
    /\ (pc[t2] # "new" => pc[t1] # "new") /\ (pc[t3] # "new" => pc[t2] # "new")
    /\ at[a2] # "off" => at[a1] # "off"

MCNext ==
    \/ subject = "guard" /\ Next /\ UNCHANGED <<memVars, subject>> /\ InOrder'
    \/ subject = "memory" /\ MemNext /\ UNCHANGED <<vars, subject>> /\ InOrder'

\* Fairness of either module, whose steps are taken in its own behaviours only.
Guarding(A) == subject = "guard" /\ A
Remembering(A) == subject = "memory" /\ A

MCSpec ==
    /\ MCInit /\ [][MCNext]_<<vars, memVars, subject>>
    /\ WF_vars(Guarding(Tick)) /\ \A t \in Handlers : WF_vars(Guarding(Step(t)))
    /\ WF_memVars(Remembering(up /\ Manager /\ UNCHANGED <<up, boots>>)) /\ WF_memVars(Remembering(Boot))

-----------------------------------------------------------------------------
\* What Providers says of small inputs; TLC evaluates it before it starts.

\* Two models and two keys, under the guard's time-out.
Env(outer) ==
    [keys |-> <<<<>>, <<"k1", "k2", "k1">>, <<"k3">>>>, primary |-> <<"m1">>, candidates |-> <<"m1", "m2">>,
     fallbacks |-> <<>>, second |-> <<"k2">>, standard |-> <<"m1">>, perTry |-> 0, groqMs |-> 12000, total |-> 0, outer |-> outer]
Outers == {4000, 9000, 12000}
mcReplies ==
    {Failure(reason, took) : reason \in {"timeout", "error"}, took \in {300, 4000, 60000}}
    \union {Reply(lucky, score, reason, 300) : lucky \in BOOLEAN, score \in {80, 90}, reason \in {"plain", "trouble"}}
Nets == [gemini : {{}}, replies : [{"m1", "m2"} \X {"k1", "k2"} -> mcReplies]]
Alike(r) == [gemini |-> {}, replies |-> [c \in {"m1", "m2"} \X {"k1", "k2"} |-> r]]
Guarded(outer, t) == GuardEnv(Env(outer), t)

\* Every answer comes within a second and a half of the budget, and it is lucky only if a
\* model said so.
ASSUME AnswersInTime ==
    \A net \in Nets :
        LET e == Guarded(9000, 9000)
            r == Core(e, net)
        IN /\ r.now <= Budgets(e, TRUE).total + 1500
           /\ r.reply.lucky => \E c \in DOMAIN net.replies : net.replies[c].lucky
           /\ ~r.done => r.tried = 4

\* That is later than the guard waits, though the budgets were fitted to its time-out
\* "with small safety margins": the last attempt is not cut below 1.5 s.
ASSUME BudgetOverruns ==
    \E slow \in {2000, 2600, 4200, 5000, 60000} : \E outer \in Outers :
        Core(Guarded(outer, outer), Alike(Failure("error", slow))).now > outer

\* The guard's second try has "a larger timeout", but the bridge fits its budget to the
\* first one again.
ASSUME SecondTryIsNoLonger ==
    \A outer \in Outers :
        LET first == Budgets(Guarded(outer, outer), TRUE)
            second == Budgets(Guarded(outer, SecondTimeout(outer, 25000)), TRUE)
        IN second.total - first.total <= 100 /\ second.per <= second.total

\* A reason is the model's own wording, and one that contains "error" or "timeout" makes a
\* verdict pass for a failure, unless it is a sure one.
ASSUME WordsDecide ==
    \A score \in {80, 90} : \A reason \in {"plain", "trouble"} :
        Core(Guarded(9000, 9000), Alike(Reply(TRUE, score, reason, 300))).reply.lucky
            = (score >= 90 \/ reason = "plain")

\* One Gemini model in front ends every question: the others are not asked.
ASSUME GeminiEndsIt ==
    LET r == Core(Guarded(9000, 9000), [Alike(Reply(TRUE, 99, "plain", 300)) EXCEPT !.gemini = {"m1"}])
    IN ~r.reply.lucky /\ r.tried = 1

\* The suspicious variant keeps to no time-out but its own budget and one attempt.
ASSUME SuspiciousBudget ==
    \A took \in {300, 4000, 60000} : \A small \in BOOLEAN :
        LET r == Suspicious(Env(9000), small, Alike(Failure("timeout", took)))
        IN r.now <= Budgets(Env(9000), FALSE).total + PickTimeout(Env(9000))

\* When every request fails, the hook remembers the image as not lucky, where it means to
\* "avoid poisoning cache with pure errors", and the lucky entry that was to rescue it is
\* neither used nor kept.
ASSUME FailuresAreCached ==
    \A reason \in {"timeout", "error", "parse_error"} :
        LET r == Core(Guarded(9000, 9000), Alike(Failure(reason, 300))).reply
        IN Hook(FALSE, <<[ok |-> TRUE, score |-> 95]>>, r) = [lucky |-> FALSE, cached |-> TRUE, via |-> "provider"]

\* Of a failing bridge the dispatcher hears the number 0, and no other provider is tried.
ASSUME FailureStopsDispatch ==
    LET r == Core(Guarded(9000, 9000), Alike(Failure("timeout", 300))).reply
    IN Dispatch(<<"gemini", "rules">>, [p \in {"gemini", "rules"} |-> IF p = "gemini" THEN ProbOf(r) ELSE 100]).prob = 0

\* The shield gives up before the guard does, and the ten qualities end at the lowest.
ASSUME ShieldIsFirst == \A outer \in {600, 2000, 3000, 3100, 9000}, margin \in {0, 700, 5000} : SoftTimeout(outer, margin) < outer
ASSUME QualityFalls ==
    \A start \in {0, 40, 83, 92, 100} :
        /\ Quality(start, 9) = 30 /\ \A i \in 1 .. 9 : Quality(start, i) <= Quality(start, i - 1)
        /\ LET sizes == [q \in 30 .. 92 |-> q * 10]
           IN \A max \in {200, 300, 500} : (Shrunk(900, max, start, sizes) <= max) <=> max >= 300

\* The index holds every hashed entry once under its hash and nothing else, the cache
\* keeps its bound and the entry put last, whatever was put and removed.
mcCacheOps == [op : {"put"}, sha : 1 .. 3, ah : 0 .. 2] \union [op : {"remove"}, sha : 1 .. 3, ah : {0}]
After(ops, max) ==
    FoldLeftDomain(LAMBDA c, i : IF ops[i].op = "remove" THEN RemoveSha(c, ops[i].sha)
                                 ELSE Upsert(c, ops[i].sha, [ah |-> ops[i].ah, ts |-> i], max), EmptyCache, ops)
mcDist == [p \in (0 .. 2) \X (0 .. 2) |-> IF p[1] = p[2] THEN 0 ELSE 1]
ASSUME IndexIsExact ==
    \A max \in {0, 2} : \A n \in 1 .. 3 : \A ops \in [1 .. n -> mcCacheOps] :
        LET c == After(ops, max)
            hashed == {s \in DOMAIN c.entries : c.entries[s].ah # 0}
        IN /\ DOMAIN c.index = {c.entries[s].ah : s \in hashed}
           /\ \A a \in DOMAIN c.index : \A s \in 1 .. 3 :
                 Len(SelectSeq(c.index[a], LAMBDA t : t = s)) = IF s \in hashed /\ c.entries[s].ah = a THEN 1 ELSE 0
           /\ max > 0 => Cardinality(DOMAIN c.entries) <= max
           /\ ops[n].op = "put" => ops[n].sha \in DOMAIN c.entries
           /\ \A a \in 0 .. 2 :
                 LET same == {s \in hashed : c.entries[s].ah = a}
                 IN Similar(c, a, 1, mcDist) \in (IF a = 0 THEN {{}} ELSE IF same # {} THEN {{s} : s \in same}
                                                 ELSE {hashed})

\* A log that was registered last is known, the cap is kept.
ASSUME RegisterKeepsLast ==
    \A n \in 0 .. 4 : \A mid \in 1 .. 5 :
        LET r == Register([i \in 1 .. n |-> i], mid, 3)
        IN r[Len(r)] = mid /\ (n <= 3 => Len(r) <= 3) /\ FpCap(1000) = 5000

\* An image that Groq says nothing of is phishing, one it answers in no JSON is clean;
\* the image on Discord's host is downloaded, never sent as its URL.
Steps == {"u1", "u2", "download", "data", "text"}
ASSUME SilenceConvicts ==
    \A net \in [Steps -> {"phish", "clean", "garbage", "fail"}], atDiscord, hasBytes \in BOOLEAN :
        LET r == ClassifyPhish(TRUE, <<"u1", "u2">>, atDiscord, hasBytes, net)
        IN /\ r.by = "stub" <=> net["text"] = "fail"
                                /\ (hasBytes \/ net["download"] # "fail" => net["data"] = "fail")
                                /\ (~atDiscord => net["u1"] = "fail" /\ net["u2"] = "fail")
           /\ r.phish = (IF r.by = "stub" \/ net[r.by] = "phish" THEN 1 ELSE 0)
           /\ atDiscord => r.by \notin {"u1", "u2"}
           /\ ClassifyPhish(FALSE, <<"u1">>, atDiscord, hasBytes, net).phish = 1

-----------------------------------------------------------------------------
\* LpgInputs.  An image of n bytes; its JPEGs have the length given, or a tenth more; at the smaller size a little more, too.
mcImg(head, n, j) ==
    [head |-> head, len |-> n, opens |-> TRUE,
     jpeg |-> [q \in ToSet(Ladder) \union {0} |-> IF q = 0 THEN j + 7 ELSE IF q <= 60 THEN j ELSE j + j \div 10],
     small |-> [t \in (1 .. 2) \X {85, 30} |-> (j \div t[1]) + t[2]]]
mcHeads == {"jpeg3", "jpeg2", "png8", "png4", "gif89", "gif", "webp", "riff"}
mcImgs == {mcImg(h, n, j) : h \in mcHeads, n \in {1, MaxSend, MaxSend + 1, MaxFetch}, j \in {9, MaxSend, MaxSend + 1}}

\* What the guard sends is small unless no quality makes it so or PIL cannot open it; it
\* may be larger than what came.  The log takes what was sent as it is.
ASSUME SentIsSmall ==
    /\ \A i \in mcImgs : Looked(i) =>
          /\ Sent(i).len <= MaxSend \/ (i.len > MaxSend /\ i.jpeg[40] > MaxSend)
          /\ Sent([i EXCEPT !.opens = FALSE]) = [i EXCEPT !.opens = FALSE]
          /\ SniffFmt(Sent(i).head) \in {"jpeg", "png"} /\ StatusImage(Sent(i), EmbedMax, TRUE).img = Sent(i)
    /\ Sent(mcImg("png8", MaxSend + 1, MaxSend + 2)).len > MaxSend + 1
    /\ Sent(mcImg("png8", MaxSend + 1, MaxSend)).len = MaxSend

\* Two sniffers differ: a broken PNG is none for the guard and one for the reader, which
\* is sent what is neither as a PNG, too.
ASSUME SniffersDiffer ==
    /\ \A i \in mcImgs : \A pil, opens \in BOOLEAN :
          LET out == ForReading([i EXCEPT !.opens = opens], pil)
          IN /\ Mime(out.head) = out.as /\ (Looked(i) => out.head = i.head)
             /\ (~pil \/ ~opens => out.head = i.head) /\ (pil /\ opens => out.as \in {"jpeg", "png"})
    /\ {h \in mcHeads : SniffFmt(h) = "other" /\ Mime(h) = "png"} = {"png4", "riff"}
    /\ {h \in mcHeads : SniffFmt(h) # Mime(h) /\ SniffFmt(h) # "other"} = {}

\* The hash has 49 bits, not 64, less than half of them set, and one value for all
\* images of one colour.
ASSUME HashIsHalf ==
    /\ PHashBits = 49
    /\ \A v \in [1 .. 5 -> 0 .. 3] :
          /\ Cardinality({i \in 1 .. 5 : PHash(v)[i]}) <= 2
          /\ (\A i \in 1 .. 5 : ~PHash(v)[i]) <=> Cardinality({i \in 1 .. 5 : v[i] = (CHOOSE m \in {v[j] : j \in 1 .. 5} : \A j \in 1 .. 5 : v[j] <= m)}) >= 3

\* An image for the log that no step makes small enough is kept as it is; one that is
\* small keeps its bytes, a WEBP under the name of a JPEG.
ASSUME LogImageIsNamed ==
    \A i \in mcImgs : \A max \in {10, 100, MaxSend} :
        LET out == StatusImage(i, max, TRUE)
            least == i.small[<<2, 30>>]
        IN /\ out.img.len <= max \/ (out.img = i /\ least > max)
           /\ out.img # i => out.img.head = "jpeg3" /\ out.name = "lpg_lucky.jpg"
           /\ i.len <= max => out.img = i /\ (out.name = "lpg_lucky.png" <=> i.head = "png8")
           /\ i.len > max /\ i.small[<<1, 85>>] <= max => out.img.len = i.small[<<1, 85>>]
           /\ StatusImage(i, max, FALSE).img = i

\* Only what says it is lucky, or says nothing, gets into the memory thread.
mcFields == UNION {[1 .. n -> [name : {"result", "score"}, value : {"lucky", "not lucky", "cross"}]] : n \in 0 .. 2}
ASSUME MemoryIsLucky ==
    \A f \in mcFields : \A image \in BOOLEAN : \A works \in SUBSET {"file", "plain"} :
        LET sent == PostStatus(f, image, works)
        IN /\ sent # "nothing" => sent \in works /\ \A i \in DOMAIN f :
                  f[i].name = "result" /\ NotLucky(f[i].value) => \E j \in 1 .. i - 1 : f[j].name = "result"
           /\ sent = "file" => image
           /\ IsLuckyLog(f) /\ "plain" \in works => sent # "nothing"

\* Settings by their first name that is set; a tone nobody knows is soft.
ASSUME SettingsFallBack ==
    /\ \A set \in {<<>>, "LUCKYPULL_GUARD_CHANNELS" :> <<"7">>,
                   ("LPG_GUARD_CHANNELS" :> <<"8", "bad">>) @@ ("LUCKYPULL_GUARD_CHANNELS" :> <<"7">>)} :
          GuardIds(set) = IF set = <<>> THEN {} ELSE IF Cardinality(DOMAIN set) = 1 THEN {"7"} ELSE {"8"}
    /\ GuardIds(("LPG_GUARD_CHANNELS" :> <<"bad">>) @@ ("LUCKYPULL_GUARD_CHANNELS" :> <<"7">>)) = {}
    /\ InGuard({"7"}, "1", "7") /\ InGuard({"7"}, "7", "0") /\ ~InGuard({"0"}, "1", "0")
    /\ \A t \in {"soft", "agro", "sharp", "harsh", "calm", "x"} : Tone(Tone(t)) = Tone(t)
    /\ Tone("hard") = "agro" /\ Tone("x") = "soft"

\* The words of the configuration's list come back with quotes and brackets: not one of
\* them can be found in a text, only those of the file.
mcList == [kind |-> "list", items |-> <<"loadout", "shop">>, pieces |-> <<"['loadout'", "'shop']">>]
mcFile == <<[text |-> "shop", comment |-> FALSE], [text |-> "", comment |-> FALSE], [text |-> "# x", comment |-> TRUE]>>
ASSUME InlineListIsLost ==
    /\ ToSet(NegText(mcList, <<>>)) = {"loadout", "shop"} /\ NegText(mcList, mcFile) = <<"loadout", "shop">>
    /\ ToSet(NegText(Exported(mcList), <<>>)) \intersect {"loadout", "shop"} = {}
    /\ NegText(Exported(mcList), mcFile) = <<"['loadout'", "'shop']", "shop">>
    /\ NegText([mcList EXCEPT !.kind = "object"], <<>>) = mcList.pieces /\ NegText([mcList EXCEPT !.kind = "unset"], mcFile) = <<"shop">>
    /\ NegTokens(<<"t1", "sho">>, ("t1" :> 2) @@ ("sho" :> 3), 3) = <<"sho">>
    /\ Exported([mcList EXCEPT !.kind = "plain"]).kind = "plain"

\* The reader of images never uses the translator's key; the old names count only if
\* none of the new ones is set.
mcKeyNames == {"LPG_API_KEYS", "LPG_API_KEY", "LPG_API_KEY_B", "GEMINI_API_KEYS", "GEMINI_API_KEY", "TRANSLATE_GEMINI_API_KEY"}
ASSUME KeysOfOneSource ==
    /\ \A set \in SUBSET mcKeyNames :
          LET keys == OcrKeys(set)
          IN /\ keys \subseteq set \ {"TRANSLATE_GEMINI_API_KEY"} /\ (keys = {} => set \subseteq {"TRANSLATE_GEMINI_API_KEY"})
             /\ keys \intersect {"GEMINI_API_KEYS", "GEMINI_API_KEY"} # {} => set \intersect {"LPG_API_KEYS", "LPG_API_KEY", "LPG_API_KEY_B"} = {}
             /\ "LPG_API_KEYS" \in set => keys = {"LPG_API_KEYS"}
    /\ OcrModel({"GROQ_MODEL_VISION", "GROQ_MODEL_VISION_CANDIDATES"}) = "GROQ_MODEL_VISION" /\ OcrModel({}) = ""

\* A text is found if a key gives one and none before it times out; each refusal before it
\* makes the next key wait for the cool-down that is meant for all of them.
ASSUME SecondKeyWaits ==
    /\ \A n \in 0 .. 3 : \A answers \in [1 .. n -> {"429", "status", "text", "timeout", "empty"}] :
          LET run == OcrRun(answers)
          IN /\ run.ok <=> \E i \in 1 .. n : answers[i] = "text" /\ \A j \in 1 .. i : answers[j] # "timeout"
             /\ run.cools = Cardinality({i \in 1 .. run.asked : answers[i] = "429" /\ i # run.asked})
             /\ ~run.ok /\ run.asked < n => answers[run.asked] = "timeout"
    /\ GateOpens(10, Marked(10, 900)) = 910 /\ GateOpens(10, Marked(10, 0)) = 11 /\ GateOpens(1000, Marked(10, 900)) = 1000
-----------------------------------------------------------------------------
mcNote(n, lucky, signed, picture, ours) ==
    [id |-> n, ours |-> ours, embed |-> lucky # "none", lucky |-> lucky, print |-> IF signed THEN n ELSE 0,
     picture |-> picture, image |-> n, ts |-> 50 - n]
mcNotes(n) == {mcNote(n, k[1], k[2], w, k[3]) :
                  k \in {<<"lucky", TRUE, TRUE>>, <<"lucky", FALSE, TRUE>>, <<"not", FALSE, TRUE>>, <<"not", FALSE, FALSE>>, <<"none", FALSE, FALSE>>},
                  w \in {"ok", "big", "fails", "none"}}
mcThreads == {<<a, b>> : a \in mcNotes(1), b \in mcNotes(2)}
mcEmpty == [cache |-> EmptyCache, fp |-> {}, shared |-> {}, deny |-> {}, back |-> 0, signed |-> {}]
mcHome == [max |-> 0, scanLimit |-> 0, purgeLimit |-> 0, backfill |-> 9, render |-> FALSE, write |-> TRUE, now |-> 99]
mcBoot(t, c) == Bootstrap(t, c, mcEmpty)
mcKnown(st) == DOMAIN st.cache.entries

\* The purge takes away the bot's own logs of what is not lucky, within its limit, and no
\* other message.
ASSUME OnlyNotLuckyGoes ==
    \A t \in mcThreads : \A limit \in 0 .. 2 : \A stuck \in SUBSET {1, 2} :
        LET c == [mcHome EXCEPT !.purgeLimit = limit]
            left == Purge(t, c, stuck)
            gone == {n \in 1 .. 2 : t[n] \notin ToSet(left)}
        IN /\ gone = {n \in 1 .. 2 : t[n].lucky = "not" /\ t[n].ours /\ n \notin stuck /\ (limit = 0 \/ n <= limit)}
           /\ Purge(left, [c EXCEPT !.purgeLimit = 0, !.scanLimit = limit], stuck) = Purge(left, c, stuck)

\* What is learned from the thread can be unlearned by deleting it; but it is also a
\* member's picture, and that of a log that says it is not lucky and could not be deleted.
ASSUME ThreadIsMemory ==
    /\ \A t \in mcThreads : \A render \in BOOLEAN : \A most \in {0, 1, 9} :
          LET c == [mcHome EXCEPT !.render = render, !.backfill = most]
              st == mcBoot(t, c)
              cut == BulkDelete(st, {1})
          IN /\ mcKnown(st) = {p[2] : p \in st.fp} /\ st.back <= most
             /\ most = 9 => mcKnown(st) = {m.image : m \in {y \in ToSet(t) : y.print # 0 \/ y.picture = "ok" \/ (y.picture = "big" /\ ~render)}}
             /\ t[1].image \notin mcKnown(cut) /\ mcKnown(st) \ {t[1].image} = mcKnown(cut)
             /\ cut.deny = mcKnown(st) \ mcKnown(cut)
    /\ \E t \in mcThreads : 1 \in mcKnown(mcBoot(t, mcHome)) /\ ~t[1].ours
    /\ \E t \in mcThreads : 1 \in mcKnown(mcBoot(Purge(t, mcHome, {1}), mcHome)) /\ t[1].lucky = "not"

\* The signature that the first start writes saves the second one the download, except
\* that of a member's picture.
ASSUME SecondStartIsFree ==
    \A t \in mcThreads :
        LET first == mcBoot(t, mcHome)
            second == mcBoot(Signed(t, first), mcHome)
        IN /\ mcKnown(first) = mcKnown(second) /\ second.back = Cardinality({m \in ToSet(t) : ~m.ours /\ m.picture \in {"ok", "big"}})
           /\ Signed(t, mcBoot(t, [mcHome EXCEPT !.write = FALSE])) = t

\* What the scan did not reach is not unlearned by its deletion.  Over the cache's limit
\* the newest logs stay, but one whose picture was downloaded passes for the newest.
mcThree(signed) == <<mcNote(1, "lucky", TRUE, "ok", TRUE), mcNote(2, "lucky", TRUE, "ok", TRUE), mcNote(3, "lucky", signed, "ok", TRUE)>>
ASSUME LimitForgets ==
    /\ LET st == mcBoot(mcThree(TRUE), [mcHome EXCEPT !.scanLimit = 2]) IN BulkDelete(st, {3}) = st
    /\ mcKnown(mcBoot(mcThree(TRUE), [mcHome EXCEPT !.max = 2])) = {1, 2}
    /\ mcKnown(mcBoot(mcThree(FALSE), [mcHome EXCEPT !.max = 2])) = {1, 3}
    /\ \A render \in BOOLEAN : LET d == Defaults(render)
                              IN /\ d.max > 0 => 0 < d.scanLimit /\ d.scanLimit <= d.max
                                 /\ d.write = ~render
                                 /\ Weekly(d, TRUE) = ~render
                                 /\ ~Weekly(d, FALSE)

\* Several deletions at once are those one by one; a log the overlay has forgotten is
\* found in the shared map.  A second log of an unlearned image stays without effect.
ASSUME BulkIsSingles ==
    LET one == [mcNote(1, "lucky", TRUE, "ok", TRUE) EXCEPT !.print = 3]
        two == mcNote(2, "lucky", TRUE, "ok", TRUE)
        three == mcNote(3, "lucky", TRUE, "ok", TRUE)
        st == Noted(mcBoot(<<one, two, three>>, mcHome), two)
    IN /\ \A ids \in SUBSET (1 .. 4) : \A n \in ids : BulkDelete(BulkDelete(st, ids \ {n}), {n}).deny = BulkDelete(st, ids).deny
       /\ BulkDelete(st, {4}) = st /\ mcKnown(BulkDelete(st, {1})) = {2} /\ BulkDelete([st EXCEPT !.fp = {}], {1, 2}).deny = {2}
       /\ BulkDelete(st, {2}).shared = st.shared /\ Noted(mcEmpty, mcNote(1, "lucky", FALSE, "ok", TRUE)) = mcEmpty
-----------------------------------------------------------------------------
mcPost(n) == [id |-> n, pictures |-> <<"a">>]
mcDb(shape, items) == [shape |-> shape, items |-> items]
mcStart == mcDb("missing", <<>>)
mcFull == [n \in 1 .. 4 |-> mcPost(n)]

\* The list only grows and has no picture twice, whatever fails on the way; it is begun
\* again only after a file that cannot be read or holds no list.
ASSUME ListOnlyGrows ==
    \A shape \in {"missing", "broken", "wrong", "list", "other key", "attachments"} : \A upTo, limit \in 0 .. 4 : \A writable \in BOOLEAN :
        LET old == mcDb(shape, IF shape = "missing" THEN <<>> ELSE <<<<1, "a">>, <<9, "z">>>>)
            pass == IngestOnce(old, mcFull, limit, upTo, writable)
            items == LoadDb(pass.db)
        IN /\ ~pass.dies /\ IsInjective(items) /\ SubSeq(items, 1, Len(LoadDb(old))) = LoadDb(old)
           /\ ~writable => pass.db = old
           /\ writable => \A n \in 1 .. 4 : n <= limit /\ n <= upTo => <<n, "a">> \in ToSet(items)
           /\ \A n \in 2 .. 4 : n > limit \/ n > upTo => <<n, "a">> \notin ToSet(items)
           /\ writable => (<<9, "z">> \in ToSet(items) <=> shape \in {"list", "other key", "attachments"})

\* The oldest messages are read: once the thread is longer than the limit, no later one is
\* ever listed, however often the thread is read.
ASSUME NewestIsNeverListed ==
    \A limit \in 0 .. 3 :
        LET pass(db) == IngestOnce(db, mcFull, limit, 9, TRUE).db
        IN pass(pass(pass(mcStart))) = pass(mcStart) /\ <<4, "a">> \notin ToSet(LoadDb(pass(mcStart)))

\* One item that is no object stops the first pass and all later ones.
ASSUME JunkStopsAll ==
    /\ \A shape \in {"list", "attachments", "broken"} :
          LET pass == IngestOnce(mcDb(shape, <<<<"junk">>>>), mcFull, 9, 9, TRUE)
          IN pass.dies = (shape # "broken") /\ Periodic(pass.dies, 900) = (shape = "broken")
    /\ ~Periodic(FALSE, 0)

\* Without the parent channel not even an active thread is found by its name.
ASSUME ParentIsNeeded ==
    /\ ResolveThread("t", TRUE, <<>>, <<>>) = "t" /\ ResolveThread("", FALSE, <<>>, <<"b">>) = "b"
    /\ ResolveThread("", FALSE, <<"a">>, <<"b">>) = "a" /\ ResolveThread("", TRUE, <<"a">>, <<"b">>) = ""
=============================================================================
