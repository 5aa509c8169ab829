----------------------------- MODULE Providers ------------------------------
(***************************************************************************)
(* How a verdict on an image is asked for: Groq for the Lucky Pull guard   *)
(* over its models and keys within a budget of time (helpers/              *)
(* gemini_bridge.py), what the cache hook makes of the answer, the cache   *)
(* itself (helpers/lpg_cache_memory.py), the dispatcher before the bridge  *)
(* (helpers/lpa_provider_bridge.py), and Groq for the phishing guards      *)
(* (helpers/groq_bridge.py).  LpgGuard, LpgMemory and Guards take the      *)
(* verdict for granted.                                                    *)
(*                                                                         *)
(* Times are milliseconds, scores hundredths.  What a request brings is    *)
(* the argument net.                                                       *)
(***************************************************************************)
EXTENDS Integers, Sequences, FiniteSets
LOCAL INSTANCE SequencesExt
LOCAL INSTANCE FiniteSetsExt
LOCAL INSTANCE TLC

Least(a, b) == Min({a, b})
Most(a, b) == Max({a, b})
NoTwice(s) == FoldLeft(LAMBDA out, x : IF \E i \in DOMAIN out : out[i] = x THEN out ELSE Append(out, x), <<>>, s)

-----------------------------------------------------------------------------
\* _env_keys_list: the first of the new list, the new single keys, the old list and the
\* old single keys that is set.  _env_models_list: primary, candidates, fallbacks.
KeysOf(env) ==
    LET set == SelectSeq(env.keys, LAMBDA s : s # <<>>)
    IN IF set = <<>> THEN <<>> ELSE NoTwice(set[1])

ModelsOf(env) == NoTwice(env.primary \o env.candidates \o env.fallbacks)

Default == 6000
PickTimeout(env) ==
    CASE env.perTry > 0 -> env.perTry
      [] env.perTry <= 0 /\ env.groqMs > 0 -> env.groqMs
      [] OTHER -> Default

\* 1.6 times the time of one attempt, and some more for further models and keys.
PickBudget(per, env, combos) ==
    IF env.total > 0 THEN Most(per, env.total)
    ELSE (per * 16) \div 10 + (IF combos > 1 THEN Least((per * (combos - 1)) \div 4, per * 2) ELSE 0)

\* _classify_lucky_pull_bytes_core fits both into the guard's time-out, outer; the
\* variant for suspicious attachments does not.
Fitted(per, total, outer) ==
    IF outer > 0 THEN [per |-> Least(per, Most(2500, outer - 900)), total |-> Least(total, Most(3000, outer - 400))]
    ELSE [per |-> per, total |-> total]

Budgets(env, fit) ==
    LET per == PickTimeout(env)
        total == PickBudget(per, env, Len(ModelsOf(env)) * Len(KeysOf(env)))
        b == IF fit THEN Fitted(per, total, env.outer) ELSE [per |-> per, total |-> total]
    IN [b EXCEPT !.total = Most(3000, @)]

\* The guard's side: _sync_groq_budget_env, and the time-out of its second try.
GuardEnv(env, t) ==
    LET total == Most(3000, t - 500)
    IN [env EXCEPT !.total = total, !.perTry = Most(2800, Least(total - 300, total - 1000))]
SecondTimeout(t, cap) == Least(Most(2 * t, t + 2000), cap)

-----------------------------------------------------------------------------
\* A reply: a verdict, with a reason in the model's own words, or why there is none.
Reply(lucky, score, reason, took) == [lucky |-> lucky, score |-> score, reason |-> reason, took |-> took]
Failure(reason, took) == Reply(FALSE, 0, reason, took)

\* trouble: the model's words contain "timeout" or "error".
Transient(r) == r.reason \in {"timeout", "error", "parse_error", "trouble"}

\* _classify_one: a Gemini model is not asked; the request is given up after limit.
Asked(model, key, limit, net) ==
    CASE model \in net.gemini -> Failure("gemini_model_disallowed", 0)
      [] model \notin net.gemini /\ net.replies[model, key].took > limit -> Failure("timeout", limit)
      [] OTHER -> net.replies[model, key]

Combos(models, keys) ==
    [i \in 1 .. Len(models) * Len(keys) |->
        <<models[((i - 1) \div Len(keys)) + 1], keys[((i - 1) % Len(keys)) + 1]>>]

\* One turn of the loop over models and keys; remaining: the attempt is cut to what is
\* left of the budget, though never below 1.5 s.
Try(st, combo, b, remaining, net) ==
    LET limit == IF remaining THEN Least(b.per, Most(1500, b.total - st.now)) ELSE b.per
        r == Asked(combo[1], combo[2], limit, net)
        settled == (r.lucky /\ r.score >= 90) \/ ~Transient(r)
    IN CASE st.done -> st
         [] ~st.done /\ st.now > b.total -> [st EXCEPT !.done = TRUE, !.reply = Failure("timeout_total_budget", 0)]
         [] OTHER -> [done |-> settled, now |-> st.now + r.took, tried |-> st.tried + 1,
                      reply |-> IF settled THEN r ELSE [r EXCEPT !.lucky = FALSE, !.score = 0]]

Loop(models, keys, b, remaining, net) ==
    FoldLeft(LAMBDA st, c : Try(st, c, b, remaining, net),
             [done |-> FALSE, now |-> 0, tried |-> 0, reply |-> Failure("no_attempt", 0)], Combos(models, keys))

None0 == [done |-> TRUE, now |-> 0, tried |-> 0, reply |-> Failure("no_api_key", 0)]

Core(env, net) ==
    CASE KeysOf(env) = <<>> -> None0
      [] KeysOf(env) # <<>> /\ ModelsOf(env) = <<>> -> [None0 EXCEPT !.reply.reason = "no_groq_model"]
      [] OTHER -> Loop(ModelsOf(env), KeysOf(env), Budgets(env, TRUE), TRUE, net)

\* _shrink_for_gemini: at most ten lower qualities; the last one if none is small enough.
\* sizes: the bytes at each quality.
Quality(start, i) == FoldLeft(LAMBDA q, j : Most(30, q - 8), Most(40, Least(92, start)), [j \in 1 .. i |-> j])
Shrunk(size, max, start, sizes) ==
    LET small == {i \in 0 .. 9 : sizes[Quality(start, i)] <= max}
    IN CASE size <= max -> size
         [] size > max /\ small # {} -> sizes[Quality(start, Min(small))]
         [] OTHER -> sizes[Quality(start, 9)]

\* _classify_lucky_pull_bytes_suspicious_core: a small image goes to the second key first.
Suspicious(env, small, net) ==
    LET keys == NoTwice((IF small THEN env.second ELSE <<>>) \o KeysOf(env))
        models == IF ModelsOf(env) = <<>> THEN env.standard ELSE ModelsOf(env)
    IN IF keys = <<>> THEN None0 ELSE Loop(models, keys, Budgets(env, FALSE), FALSE, net)

\* lpa_provider_bridge: the first provider whose entry point answers anything; what a
\* failed request answers is a number, too.
Dispatch(order, probs) ==
    LET answered == SelectSeq(order, LAMBDA p : p \in DOMAIN probs)
    IN IF answered = <<>> THEN [prob |-> 0, via |-> "provider_unavailable"]
       ELSE [prob |-> Most(0, Least(100, probs[answered[1]])), via |-> answered[1]]
ProbOf(r) == IF r.lucky THEN r.score ELSE 0  \* _call_to_prob

\* The shield's own time-out, where it is enabled.
SoftTimeout(outer, margin) ==
    LET soft == Most(3000, outer - Most(200, margin))
    IN IF soft >= outer THEN Most(500, outer - 200) ELSE soft

-----------------------------------------------------------------------------
\* The cache hook behind it.  Of the bridge's reasons only those that come without a
\* provider ("none") count as errors.
Errorish(r) == r.reason \in {"no_api_key", "no_groq_model", "gemini_model_disallowed"}

\* Denied: nobody is asked.  An error: a lucky entry of the cache answers, and nothing
\* is stored; everything else is.
Hook(denied, entry, r) ==
    LET rescue == Errorish(r) /\ entry # <<>> /\ entry[1].ok /\ entry[1].score >= 90
    IN CASE denied -> [lucky |-> FALSE, cached |-> FALSE, via |-> "unlearn_deny"]
         [] ~denied /\ rescue -> [lucky |-> TRUE, cached |-> FALSE, via |-> "cache"]
         [] OTHER -> [lucky |-> r.lucky, cached |-> ~Errorish(r), via |-> "provider"]

-----------------------------------------------------------------------------
\* lpg_cache_memory: entries by sha1, and an index from average hash to the list of sha1.
\* The hash 0 stands for none.
EmptyCache == [entries |-> <<>>, index |-> <<>>]
ListAt(c, ah) == IF ah \in DOMAIN c.index THEN c.index[ah] ELSE <<>>
Without(f, k) == [x \in DOMAIN f \ {k} |-> f[x]]

IndexAdd(c, sha, ah) ==
    IF ah = 0 THEN c ELSE [c EXCEPT !.index = [a \in {ah} |-> Append(ListAt(c, ah), sha)] @@ @]
IndexRemove(c, sha, ah) ==
    LET left == RemoveFirst(ListAt(c, ah), sha)
    IN [c EXCEPT !.index = IF left = <<>> THEN Without(@, ah) ELSE [a \in {ah} |-> left] @@ @]

RemoveSha(c, sha) ==
    IF sha \notin DOMAIN c.entries THEN c
    ELSE [IndexRemove(c, sha, c.entries[sha].ah) EXCEPT !.entries = Without(@, sha)]

\* _evict_if_needed: the oldest tenth, at least one.
Evict(c, max) ==
    LET n == Cardinality(DOMAIN c.entries)
        oldest == SetToSortSeq(DOMAIN c.entries, LAMBDA s, t : c.entries[s].ts < c.entries[t].ts)
    IN IF max <= 0 \/ n <= max THEN c
       ELSE FoldLeft(RemoveSha, c, SubSeq(oldest, 1, Most(1, n \div 10)))

\* upsert_entry, put.
Upsert(c, sha, entry, max) ==
    LET cleared == IF sha \in DOMAIN c.entries THEN IndexRemove(c, sha, c.entries[sha].ah) ELSE c
        put == [cleared EXCEPT !.entries = [s \in {sha} |-> entry] @@ @]
    IN Evict(IndexAdd(put, sha, entry.ah), max)

\* get_similar: the first of the same hash, else the nearest if it is near enough.
Similar(c, ah, maxDist, dist) ==
    LET same == SelectSeq(ListAt(c, ah), LAMBDA s : s \in DOMAIN c.entries)
        hashed == {s \in DOMAIN c.entries : c.entries[s].ah # 0}
        d == Min({dist[ah, c.entries[s].ah] : s \in hashed})
    IN CASE ah = 0 \/ hashed = {} -> {}
         [] ah # 0 /\ hashed # {} /\ same # <<>> -> {same[1]}
         [] OTHER -> IF d <= maxDist THEN {s \in hashed : dist[ah, c.entries[s].ah] = d} ELSE {}

\* register_msgid_fp: of the logs known by message the oldest tenth goes over the cap.
FpCap(max) == IF max > 0 THEN Most(5000, 2 * max) ELSE 50000
Register(known, mid, cap) ==
    LET moved == Append(SelectSeq(known, LAMBDA m : m # mid), mid)
    IN IF Len(moved) > cap THEN SubSeq(moved, Most(1, cap \div 10) + 1, Len(moved)) ELSE moved

-----------------------------------------------------------------------------
\* classify_phish_image of groq_bridge: the URL in several variants, unless Discord hosts
\* it, then the bytes, then the context alone.  A request ends "phish", "clean",
\* "garbage" (no JSON) or "fail"; the verdict of a silent provider is 1.
Phish(outcome) == IF outcome = "phish" THEN 1 ELSE 0

ClassifyPhish(client, urls, discord, hasBytes, net) ==
    LET tries == (IF discord THEN <<>> ELSE urls)
                 \o (IF hasBytes \/ (urls # <<>> /\ net["download"] # "fail") THEN <<"data">> ELSE <<>>)
                 \o <<"text">>
        heard == SelectSeq(tries, LAMBDA t : net[t] # "fail")
    IN IF ~client \/ heard = <<>> THEN [phish |-> 1, by |-> "stub"]
       ELSE [phish |-> Phish(net[heard[1]]), by |-> heard[1]]
=============================================================================
