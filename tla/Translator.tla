----------------------------- MODULE Translator -----------------------------
(***************************************************************************)
(* nixe/cogs/c20_translate_commands.py: the context menus (translate, with *)
(* its variants for one language, and reverse image search), the text      *)
(* command, and the registration of the menus per guild.  A request is one *)
(* coroutine over Discord, the model (Gemini) and the offline dictionary;  *)
(* each step ends at an await.  What the texts say is left out: a request  *)
(* has a shape (its images, the chunks of its text).                       *)
(***************************************************************************)
EXTENDS DictStore

CONSTANTS
    Shape,   \* of each request: its command, user, language, images, chunks; short: the
             \* dictionary is asked first, of the text or, to Japanese, of each of its words
    Plans,   \* what may come up in a run: requests, joins, an upload, restarts
    Guilds, Home

Commands == {"translate", "text", "reverse"}

ASSUME ShapeAssumption ==
    /\ \A r \in Calls :
          /\ Shape[r].cmd \in Commands /\ Shape[r].asks \in BOOLEAN
          /\ Shape[r].images \in Nat /\ Shape[r].chunks \in Nat
          /\ Shape[r].dual \in BOOLEAN /\ Shape[r].short \in BOOLEAN
    /\ \A p \in Plans : /\ p.requests \subseteq Calls /\ p.joins \subseteq Guilds
                         /\ p.uploads \in BOOLEAN /\ p.boots \in 0..MaxBoots
                         /\ p.settled \in BOOLEAN  \* the menus are registered already
    /\ Home \in Guilds

VARIABLES
    plan,
    pc,        \* of each request: where it is
    cooling,   \* pairs of a user and a cooldown that runs (_last_call, _last_call_rev)
    override,  \* _target_overrides, by interaction
    lang,      \* the language a request translates to: "asked", "default"
    images,    \* the images it has still to read, then to translate
    kept,      \* the images it read
    seen,      \* image_blocks: "none", "failed", or "ok" (image_any_ok)
    chunks,    \* the chunks of text it has still to translate
    dual,      \* two styles at once (Japanese, Korean, Chinese)
    verdict,   \* the last message is a "result", or says "same": the text is in that
               \* language already, or "none": there is no text
    said,      \* history: replies that reached Discord
    told,      \* history: what they said
    unheard,   \* history: of those, the ones whose answer was lost
    upset,     \* history: a send or the deferral raised
    word,      \* history: the model's last word on the text: "error", "same" (the text
               \* itself, or nothing), "new"
    guilds, registered,
    task,      \* the registration task: "none", "ready", "global", "sync"
    gids,      \* the guilds it has still to sync
    served,    \* history: guilds that have the menus
    missed     \* history: guilds that joined when the task had its list already

replies == <<said, told, unheard, upset, word>>
request == <<pc, cooling, override, lang, images, kept, seen, chunks, dual, verdict, replies>>
menus == <<guilds, registered, task, gids, served, missed>>
vars == <<plan, request, menus, dict, faults, boots>>

Init ==
    /\ DictInit /\ faults = 0 /\ boots = 0
    /\ plan \in Plans
    /\ pc = [r \in Calls |-> IF r \in plan.requests THEN "off" ELSE "done"]
    /\ cooling = {} /\ override = [r \in Calls |-> FALSE]
    /\ lang = [r \in Calls |-> None]
    /\ images = [r \in Calls |-> Shape[r].images] /\ kept = [r \in Calls |-> 0]
    /\ seen = [r \in Calls |-> "none"]
    /\ chunks = [r \in Calls |-> Shape[r].chunks] /\ dual = [r \in Calls |-> Shape[r].dual]
    /\ verdict = [r \in Calls |-> "result"]
    /\ said = [r \in Calls |-> 0] /\ told = [r \in Calls |-> {}]
    /\ unheard = [r \in Calls |-> 0] /\ upset = [r \in Calls |-> FALSE]
    /\ word = [r \in Calls |-> None]
    /\ guilds = {Home} /\ registered = plan.settled /\ task = "none" /\ gids = {}
    /\ served = IF plan.settled THEN {Home} ELSE {}
    /\ missed = {}

-----------------------------------------------------------------------------
Goto(r, where) == pc' = [pc EXCEPT ![r] = where]

\* faulty variant: what was sent is sent the other way too
SendAgain(r, what, onError) ==
    /\ Goto(r, onError) /\ UNCHANGED <<unheard, upset, word, faults>>
    /\ said' = [said EXCEPT ![r] = @ + 1] /\ told' = [told EXCEPT ![r] = @ \union {what}]

\* A message to the user: delivered; not sent, or sent and the answer lost, which both
\* raise and lead elsewhere.
Send(r, what, onError) ==
    /\ \/ /\ Goto(r, "done") /\ UNCHANGED <<unheard, upset, faults>>
          /\ said' = [said EXCEPT ![r] = @ + 1] /\ told' = [told EXCEPT ![r] = @ \union {what}]
       \/ /\ Spend("answer") /\ Goto(r, onError)
          /\ unheard' = [unheard EXCEPT ![r] = @ + 1] /\ upset' = [upset EXCEPT ![r] = TRUE]
          /\ said' = [said EXCEPT ![r] = @ + 1] /\ told' = [told EXCEPT ![r] = @ \union {what}]
       \/ /\ Spend("send") /\ Goto(r, onError)
          /\ upset' = [upset EXCEPT ![r] = TRUE] /\ UNCHANGED <<said, told, unheard>>
    /\ UNCHANGED word

Silent == UNCHANGED <<replies, faults>>

Work == <<images, kept, seen, chunks, dual, verdict>>

NoDict == UNCHANGED dict

Clock(r) == <<Shape[r].user, IF Shape[r].cmd = "text" THEN "text" ELSE "rev">>

Interaction(r) == r

\* The variants note their language first; then the cooldown, which the two menus share.
\* A text command in its cooldown is not answered.
Invoke(r) ==
    /\ pc[r] = "off"
    /\ override' = IF Shape[r].asks THEN [override EXCEPT ![Interaction(r)] = TRUE] ELSE override
    /\ IF Clock(r) \in cooling
       THEN Goto(r, IF Shape[r].cmd = "text" THEN "done" ELSE "busy") /\ UNCHANGED cooling
       ELSE /\ cooling' = cooling \union {Clock(r)}
            /\ Goto(r, IF Shape[r].cmd # "text" THEN "defer"
                       ELSE IF Shape[r].chunks = 0 THEN "empty" ELSE "ask")
    /\ Silent /\ UNCHANGED <<lang, Work>> /\ NoDict

\* An end of a cooldown that no request can notice is left out.
Cool(c) ==
    /\ c \in cooling /\ (\E r \in Calls : pc[r] = "off" /\ Clock(r) = c)
    /\ cooling' = cooling \ {c}
    /\ UNCHANGED <<pc, override, lang, Work>> /\ Silent /\ NoDict

\* A deferral that fails ends the request; the image search answers a rate limit.
Defer(r) ==
    /\ pc[r] = "defer"
    /\ \/ Goto(r, "fetch") /\ Silent
       \/ /\ Spend("defer") /\ upset' = [upset EXCEPT ![r] = TRUE]
          /\ \/ Goto(r, "done")
             \/ Shape[r].cmd = "reverse" /\ Goto(r, "busy")
          /\ UNCHANGED <<said, told, unheard, word>>
    /\ UNCHANGED <<cooling, override, lang, Work>> /\ NoDict

\* The message is fetched again, or used as delivered; then the language is settled and
\* the request takes the way of its shape.
Way(r) ==
    IF Shape[r].cmd = "reverse" THEN IF Shape[r].images = 0 THEN "empty" ELSE "final"
    ELSE IF Shape[r].images > 0 THEN "read"
    ELSE IF Shape[r].chunks = 0 THEN "empty"
    ELSE IF Shape[r].short THEN "dict" ELSE "model"

Fetch(r) ==
    /\ pc[r] = "fetch" /\ Goto(r, Way(r))
    /\ IF Shape[r].cmd = "translate"
       THEN /\ lang' = [lang EXCEPT ![r] = IF override[Interaction(r)] THEN "asked" ELSE "default"]
            /\ override' = [override EXCEPT ![Interaction(r)] = FALSE]
       ELSE UNCHANGED <<lang, override>>
    /\ IF Way(r) = "dict"
       THEN Begin(r) /\ UNCHANGED <<remote, drive, hasIndex, index, store, torn>>
       ELSE NoDict
    /\ Silent /\ UNCHANGED <<cooling, Work>>

\* faulty variant: an error of the dictionary is not caught
Uncaught(r) ==
    /\ pc[r] = "dict" /\ at[r] = "done"
    /\ Goto(r, CASE ans[r] = "hit" -> "hit" [] ans[r] = "miss" -> "model" [] OTHER -> "done")
    /\ Silent /\ UNCHANGED <<cooling, override, lang, Work>> /\ NoDict

\* The dictionary's answer, if it has one; all that fails here leads to the model, unless the
\* sentence can be put together from the dictionary's words (for Japanese only).
Looked(r) ==
    /\ pc[r] = "dict" /\ at[r] = "done"
    /\ Goto(r, "hit") \/ (ans[r] # "hit" /\ Goto(r, "model"))
    /\ Silent /\ UNCHANGED <<cooling, override, lang, Work>> /\ NoDict

\* faulty variant: both tries count
ReadTwice(r) ==
    /\ pc[r] = "read" /\ images' = [images EXCEPT ![r] = @ - 1]
    /\ kept' = [kept EXCEPT ![r] = @ + 2]
    /\ Goto(r, IF images'[r] > 0 THEN "read" ELSE "vision")
    /\ Silent /\ UNCHANGED <<cooling, override, lang, seen, chunks, dual, verdict>> /\ NoDict

\* Each image is read, at a second try from its address, and then put to the model.
Read(r) ==
    /\ pc[r] = "read" /\ images' = [images EXCEPT ![r] = @ - 1]
    /\ kept' \in {kept, [kept EXCEPT ![r] = @ + 1]}
    /\ Goto(r, IF images'[r] > 0 THEN "read"
               ELSE IF kept'[r] > 0 THEN "vision"
               ELSE IF Shape[r].chunks = 0 THEN "empty" ELSE "model")
    /\ Silent /\ UNCHANGED <<cooling, override, lang, seen, chunks, dual, verdict>> /\ NoDict

\* What Gemini may answer: nothing in time, an error status, text that is not JSON, JSON
\* with empty fields, the source text unchanged, or a translation.
Reply == {"raised", "status", "prose", "blank", "unchanged", "translated"}

\* _translate_image_gemini looks at no status: what is no JSON is taken as the text, what
\* is empty as an image without text.
ImageOk(reply) == reply # "raised"

\* An image that failed leaves a block in the reply, too.
Vision(r) ==
    /\ pc[r] = "vision" /\ kept' = [kept EXCEPT ![r] = @ - 1]
    /\ \E reply \in Reply :
          seen' = [seen EXCEPT ![r] = IF ImageOk(reply) \/ @ = "ok" THEN "ok" ELSE "failed"]
    /\ Goto(r, IF kept'[r] > 0 THEN "vision"
               ELSE IF Shape[r].chunks = 0 THEN "final" ELSE "model")
    /\ Silent /\ UNCHANGED <<cooling, override, lang, images, chunks, dual, verdict>> /\ NoDict

\* The text came back as it was, or a translation was lost: "already in that language",
\* unless an image's block stands in for it.
Same(r) ==
    verdict' \in {[verdict EXCEPT ![r] = v] : v \in {"same"} \union {w \in {"result"} : seen[r] = "ok"}}

Failed(reply) == reply \in {"raised", "status"}

\* _gemini_translate_text asks once more, strictly, when the answer looks untranslated; a
\* second request that fails leaves the first answer.
Single(first, second) == IF first = "unchanged" /\ ~Failed(second) THEN second ELSE first

\* One style.  Several chunks are put together with other line breaks than they were cut
\* at and never equal the text.
Shown(r, reply) ==
    UNCHANGED verdict \/ (Shape[r].chunks = 1 /\ reply = "unchanged" /\ Same(r))

\* The helpers for two styles; a reply that is not JSON is the formal style.
Styles(reply) == IF reply = "blank" THEN {} ELSE {"formal"}

\* The styles of all chunks become fields, added after the blocks were packed: without the
\* block of an image there is nothing to pack and the user reads that there is no text.
\* Styles that are all empty count as a text that came back unchanged.
Styled(r, reply) ==
    \E styles \in {Styles(reply)} \union {S \in {{"formal"}} : Shape[r].chunks > 1} :
        verdict' = [verdict EXCEPT ![r] = IF styles = {} THEN "same"
                                          ELSE IF seen[r] = "none" THEN "none" ELSE "result"]

Heard(r, reply) ==
    word' = [word EXCEPT ![r] = IF Failed(reply) THEN "error"
                                ELSE IF reply \in {"unchanged", "blank"} THEN "same" ELSE "new"]

\* Chunk by chunk.  Two styles fall back to the whole text at once in one style, and
\* after that the chunks are translated all the same; one style gives up.
Model(r) ==
    /\ pc[r] = "model" /\ UNCHANGED <<faults, said, told, unheard, upset>>
    /\ \E first, second \in Reply :
          LET reply == IF dual[r] THEN first ELSE Single(first, second)
          IN /\ Heard(r, reply) /\ UNCHANGED dual
             /\ IF Failed(reply)
                THEN Goto(r, IF dual[r] THEN "whole" ELSE "sorry") /\ UNCHANGED <<chunks, verdict>>
                ELSE /\ chunks' = [chunks EXCEPT ![r] = @ - 1]
                     /\ IF chunks'[r] > 0 THEN UNCHANGED <<pc, verdict>>
                        ELSE /\ Goto(r, "final")
                             /\ IF dual[r] THEN Styled(r, reply) ELSE Shown(r, reply)
    /\ UNCHANGED <<cooling, override, lang, images, kept, seen>> /\ NoDict

Whole(r) ==
    /\ pc[r] = "whole" /\ UNCHANGED <<faults, said, told, unheard, upset>>
    /\ \E first, second \in Reply :
          LET reply == Single(first, second)
          IN /\ Heard(r, reply)
             /\ IF Failed(reply) THEN Goto(r, "sorry") /\ UNCHANGED <<chunks, dual>>
                ELSE /\ Goto(r, "model") /\ dual' = [dual EXCEPT ![r] = FALSE]
                     /\ chunks' = [chunks EXCEPT ![r] = Shape[r].chunks]
    /\ UNCHANGED <<cooling, override, lang, images, kept, seen, verdict>> /\ NoDict

\* faulty variant: the error is swallowed
Quiet(r) ==
    /\ pc[r] = "sorry" /\ Goto(r, "final") /\ Same(r)
    /\ Silent /\ UNCHANGED <<cooling, override, lang, images, kept, seen, chunks, dual>> /\ NoDict

\* The model's error is sent; if that raises, the text is empty and counts as unchanged.
Sorry(r) ==
    /\ pc[r] = "sorry" /\ Send(r, "error", "final") /\ Same(r)
    /\ UNCHANGED <<cooling, override, lang, images, kept, seen, chunks, dual>> /\ NoDict

\* The text command: one request to the model, one answer, an apology if that raises.
Ask(r) ==
    /\ pc[r] = "ask" /\ UNCHANGED <<faults, said, told, unheard, upset>>
    /\ \E first, second \in Reply :
          LET reply == IF Shape[r].dual THEN first ELSE Single(first, second)
          IN Heard(r, reply) /\ Goto(r, IF Failed(reply) THEN "reason" ELSE "embed")
    /\ UNCHANGED <<cooling, override, lang, Work>> /\ NoDict

\* What is sent from where, and where a failure leads: _safe_followup_send tries the
\* channel after the interaction; the refusals and the apology are tried once.
Answer(r) ==
    /\ \/ pc[r] = "hit"    /\ Send(r, "hit", "model")
       \/ pc[r] = "final"  /\ Send(r, verdict[r], "last")
       \/ pc[r] = "last"   /\ Send(r, verdict[r], "done")
       \/ pc[r] = "empty"  /\ Send(r, "none", "done")
       \/ pc[r] = "busy"   /\ Send(r, "busy", "done")
       \/ pc[r] = "embed"  /\ Send(r, "result", "apology")
       \/ pc[r] = "reason" /\ Send(r, "error", "apology")
       \/ pc[r] = "apology" /\ Send(r, "error", "done")
    /\ UNCHANGED <<cooling, override, lang, Work>> /\ NoDict

Request(r) ==
    /\ \/ Defer(r) \/ Fetch(r) \/ Looked(r) \/ Read(r) \/ Vision(r) \/ Model(r) \/ Whole(r)
       \/ Sorry(r) \/ Ask(r) \/ Answer(r)
    /\ UNCHANGED <<plan, menus, boots>>

-----------------------------------------------------------------------------
\* on_ready and on_guild_join start the task unless it runs.
Schedule == task' = IF task = "none" THEN "ready" ELSE task

OnReady ==
    /\ ~registered /\ task = "none" /\ Schedule
    /\ UNCHANGED <<guilds, registered, gids, served, missed, dict, faults>>

\* faulty variant: not marked as dirty
JoinClean(g) ==
    /\ g \in plan.joins \ guilds
    /\ guilds' = guilds \union {g} /\ Schedule /\ Replace
    /\ missed' = IF task \in {"global", "sync"} THEN missed \union {g} ELSE missed
    /\ UNCHANGED <<registered, gids, served, faults>>

OnGuildJoin(g) ==
    /\ g \in plan.joins \ guilds
    /\ guilds' = guilds \union {g} /\ registered' = FALSE /\ Schedule /\ Replace
    /\ missed' = IF task \in {"global", "sync"} THEN missed \union {g} ELSE missed
    /\ UNCHANGED <<gids, served, faults>>

\* _ensure_registered: the list of guilds, the menus in the local tree, then a request
\* for all and one for each guild, whose failures are logged.
Snapshot ==
    /\ task = "ready"
    /\ IF registered THEN task' = "none" /\ UNCHANGED gids
       ELSE task' = "global" /\ gids' = guilds
    /\ UNCHANGED <<guilds, registered, served, missed, faults, dict>>

GlobalSync ==
    /\ task = "global" /\ task' = "sync"
    /\ UNCHANGED <<guilds, registered, gids, served, missed, faults, dict>>

Sync(g) ==
    /\ task = "sync" /\ g \in gids /\ gids' = gids \ {g}
    /\ \/ served' = served \union {g} /\ UNCHANGED faults
       \/ Spend("sync") /\ UNCHANGED served
    /\ IF gids = {g} THEN task' = "none" /\ registered' = TRUE ELSE UNCHANGED <<task, registered>>
    /\ UNCHANGED <<guilds, missed, dict>>

Registration ==
    /\ OnReady \/ Snapshot \/ GlobalSync \/ \E g \in Guilds : Sync(g)
    /\ UNCHANGED <<plan, request, boots>>

-----------------------------------------------------------------------------
\* The process dies: requests under way are lost, Discord keeps menus and guilds.
Restart ==
    /\ boots < plan.boots /\ boots' = boots + 1
    /\ DictRestart
    /\ pc' = [r \in Calls |-> IF pc[r] = "off" THEN "off" ELSE "done"]
    /\ cooling' = {} /\ override' = [r \in Calls |-> FALSE]
    /\ registered' = FALSE /\ task' = "none" /\ gids' = {} /\ missed' = {}
    /\ UNCHANGED <<plan, lang, Work, replies, guilds, served, faults>>

Outside ==
    /\ \/ \E r \in Calls : Invoke(r)
       \/ \E c \in cooling : Cool(c)
    /\ UNCHANGED <<plan, menus, boots>>

DictStep ==
    /\ \/ \E s \in 1..MaxStores : Download(s)
       \/ \E c \in Calls : Lookup(c)
       \/ plan.uploads /\ Publish /\ UNCHANGED faults
    /\ UNCHANGED <<plan, request, menus, boots>>

Next ==
    \/ Outside
    \/ \E r \in Calls : Request(r)
    \/ Registration
    \/ \E g \in Guilds : OnGuildJoin(g) /\ UNCHANGED <<plan, request, boots>>
    \/ DictStep
    \/ Restart

\* Requests are answered or time out, threads and coroutines run on, and Discord tells a
\* process that it is ready.
Fairness ==
    /\ \A r \in Calls : WF_vars(Request(r))
    /\ \A c \in Calls : WF_vars(Lookup(c) /\ UNCHANGED <<plan, request, menus, boots>>)
    /\ \A s \in 1..MaxStores : WF_vars(Download(s) /\ UNCHANGED <<plan, request, menus, boots>>)
    /\ WF_vars(Registration)

Spec == Init /\ [][Next]_vars /\ Fairness

-----------------------------------------------------------------------------
Waiting ==
    {"defer", "fetch", "dict", "hit", "read", "vision", "model", "whole", "sorry", "final",
     "last", "empty", "busy", "ask", "embed", "reason", "apology"}

\* Every variable has its type.
TypeOK ==
    /\ DictTypeOK /\ faults \in 0..MaxFaults /\ boots \in 0..MaxBoots
    /\ plan \in Plans /\ pc \in [Calls -> Waiting \union {"off", "done"}]
    /\ cooling \subseteq {Clock(r) : r \in Calls} /\ override \in [Calls -> BOOLEAN]
    /\ lang \in [Calls -> {"asked", "default", None}]
    /\ \A r \in Calls : /\ images[r] \in 0..Shape[r].images /\ kept[r] \in 0..Shape[r].images
                        /\ chunks[r] \in 0..Shape[r].chunks /\ said[r] \in Nat
                        /\ unheard[r] \in 0..said[r]
    /\ seen \in [Calls -> {"none", "failed", "ok"}] /\ dual \in [Calls -> BOOLEAN]
    /\ verdict \in [Calls -> {"result", "same", "none"}]
    /\ told \in [Calls -> SUBSET {"hit", "result", "same", "none", "busy", "error"}]
    /\ upset \in [Calls -> BOOLEAN] /\ word \in [Calls -> {"error", "same", "new", None}]
    /\ guilds \subseteq Guilds /\ registered \in BOOLEAN
    /\ task \in {"none", "ready", "global", "sync"} /\ gids \subseteq guilds
    /\ served \subseteq guilds /\ missed \subseteq guilds

\* A request is answered once, and once more at most for each answer Discord took and
\* the process did not hear of.
OneReply == \A r \in Calls : said[r] <= 1 + unheard[r]

\* "Already in the target language" is said only if the model's last answer was the text
\* itself or empty styles, or the message about its error could not be sent; "no text"
\* only of a message without text or for two styles, which are then lost; and a menu for
\* one language translates to it, the plain menu does not, whatever the user asks at the
\* same time.
Truthful ==
    /\ \A r \in Calls : "same" \in told[r] => word[r] = "same" \/ upset[r]
    /\ \A r \in Calls :
          "none" \in told[r] =>
              \/ Shape[r].chunks = 0
              \/ dual[r]
              \/ Shape[r].cmd = "reverse" /\ Shape[r].images = 0
    /\ \A r \in Calls : lang[r] # None => lang[r] = IF Shape[r].asks THEN "asked" ELSE "default"

\* A request that passed its cooldown is answered, whatever became of the dictionary, if
\* Discord takes what it sends and the process lives.
Answered == \A r \in Calls : pc[r] \in Waiting ~> said[r] > 0 \/ upset[r] \/ boots > 0

\* A guild the bot is in gets its menus, unless a request failed or the guild joined when
\* the task had made its list.
ServedUnlessMissed ==
    \A g \in Guilds : g \in guilds ~> g \in served \union missed \/ faults > 0
=============================================================================
