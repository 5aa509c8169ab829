------------------------------- MODULE Guards -------------------------------
(***************************************************************************)
(* The guards that judge a message on their own, side by side: firewall,   *)
(* mention-everyone autoban, suspicious attachments and their hardener,    *)
(* crypto-casino guard and the Groq guard (on a post and on its edit).     *)
(* They share Discord, the evidence a guard records before it bans, which  *)
(* the ban log shows, and Groq.  nixe/cogs/a00_first_touchdown_firewall,   *)
(* a00_everyone_spam_autoban_overlay, suspicious_attachment_guard,         *)
(* a16_sus_attach_hardener_overlay, b10_crypto_casino_guard,               *)
(* phish_groq_guard, a18_ban_template_unifier_overlay, nixe/helpers/       *)
(* phish_evidence_cache and groq_bridge, configured as deployed.           *)
(***************************************************************************)
EXTENDS Naturals, FiniteSets

CONSTANTS
    Msgs, Users, Author,
    Channel,    \* of each message
    Traits,     \* of each message: what the guards look for in it
    Scope,      \* the messages each guard looks into: its channels, no exempt author
    Pics, Named,  \* images, and those whose name or type says WEBP
    Holds,      \* the images of each message
    MaxImages,  \* SCAN_MAX_IMAGES, at most 8: the images a handler puts to Groq
    Batches,    \* the sets of messages that may come in a run
    FaultKinds, MaxFaults,  \* bounds of a run
    None

Guard == {"firewall", "spam", "attach", "harden", "casino", "groq", "regroq"}

Trait == {"mass", "many", "url", "file", "nsfw", "invite", "domain", "webp", "torn", "black",
          "sus", "archive", "bait", "scam"}

\* A burst of images is one of attached files.
ASSUME ConstAssumption ==
    /\ Author \in [Msgs -> Users] /\ Traits \in [Msgs -> SUBSET Trait]
    /\ Scope \in [Guard -> SUBSET Msgs]
    /\ Holds \in [Msgs -> SUBSET Pics] /\ Named \subseteq Pics
    /\ \A m \in Msgs : "many" \in Traits[m] => "file" \in Traits[m]
    /\ Batches \subseteq SUBSET Msgs /\ MaxFaults \in Nat
    /\ MaxImages \in Nat \ {0} /\ None \notin Msgs /\ None \notin Guard \X Msgs

\* The listeners that do not return at once, by message.
Handlers ==
    {h \in Guard \X Msgs :
        /\ h[2] \in Scope[h[1]]
        /\ h[1] = "spam" => "mass" \in Traits[h[2]]
        /\ h[1] \in {"groq", "regroq"} => Holds[h[2]] # {}
        /\ h[1] \in {"attach", "harden"} => "file" \in Traits[h[2]]}

VARIABLES
    \* at Discord
    coming,    \* messages of this run that were not posted yet
    posted,
    edited,    \* messages that were edited
    gone,      \* messages that were deleted
    banned,
    \* in the process
    pc,        \* the await each handler is at
    queue,     \* messages handed to safe_delete
    track,     \* _hist: the recent mass mentions of a user
    acted,     \* _cooldown of the mention-everyone guard
    cooling,   \* _cool of the casino guard: pairs of a channel and a user
    evidence,  \* _CACHE: of each user the message recorded last and those with links listed
    log,       \* of each user's ban: "none", then where the log of it is
    shown,     \* the evidence it shows
    seen,      \* _SEEN_URL_EXP
    cool,      \* _GROQ_COOLDOWN_UNTIL lies ahead
    permit,    \* the handler in _GROQ_SEM
    left, cand,  \* of each handler: the images it has to look at, to put to Groq
    at,        \* the image it is at
    \* history
    by,        \* of each user: the handler whose request banned him, if a handler's did
    spare,     \* users a guard could not ban, or who were banned already
    swept,     \* users whose evidence was swept or taken by a simulated ban
    stuck,     \* messages whose deletion failed
    says,      \* messages Groq called phishing
    mute,      \* messages Groq gave no answer about
    weak,      \* messages with a hit that ended the scan and was not acted on
    asked,     \* of each image: how often it was put to Groq
    twice,     \* images two handlers looked at at once, or that were forgotten
    faults

discord == <<coming, posted, edited, gone, banned>>
spam == <<queue, track, acted>>
ban == <<evidence, log, shown, by, spare, swept>>
groq == <<seen, cool, permit, left, cand, at, asked, twice>>
word == <<says, mute, weak>>
vars == <<discord, pc, spam, cooling, ban, stuck, groq, word, faults>>

Spend(kind) == kind \in FaultKinds /\ faults < MaxFaults /\ faults' = faults + 1

NoEvidence == [last |-> None, links |-> {}]

Init ==
    /\ coming \in Batches /\ posted = {} /\ edited = {} /\ gone = {} /\ banned = {}
    /\ pc = [h \in Handlers |-> "off"]
    /\ queue = {} /\ track = [u \in Users |-> {}] /\ acted = {} /\ cooling = {}
    /\ evidence = [u \in Users |-> NoEvidence]
    /\ log = [u \in Users |-> "none"] /\ shown = [u \in Users |-> NoEvidence]
    /\ seen = {} /\ cool = FALSE /\ permit = None
    /\ left = [h \in Handlers |-> {}] /\ cand = [h \in Handlers |-> {}]
    /\ at = [h \in Handlers |-> None]
    /\ by = [u \in Users |-> {}] /\ spare = {} /\ swept = {} /\ stuck = {}
    /\ says = {} /\ mute = {} /\ weak = {} /\ asked = [p \in Pics |-> 0] /\ twice = {}
    /\ faults = 0

-----------------------------------------------------------------------------
Has(h, t) == t \in Traits[h[2]]

Who(h) == Author[h[2]]

Goto(h, where) == pc' = [pc EXCEPT ![h] = where]

\* A message arrives and each listener gets a task of its own.
Post(m) ==
    /\ m \in coming /\ Author[m] \notin banned
    /\ coming' = coming \ {m} /\ posted' = posted \union {m}
    /\ pc' = [h \in Handlers |-> IF h[2] = m /\ h[1] # "regroq" THEN "new" ELSE pc[h]]
    /\ UNCHANGED <<edited, gone, banned, spam, cooling, ban, stuck, groq, word, faults>>

\* The message is edited (Discord reports its own embeds as an edit, too).
Edit(m) ==
    /\ m \in posted \ (edited \union gone) /\ <<"regroq", m>> \in Handlers
    /\ edited' = edited \union {m} /\ Goto(<<"regroq", m>>, "new")
    /\ UNCHANGED <<coming, posted, gone, banned, spam, cooling, ban, stuck, groq, word, faults>>

-----------------------------------------------------------------------------
\* A message that the lists of addresses name, by its links or files (addresses of previews
\* are left out).  One of text only they do not name.
Linked(m) == Traits[m] \intersect {"url", "file"} # {}

\* A message adds up to 6 addresses to a list of 8: two find a place, a third may find none.
Full(e) == \E m, n \in e.links : m # n

Newest(e, m) == {IF Linked(m) THEN {m} ELSE {}}  \* faulty variant

Merged(e, m) ==
    IF ~Linked(m) THEN {e.links}
    ELSE {e.links \union {m}} \union IF Full(e) THEN {e.links} ELSE {}

\* Evidence: id, channel, jump link and reason are those of the message recorded last, the
\* addresses of earlier ones stay.
Record(h) ==
    \E links \in Merged(evidence[Who(h)], h[2]) :
        evidence' = [evidence EXCEPT ![Who(h)] = [last |-> h[2], links |-> links]]

\* A guard that convicts records its evidence and sends the ban.
Convict(h) ==
    /\ Goto(h, "ban") /\ Record(h)
    /\ UNCHANGED <<log, shown, by, spare, swept>>

NoBan == UNCHANGED ban

\* Guild.ban takes the member's messages of seven days with it and raises an event.
Banish(u, who) ==
    /\ banned' = banned \union {u} /\ by' = [by EXCEPT ![u] = who]
    /\ gone' = gone \union {m \in posted : Author[m] = u}
    /\ log' = [log EXCEPT ![u] = "audit"]

\* The ban of one who is banned already is accepted and raises no event.  The firewall
\* deletes the message when it is refused, with an argument Message.delete does not take.
Ban(h) ==
    /\ pc[h] = "ban" /\ Goto(h, "done")
    /\ \/ /\ Who(h) \notin banned /\ Banish(Who(h), {h})
          /\ UNCHANGED <<spare, faults>>
       \/ /\ Who(h) \in banned /\ spare' = spare \union {Who(h)}
          /\ UNCHANGED <<gone, banned, by, log, faults>>
       \/ /\ Spend("ban") /\ spare' = spare \union {Who(h)}
          /\ UNCHANGED <<gone, banned, by, log>>
    /\ acted' = IF h[1] = "spam" THEN acted \union {Who(h)} ELSE acted
    /\ UNCHANGED <<coming, posted, edited, queue, track, cooling, evidence, shown, swept, stuck, groq, word>>

\* A deletion, and where the guard goes on.
Remove(h) ==
    /\ \/ gone' = gone \union {h[2]} /\ UNCHANGED <<stuck, faults>>
       \/ Spend("delete") /\ stuck' = stuck \union {h[2]} /\ UNCHANGED gone
    /\ UNCHANGED <<coming, posted, edited, banned>>

-----------------------------------------------------------------------------
\* a00_first_touchdown_firewall, once the WEBP was read.
AfterWebp(h) == IF Has(h, "torn") \/ ~Has(h, "mass") THEN "done" ELSE "hash"

\* The place its first rule that applies leads to; "delete only" raises and does nothing.
Rule(h) ==
    IF (Has(h, "mass") /\ Has(h, "many")) \/ Has(h, "nsfw") THEN "ban"
    ELSE IF Has(h, "invite") THEN "done"
    ELSE IF Has(h, "domain") THEN "ban"
    ELSE IF Has(h, "webp") THEN "webp"
    ELSE IF Has(h, "file") THEN "hash" ELSE "done"

Firewall(h) ==
    /\ h[1] = "firewall"
    /\ \/ /\ pc[h] = "new"
          /\ IF Rule(h) = "ban" THEN Convict(h) ELSE Goto(h, Rule(h)) /\ NoBan
          /\ UNCHANGED faults
       \/ /\ pc[h] = "webp" /\ NoBan
          /\ \/ Goto(h, AfterWebp(h)) /\ UNCHANGED faults
             \/ Spend("read") /\ Goto(h, "hash")
       \/ /\ pc[h] = "hash"
          /\ \/ Has(h, "black") /\ Convict(h) /\ UNCHANGED faults
             \/ ~Has(h, "black") /\ Goto(h, "done") /\ NoBan /\ UNCHANGED faults
             \/ Spend("read") /\ Goto(h, "done") /\ NoBan
    /\ UNCHANGED <<discord, spam, cooling, stuck, groq, word>>

\* a00_everyone_spam_autoban_overlay: the deletion is handed over first, then the spread
\* of the user's mass mentions decides.  It records no evidence (a NameError is swallowed).
NoQueue(h) == queue  \* faulty variant

Queued(h) == queue \union {h[2]}

Spread(h) == Cardinality({Channel[m] : m \in track'[Who(h)]}) >= 2

Spam(h) ==
    /\ h[1] = "spam" /\ pc[h] = "new"
    /\ queue' = Queued(h)
    /\ IF Who(h) \in acted THEN Goto(h, "done") /\ UNCHANGED track
       ELSE /\ track' = [track EXCEPT ![Who(h)] = @ \union {h[2]}]
            /\ Goto(h, IF Has(h, "url") \/ Has(h, "file") \/ Spread(h) THEN "ban" ELSE "done")
    /\ UNCHANGED <<discord, acted, cooling, ban, stuck, groq, word, faults>>

\* The worker of safe_delete; its retries are in the module SafeDelete.
SafeDelete(m) ==
    /\ m \in queue /\ queue' = queue \ {m}
    /\ Remove(<<"spam", m>>)
    /\ UNCHANGED <<pc, track, acted, cooling, ban, groq, word>>

\* The window of 45 s and the cooldown of 120 s pass.
Pass(u) ==
    /\ \A h \in Handlers : Who(h) = u => pc[h] \in {"off", "done"}
    /\ \/ track[u] # {} /\ track' = [track EXCEPT ![u] = {}] /\ UNCHANGED <<acted, cooling>>
       \/ u \in acted /\ acted' = acted \ {u} /\ UNCHANGED <<track, cooling>>
       \/ \E c \in cooling : c[2] = u /\ cooling' = cooling \ {c} /\ UNCHANGED <<track, acted>>
    /\ coming # {}
    /\ UNCHANGED <<discord, pc, queue, ban, stuck, groq, word, faults>>

-----------------------------------------------------------------------------
\* suspicious_attachment_guard.  An image burst with a mass mention is banned at once; one
\* without is put to groq_bridge, which answers 1 when its requests fail.
AnyBurst(h) == IF Has(h, "many") THEN Convict(h) ELSE Goto(h, "read") /\ NoBan  \* faulty variant

Burst(h) ==
    IF Has(h, "many") /\ Has(h, "mass") THEN Convict(h)
    ELSE Goto(h, IF Has(h, "many") THEN "look" ELSE "read") /\ NoBan

Look(h) ==
    \/ Convict(h) /\ says' = says \union {h[2]} /\ UNCHANGED <<mute, weak, faults>>
    \/ Convict(h) /\ Spend("groq") /\ mute' = mute \union {h[2]} /\ UNCHANGED <<says, weak>>
    \/ Goto(h, "read") /\ NoBan /\ UNCHANGED <<word, faults>>  \* benign, or no answer in 3 s

Attach(h) ==
    /\ h[1] = "attach"
    /\ \/ pc[h] = "new" /\ Burst(h) /\ UNCHANGED <<discord, stuck, word, faults>>
       \/ pc[h] = "look" /\ Look(h) /\ UNCHANGED <<discord, stuck>>
       \/ /\ pc[h] = "read" /\ NoBan /\ UNCHANGED <<discord, stuck, word>>
          /\ \/ Goto(h, IF Has(h, "sus") THEN "delete" ELSE "done") /\ UNCHANGED faults
             \/ Spend("read") /\ Goto(h, "done")
       \/ /\ pc[h] = "delete" /\ Remove(h) /\ UNCHANGED word
          /\ IF Has(h, "archive") THEN Convict(h) ELSE (Goto(h, "done") /\ NoBan)
    /\ UNCHANGED <<spam, cooling, groq>>

\* a16_sus_attach_hardener_overlay: the same scores, a Groq request of its own, no ban.
Harden(h) ==
    /\ h[1] = "harden" /\ NoBan
    /\ \/ /\ pc[h] = "new" /\ UNCHANGED <<discord, stuck, word>>
          /\ \/ Goto(h, IF Has(h, "sus") THEN "delete" ELSE "look") /\ UNCHANGED faults
             \/ Spend("read") /\ Goto(h, "look")
       \/ /\ pc[h] = "look" /\ UNCHANGED <<discord, stuck, mute, weak, faults>>
          /\ \/ says' = says \union {h[2]} /\ Goto(h, "delete")
             \/ UNCHANGED says /\ Goto(h, "done")
       \/ pc[h] = "delete" /\ Remove(h) /\ Goto(h, "done") /\ UNCHANGED word
    /\ UNCHANGED <<spam, cooling, groq>>

\* b10_crypto_casino_guard: the cooldown is claimed by every message, harmless or not.
Claim(h) == <<Channel[h[2]], Who(h)>>

Casino(h) ==
    /\ h[1] = "casino"
    /\ \/ /\ pc[h] = "new" /\ NoBan /\ UNCHANGED <<discord, stuck, faults>>
          /\ cooling' = cooling \union {Claim(h)}
          /\ Goto(h, IF Claim(h) \notin cooling /\ Has(h, "bait") THEN "delete" ELSE "done")
       \/ /\ pc[h] = "delete" /\ Remove(h) /\ UNCHANGED cooling
          /\ IF Has(h, "scam") THEN Convict(h) ELSE (Goto(h, "done") /\ NoBan)
    /\ UNCHANGED <<spam, groq, word>>

-----------------------------------------------------------------------------
\* phish_groq_guard.  _mark_seen: an image is marked when it becomes a candidate, long
\* before the request about it is sent.
NoMark(S) == seen  \* faulty variant

Mark(S) == seen \union S

\* Of more candidates than are put to Groq the largest are kept; the others stay marked.
Largest(C) ==
    IF Cardinality(C) <= MaxImages THEN {C} ELSE {K \in SUBSET C : Cardinality(K) = MaxImages}

\* What follows the last look and each request of the loop.
AfterImage(h, rest) == IF rest = {} THEN "done" ELSE "want"

\* From one await to the next: images that need no sniffing are taken or dropped at once.
Scan(h) ==
    LET m == h[2]
        todo == IF pc[h] = "new" THEN Holds[m] ELSE left[h]
    IN /\ h[1] \in {"groq", "regroq"} /\ pc[h] \in {"new", "scan"}
       /\ \E S \in SUBSET (todo \intersect (Named \union seen)) :
            /\ seen' = Mark(S \ seen)
            /\ \/ \E p \in todo \ (S \union Named \union seen) :
                    /\ cand' = [cand EXCEPT ![h] = @ \union (S \ seen)]
                    /\ left' = [left EXCEPT ![h] = todo \ (S \union {p})]
                    /\ at' = [at EXCEPT ![h] = p] /\ Goto(h, "sniff")
               \/ \E K \in Largest(cand[h] \union (S \ seen)) :
                    /\ todo = S /\ left' = [left EXCEPT ![h] = {}] /\ UNCHANGED at
                    /\ cand' = [cand EXCEPT ![h] = K] /\ Goto(h, AfterImage(h, K))
       /\ UNCHANGED <<discord, spam, cooling, ban, stuck, word, cool, permit, asked, twice, faults>>

\* The first bytes have come: the image is taken whatever was marked meanwhile.
Sniffed(h) ==
    /\ pc[h] = "sniff" /\ Goto(h, "scan")
    /\ cand' = [cand EXCEPT ![h] = @ \union {at[h]}] /\ seen' = Mark({at[h]})
    /\ twice' = IF at[h] \in seen THEN twice \union {at[h]} ELSE twice
    /\ UNCHANGED <<discord, spam, cooling, ban, stuck, word, cool, permit, left, at, asked, faults>>

\* _GROQ_SEM, then _groq_gate sleeps until the cooldown is over, the permit in hand.
Acquire(h) ==
    /\ pc[h] = "want" /\ permit = None /\ permit' = h /\ Goto(h, "gate")
    /\ \E p \in cand[h] : /\ at' = [at EXCEPT ![h] = p]
                          /\ cand' = [cand EXCEPT ![h] = @ \ {p}]
    /\ UNCHANGED <<discord, spam, cooling, ban, stuck, word, seen, cool, left, asked, twice, faults>>

Gate(h) ==
    /\ pc[h] = "gate" /\ ~cool /\ Goto(h, "ask")
    /\ UNCHANGED <<discord, spam, cooling, ban, stuck, groq, word, faults>>

Kept(limited) == IF limited THEN permit ELSE None  \* faulty variant

\* "async with" gives the permit back on every way out of the request.
Released(limited) == None

\* The answer.  A hit of 0.82 ends the loop, but only one of 0.92 with a strong signal is
\* acted on (its event starts FirstTouchdown); 429 and errors drop the image.
Answer(h) ==
    /\ pc[h] = "ask"
    /\ asked' = [asked EXCEPT ![at[h]] = @ + 1]
    /\ \/ /\ Goto(h, AfterImage(h, cand[h])) /\ permit' = Released(FALSE)
          /\ UNCHANGED <<cand, cool, word>> /\ (UNCHANGED faults \/ Spend("groq"))
       \/ /\ Goto(h, AfterImage(h, cand[h])) /\ permit' = Released(TRUE)
          /\ Spend("429") /\ cool' = TRUE /\ UNCHANGED <<cand, word>>
       \/ /\ Goto(h, "done") /\ permit' = Released(FALSE)
          /\ cand' = [cand EXCEPT ![h] = {}] /\ UNCHANGED <<cool, mute, faults>>
          /\ \/ says' = says \union {h[2]} /\ UNCHANGED weak
             \/ weak' = weak \union {h[2]} /\ UNCHANGED says
    /\ UNCHANGED <<discord, spam, cooling, ban, stuck, seen, left, at, twice>>

Groq(h) == Scan(h) \/ Sniffed(h) \/ Acquire(h) \/ Gate(h) \/ Answer(h)

CoolOver ==
    /\ cool /\ cool' = FALSE
    /\ UNCHANGED <<discord, pc, spam, cooling, ban, stuck, word, faults,
                   seen, permit, left, cand, at, asked, twice>>

\* A mark of 300 s runs out.
Forget(p) ==
    /\ p \in seen /\ Spend("forget")
    /\ seen' = seen \ {p} /\ twice' = twice \union {p}
    /\ UNCHANGED <<discord, pc, spam, cooling, ban, stuck, word, cool, permit, left, cand, at, asked>>

-----------------------------------------------------------------------------
\* a18_ban_template_unifier_overlay: reads the audit log, takes the evidence and logs it.
Pop(u) == [evidence EXCEPT ![u] = NoEvidence]

Log(u) ==
    /\ log[u] = "audit" /\ log' = [log EXCEPT ![u] = "done"]
    /\ shown' = [shown EXCEPT ![u] = evidence[u]] /\ evidence' = Pop(u)
    /\ UNCHANGED <<discord, pc, spam, cooling, by, spare, swept, stuck, groq, word, faults>>

\* The memory guard clears the cache, the evidence is 20 minutes old, or a moderator's
\* simulated ban (tb) takes it for its own embed.
Sweep(u) ==
    /\ evidence[u] # NoEvidence /\ (Spend("sweep") \/ Spend("tb"))
    /\ evidence' = [evidence EXCEPT ![u] = NoEvidence] /\ swept' = swept \union {u}
    /\ UNCHANGED <<discord, pc, spam, cooling, log, shown, by, spare, stuck, groq, word>>

\* A moderator bans.
ModBan(u) ==
    /\ u \notin banned /\ Spend("moderator") /\ Banish(u, {})
    /\ UNCHANGED <<coming, posted, edited, pc, spam, cooling, evidence, shown, spare, swept, stuck, groq, word>>

-----------------------------------------------------------------------------
Step(h) ==
    Firewall(h) \/ Spam(h) \/ Attach(h) \/ Harden(h) \/ Casino(h) \/ Groq(h) \/ Ban(h)

Next ==
    \/ \E m \in Msgs : Post(m) \/ Edit(m) \/ SafeDelete(m)
    \/ \E h \in Handlers : Step(h)
    \/ \E u \in Users : Pass(u) \/ Log(u) \/ Sweep(u) \/ ModBan(u)
    \/ CoolOver \/ \E p \in Pics : Forget(p)

\* While a task is ready the event loop runs one, and no task runs forever: that every
\* task gets its turn follows.  The worker runs, events are delivered, a cooldown ends.
Fairness ==
    /\ WF_vars(\E h \in Handlers : Step(h))
    /\ WF_vars(\E m \in Msgs : SafeDelete(m))
    /\ WF_vars(\E u \in Users : Log(u))
    /\ WF_vars(CoolOver)

Spec == Init /\ [][Next]_vars /\ Fairness
-----------------------------------------------------------------------------
Evidence == [last : Msgs \union {None}, links : SUBSET Msgs]

\* Every variable has a value the code can give it, and the permit is held exactly from
\* its acquisition to the answer.
TypeOK ==
    /\ edited \union gone \union queue \union stuck \union says \union mute \union weak \subseteq posted
    /\ pc \in [Handlers -> {"off", "new", "webp", "hash", "look", "read", "delete", "scan", "sniff",
                            "want", "gate", "ask", "ban", "done"}]
    /\ banned \union acted \union spare \union swept \subseteq Users
    /\ track \in [Users -> SUBSET Msgs]
    /\ evidence \in [Users -> Evidence] /\ shown \in [Users -> Evidence]
    /\ log \in [Users -> {"none", "audit", "done"}] /\ by \in [Users -> SUBSET Handlers]
    /\ seen \union twice \subseteq Pics /\ permit \in Handlers \union {None}
    /\ {h \in Handlers : pc[h] \in {"gate", "ask"}} = {permit} \ {None}
    /\ asked \in [Pics -> Nat] /\ faults \in 0 .. MaxFaults

\* Mass mentions of this user in two channels, this message among them.
Spray(m) ==
    \E n \in posted :
        Author[n] = Author[m] /\ Channel[n] # Channel[m] /\ "mass" \in Traits[m] \intersect Traits[n]

Cause(m) ==
    \/ Traits[m] \intersect {"nsfw", "domain", "black", "scam"} # {}
    \/ {"mass", "url"} \subseteq Traits[m] \/ {"mass", "file"} \subseteq Traits[m]
    \/ {"sus", "archive"} \subseteq Traits[m]
    \/ Spray(m) \/ m \in says \union mute

\* Nobody is banned by the guards but for a message of his own that mass-mentions with a
\* burst, link, file or spread, links to a listed page, carries a listed hash, a scam
\* or a suspicious archive, or that Groq called phishing or gave no answer about.
BannedForCause ==
    \A u \in Users : \A h \in by[u] : Author[h[2]] = u /\ Cause(h[2])

\* The evidence names a message there is cause to ban the user for, and tells of m: as the
\* message recorded last or by its links, unless the lists were full.  Of a message of text
\* only that was recorded earlier it tells nothing: its id and reason were overwritten.
Tells(e, m) ==
    /\ e.last # None /\ Author[e.last] = Author[m] /\ Cause(e.last)
    /\ m = e.last \/ m \in e.links \/ ~Linked(m) \/ Full(e)

\* What the guards recorded about a user waits for a ban or for its log, and nothing is
\* left for a later log to show, unless a ban was refused or needless.  The log of a ban
\* by a guard names a message of the user with cause for a ban, and still tells of the links
\* and files of the one that led to it when other guards recorded and banned meanwhile (the
\* mention-everyone guard records nothing; the cache may have been swept or read by a
\* simulated ban).
EvidenceSettled ==
    \A u \in Users :
        /\ evidence[u] # NoEvidence => \/ \E h \in Handlers : Who(h) = u /\ pc[h] = "ban"
                                       \/ log[u] = "audit" \/ u \in spare
        /\ log[u] = "done" /\ u \notin swept =>
              \A h \in by[u] : h[1] # "spam" => Tells(shown[u], h[2])

\* No image is put to Groq twice, by the handler of the post and that of its edit, unless
\* both were sniffing at it at once or the mark ran out.
AskedOnce == \A p \in Pics : asked[p] <= 1 \/ p \in twice

\* In the end every mass mention of an ordinary member is taken down, banned or not,
\* unless Discord refuses the deletion.
BlastContained ==
    <>[] \A h \in Handlers : h[1] = "spam" /\ pc[h] # "off" => h[2] \in gone \union stuck

Asked(m) == {p \in Holds[m] : asked[p] > 0}

\* In the end, through rate limits and failed requests, every image of a message was put to
\* Groq but those a handler left out: its message, or another one with the same image that
\* was looked at first, had as many images put to Groq as one handler may, or an image of
\* it had ended the scan.
Judged ==
    <>[] \A h \in Handlers : h[1] = "groq" /\ pc[h] # "off" =>
            \A p \in Holds[h[2]] \ Asked(h[2]) : \E m \in posted :
                p \in Holds[m] /\ (m \in says \union weak \/ Cardinality(Asked(m)) >= MaxImages)
=============================================================================
