---------------------------- MODULE Supervision ----------------------------
(***************************************************************************)
(* What keeps the bot running: the restart loop of main.py, the loading of *)
(* the cogs (cogs_loader.py), the restart log and crash notes (a18_health_ *)
(* restart_probe_overlay.py), the memory guard and the cache purge (a00c_  *)
(* render_memory_guard_overlay.py), the memory sweeper (a01_memory_        *)
(* sweeper_overlay.py, helpers/memory_sweeper.py) and, beside them, the    *)
(* roles given to who writes in a channel (a05_autorole_anywhere_          *)
(* overlay.py).  The restart of the process is an action of the modules    *)
(* whose memory it empties.                                                *)
(*                                                                         *)
(* Times are seconds, sizes megabytes; an exception's text is the set of   *)
(* marks that are looked for in it.                                        *)
(***************************************************************************)
EXTENDS Integers, Sequences, FiniteSets
LOCAL INSTANCE SequencesExt
LOCAL INSTANCE FiniteSetsExt

\* A setting is [set, v]; what an unreadable one counts as is put into v.
Setting(o, default) == IF o.set THEN o.v ELSE default
Larger(a, b) == Max({a, b})
Smaller(a, b) == Min({a, b})

-----------------------------------------------------------------------------
\* cogs_loader.py.  found is the sequence of modules of the package in the order of
\* their names, res[n] what load_extension does with n: "ok", "dup" (a cog of that name
\* is loaded already) or "error".
EnvFirst == "a00_env_hybrid_overlay"
DefaultRequired == {EnvFirst, "a16_phash_phish_guard_overlay", "phish_groq_guard"}
SkipExtensions == {"link_phish_guard", "luckypull_guard", "image_phish_gemini_guard"}

Required(raw) == IF raw \ {""} = {} THEN DefaultRequired ELSE raw \ {""}

CogNames(found, hidden) == SelectSeq(found, LAMBDA n : n \notin hidden \union SkipExtensions)

LoadOrder(names) ==
    SelectSeq(names, LAMBDA n : n = EnvFirst) \o SelectSeq(names, LAMBDA n : n # EnvFirst)

Loaded(names, res) == SelectSeq(LoadOrder(names), LAMBDA n : res[n] = "ok")

\* A second cog of one name is let pass without an entry, except for the first module.
LoadErrors(names, res) ==
    SelectSeq(LoadOrder(names), LAMBDA n : res[n] = "error" \/ (res[n] = "dup" /\ n = EnvFirst))

LoadAll(found, hidden, raw, res) ==
    LET names == CogNames(found, hidden)
        missing == Required(raw) \ ToSet(Loaded(names, res))
    IN [raises |-> missing # {}, loaded |-> Loaded(names, res), missing |-> missing,
        errors |-> LoadErrors(names, res)]

-----------------------------------------------------------------------------
\* main.py.  One start of the client ends "clean", by "stop" (a signal) or by "crash"
\* with the exception's marks; ready says whether on_ready came before.
Is1015(marks) ==
    \/ {"cloudflare", "1015"} \subseteq marks
    \/ {"doctype", "access denied", "discord.com"} \subseteq marks
    \/ {"being rate limited", "discord.com"} \subseteq marks

NewProcess(token) ==
    [bot |-> IF token THEN "running" ELSE "none", web |-> "up", starts |-> IF token THEN 1 ELSE 0,
     events |-> <<>>, waited |-> 0, lastReady |-> 0]

\* _run_bot: a Cloudflare block is waited out, any other crash costs ten seconds, and
\* each next start is a new client.  The wait's setting, [set, v, number], is read there,
\* inside the handler: one that is no number ends the loop.
RunBot(p, o, cooldown) ==
    LET q == [p EXCEPT !.lastReady = IF o.ready THEN p.starts ELSE @]
        again(event, wait) == [q EXCEPT !.starts = @ + 1, !.events = Append(@, event), !.waited = @ + wait]
    IN CASE p.bot # "running" -> p
         [] p.bot = "running" /\ o.kind = "stop" -> [q EXCEPT !.bot = "cancelled", !.web = "down"]
         [] p.bot = "running" /\ o.kind = "clean" -> [q EXCEPT !.bot = "ended"]
         [] p.bot = "running" /\ o.kind = "crash" /\ Is1015(o.marks) ->
                IF cooldown.number THEN again("nixe_bot_cloudflare_cooldown", Larger(0, Setting(cooldown, 1800)))
                ELSE [q EXCEPT !.bot = "failed"]
         [] OTHER -> again("nixe_bot_crash", 10)

\* _main: the process lives as long as its web server; its end cancels the bot.
WebEnds(p) == [p EXCEPT !.web = "down", !.bot = IF @ = "running" THEN "cancelled" ELSE @]

Healthz(p) == [up |-> p.web = "up", ok |-> p.web = "up", lastReady |-> p.lastReady]

\* _main over the ends of the client: setup_hook fails when the loader raises, and the
\* client then crashes before it is ready.
StartOf(o, raises) == IF raises THEN [kind |-> "crash", marks |-> {}, ready |-> FALSE] ELSE o
RunMain(token, ends, cooldown, raises) ==
    FoldLeft(LAMBDA p, o : RunBot(p, StartOf(o, raises), cooldown), NewProcess(token), ends)

\* _OnceFilter: which of the log's lines pass; a line is the mark it holds, or "other".
OnceFilter(lines) ==
    [i \in DOMAIN lines |-> lines[i] = "other" \/ \A j \in 1..(i - 1) : lines[j] # lines[i]]

-----------------------------------------------------------------------------
\* a18_health_restart_probe_overlay.py.  A line of the restart log is [id, len].
FieldLimit == 1024
MaxRestartEntries == 50

Joined(lines) == FoldLeft(LAMBDA n, l : n + l.len, 0, lines) + Larger(0, Len(lines) - 1)
Newest(lines, n) == SubSeq(lines, Larger(1, Len(lines) - n + 1), Len(lines))

\* _fit_restart_lines: the oldest go until the rest fits; a last line that is too long is cut.
FitRestartLines(lines) ==
    IF lines = <<>> THEN <<>>
    ELSE LET fits == {n \in 1..Len(lines) : Joined(Newest(lines, n)) <= FieldLimit}
         IN IF fits # {} THEN Newest(lines, Max(fits))
            ELSE <<[Last(lines) EXCEPT !.len = FieldLimit]>>

AppendRestartLine(lines, new) ==
    FitRestartLines(Newest(Append(FitRestartLines(lines), new), MaxRestartEntries))

\* A health thread is [cached, listed, msgs]; msgs, oldest first, are [own, sticky, lines].
\* net says which calls of this round succeed: "list" (the base channel is known),
\* "create", "fetch", "scan", "send", "edit".
ScanLimit == 50
EnsureThread(h, net) ==
    CASE h.cached -> h
      [] ~h.cached /\ "list" \notin net -> h
      [] ~h.cached /\ "list" \in net /\ h.listed -> [h EXCEPT !.cached = TRUE]
      [] OTHER -> IF "create" \in net THEN [h EXCEPT !.cached = TRUE, !.listed = TRUE, !.msgs = <<>>, !.sticky = 0] ELSE h

\* _ensure_sticky_message: the remembered message, else the newest of the last fifty that
\* bears the marker, else a new one.  A scan that fails finds none.
IsSticky(m) == m.own /\ m.sticky
EnsureSticky(h, net) ==
    LET n == Len(h.msgs)
        seen == {i \in Larger(1, n - ScanLimit + 1)..n : IsSticky(h.msgs[i])}
    IN CASE h.sticky # 0 /\ "fetch" \in net -> h
         [] ~(h.sticky # 0 /\ "fetch" \in net) /\ "scan" \in net /\ seen # {} -> [h EXCEPT !.sticky = Max(seen)]
         [] OTHER ->
              IF "send" \in net
              THEN [h EXCEPT !.msgs = Append(@, [own |-> TRUE, sticky |-> TRUE, lines |-> <<>>]), !.sticky = n + 1]
              ELSE [h EXCEPT !.sticky = 0]

\* _append_restart_log_entry (new # <<>>) and the heartbeat's _update_presence_sticky.
UpdateSticky(h0, new, net) ==
    LET t == EnsureThread(h0, net)
        h == EnsureSticky(t, net)
        at == h.sticky
    IN CASE ~t.cached -> t
         [] t.cached /\ (at = 0 \/ "edit" \notin net) -> h
         [] OTHER -> [h EXCEPT !.msgs[at].lines = IF new = <<>> THEN FitRestartLines(@) ELSE AppendRestartLine(@, new[1])]

\* on_ready: the first of a process writes its line, whether or not that works.
HealthReady(h, line, net) ==
    IF h.firstReady THEN [UpdateSticky(h, <<line>>, net) EXCEPT !.firstReady = FALSE, !.heartbeat = TRUE]
    ELSE [h EXCEPT !.heartbeat = TRUE]

\* on_nixe_bot_crash, of one client: the time is taken before the note is sent.
CrashNote(c, now, cooldown) ==
    IF now - c.last < cooldown THEN c ELSE [last |-> now, notes |-> Append(c.notes, now)]
FreshNotes == [last |-> 0, notes |-> <<>>]
\* The crashes of one client; and those of one process, where each restart makes a new cog.
NotesOfOne(times, cooldown) == FoldLeft(LAMBDA c, t : CrashNote(c, t, cooldown), FreshNotes, times).notes
NotesOfProcess(times, cooldown) == FlattenSeq([i \in DOMAIN times |-> CrashNote(FreshNotes, times[i], cooldown).notes])

-----------------------------------------------------------------------------
\* a00c_render_memory_guard_overlay.py.  cg is the container's limit, 0 if there is none.
CapMb(e) ==
    CASE e.cap <= 0 -> 0
      [] e.cap > 0 /\ e.useCgroup /\ e.cg > 0 -> Smaller(e.cap, e.cg)
      [] OTHER -> e.cap

ExitMb(e) == Larger(1, Smaller(Setting(e.exitMb, Larger(1, CapMb(e) - 32)), CapMb(e)))
CheckSec(e) == Larger(3, Smaller(Setting(e.checkSec, 10), 60))
WatchdogOn(e) == e.render /\ CapMb(e) > 0

\* The container's usage is preferred, 0 stands for a reading that fails.
WatchdogExits(e, usage) ==
    LET used == IF e.useCgroup /\ usage.container > 0 THEN usage.container ELSE usage.rss
    IN WatchdogOn(e) /\ used > 0 /\ used >= ExitMb(e)

\* _cache_purge_loop.  d is [marker, files, purges]: the marker's time (0: none), whether
\* the cache files are there, and when they were removed.
PurgeBoot(d, now, writable) == IF d.marker <= 0 /\ writable THEN [d EXCEPT !.marker = now] ELSE d
PurgeTick(d, now, period, writable) ==
    CASE d.marker <= 0 -> PurgeBoot(d, now, writable)
      [] d.marker > 0 /\ now - d.marker < period -> d
      [] OTHER -> [marker |-> IF writable THEN now ELSE d.marker, purges |-> Append(d.purges, now)]
PurgeRun(d, times, period, writable) ==
    FoldLeft(LAMBDA x, t : PurgeTick(x, t, period, writable), PurgeBoot(d, times[1], writable), Tail(times))

-----------------------------------------------------------------------------
\* a01_memory_sweeper_overlay.py.  place is "render", "minipc" or "pc"; cap, trim, aggr and
\* checkSec are settings.
SweepCap(e) ==
    LET cap == Setting(e.cap, 0)
        upgrade == ~e.cap.set \/ cap = 512
    IN CASE ~e.auto -> cap
         [] e.auto /\ e.place = "render" /\ ~e.cap.set -> IF e.cg > 0 THEN e.cg ELSE 512
         [] e.auto /\ e.place = "minipc" /\ upgrade -> 2048
         [] e.auto /\ e.place = "pc" /\ upgrade -> 4096
         [] OTHER -> cap

\* Low thresholds off Render are taken for left-overs of Render, unless they are forced.
Threshold(e, o, least) ==
    LET leftover == e.place # "render" /\ e.auto /\ ~e.force /\ SweepCap(e) >= 2048
    IN IF leftover /\ Setting(o, 0) < least THEN 0 ELSE Setting(o, 0)

\* on_ready: what is not set is a share of the cap, and trim stays under aggr.
Thresholds(e) ==
    LET cap == SweepCap(e)
        t == Threshold(e, e.trim, Larger(512, cap \div 2))
        a == Threshold(e, e.aggr, Larger(640, (cap * 60) \div 100))
        aggr == IF a <= 0 THEN Larger(1, (cap * 94) \div 100) ELSE a
        trim == IF t <= 0 THEN Larger(1, (cap * 86) \div 100) ELSE t
    IN [trim |-> IF trim >= aggr THEN Larger(1, aggr - 20) ELSE trim, aggr |-> aggr]

SweepCheckSec(e) ==
    Larger(5, Setting(e.checkSec, [render |-> 10, minipc |-> 15, pc |-> 30][e.place]))

\* rss_mb: without psutil, which no requirements file names, the highest value so far.
RssMb(history, psutil) == IF psutil THEN Last(history) ELSE Max(ToSet(history))

SweepLevel(e, rss) ==
    CASE SweepCap(e) <= 0 \/ rss <= 0 -> "none"
      [] SweepCap(e) > 0 /\ rss > 0 /\ rss >= Thresholds(e).aggr -> "aggressive"
      [] SweepCap(e) > 0 /\ rss > 0 /\ rss < Thresholds(e).aggr /\ rss >= Thresholds(e).trim -> "normal"
      [] OTHER -> "none"

\* sweep: what it empties.
Swept(level) ==
    (IF level # "none" THEN {"discord messages", "lpg_cache", "once", "phish_evidence_cache"} ELSE {})
      \union (IF level = "aggressive" THEN {"regular expressions", "heap"} ELSE {})

-----------------------------------------------------------------------------
\* a05_autorole_anywhere_overlay.py: text and thread are the mapped channels' roles.
RoleOf(c, channel) ==
    CASE channel \in DOMAIN c.text -> c.text[channel]
      [] channel \notin DOMAIN c.text /\ channel \in DOMAIN c.thread -> c.thread[channel]
      [] OTHER -> ""

AllowedRoles(c) ==
    LET mapped == {c.text[x] : x \in DOMAIN c.text} \union {c.thread[x] : x \in DOMAIN c.thread}
        allowed == IF c.restrict = {} THEN mapped ELSE mapped \intersect c.restrict
    IN IF allowed = {} THEN mapped ELSE allowed

AttemptGap == 30
DenyAfter == [forbidden |-> 1800, http |-> 120, other |-> 0, ok |-> 0]

\* on_message.  s is [attempt, denied, roles]: the time of a member's last attempt at a
\* role, until when a role is not asked for, and who has which role.  The attempt is
\* noted before the role's denial is looked at.
AutoRole(s, c, m, now, answer) ==
    LET role == RoleOf(c, m.channel)
        key == <<m.author, role>>
        tried == [s EXCEPT !.attempt[key] = now]
    IN CASE m.bot \/ role = "" \/ role \notin AllowedRoles(c) -> s
         [] ~(m.bot \/ role = "" \/ role \notin AllowedRoles(c)) /\ now - s.attempt[key] < AttemptGap -> s
         [] OTHER ->
              CASE now < tried.denied[role] \/ key \in tried.roles -> tried
                [] answer = "ok" -> [tried EXCEPT !.roles = @ \union {key}]
                [] OTHER -> [tried EXCEPT !.denied[role] = IF DenyAfter[answer] > 0 THEN now + DenyAfter[answer] ELSE @]
=============================================================================
