------------------------------ MODULE MCHelpers -----------------------------
(***************************************************************************)
(* The two helpers the guards share, the deletion queue and once_sync,     *)
(* which have no state in common: a behaviour is one of the one or of the  *)
(* other, the clock of the second counting seconds, that of the first      *)
(* ticks.                                                                  *)
(***************************************************************************)
EXTENDS SafeDelete, OnceDedupe, Supervision
LOCAL INSTANCE TLC
LOCAL INSTANCE SequencesExt
LOCAL INSTANCE FiniteSetsExt

CONSTANTS k1, k2, k3

\* A short, a middle and a long time to live, as the callers' settings.
MCTtl == (k1 :> 1) @@ (k2 :> 2) @@ (k3 :> 3)

VARIABLE subject  \* the helper the behaviour is of

MCInit == Init /\ OnceInit /\ subject \in {"delete", "once"}

MCNext ==
    \/ subject = "delete" /\ Next /\ UNCHANGED <<onceVars, subject>>
    \/ subject = "once" /\ OnceNext /\ UNCHANGED <<vars, subject>>

\* Fairness of SafeDelete, whose steps are taken in its own behaviours only.
Deleting(A) == subject = "delete" /\ A

MCSpec ==
    /\ MCInit /\ [][MCNext]_<<vars, onceVars, subject>>
    /\ WF_vars(Deleting(WorkerGet)) /\ WF_vars(Deleting(Pace)) /\ WF_vars(Deleting(Tick))
    /\ \A d \in Doers : WF_vars(Deleting(Call(d))) /\ WF_vars(Deleting(Finish(d) \/ RateLimited(d)))
-----------------------------------------------------------------------------
\* What Supervision says of small inputs; TLC evaluates it before it starts.

mcSet(n) == [set |-> TRUE, v |-> n]
mcUnset == [set |-> FALSE, v |-> 0]

\* The loader fails closed: it returns only if each required cog is loaded, and the
\* environment's overlay comes before all others.  A required cog that is skipped, or that
\* the package does not have, fails every start; so does one whose cog's name is taken, of
\* which the list of errors says nothing.
mcFound == <<"a00_env_hybrid_overlay", "a00_other", "a16_phash_phish_guard_overlay",
             "link_phish_guard", "phish_groq_guard">>
ASSUME FailClosed ==
    \A res \in [ToSet(mcFound) -> {"ok", "dup", "error"}] :
        LET l == LoadAll(mcFound, {}, {}, res)
            named(r) == LoadAll(mcFound, {}, {r}, res)
        IN /\ ~l.raises <=> \A r \in DefaultRequired : res[r] = "ok"
           /\ EnvFirst \in ToSet(l.loaded) => l.loaded[1] = EnvFirst
           /\ \A i, j \in DOMAIN l.loaded : i < j => l.loaded[i] # l.loaded[j]
           /\ named("link_phish_guard").raises /\ named("missing").raises
           /\ res["phish_groq_guard"] = "dup" =>
                 l.raises /\ "phish_groq_guard" \in l.missing /\ "phish_groq_guard" \notin ToSet(l.errors)

\* The loop starts the client once more for each crash until it ends otherwise, and waits
\* at least ten seconds or the set cool-down in between; while the web server is up the
\* health page says ok, also of a bot that ended, that failed or that never got ready.
mcEnds == [kind : {"clean", "stop", "crash"}, marks : {{}, {"cloudflare", "1015"}, {"being rate limited"}},
           ready : BOOLEAN]
mcWait == [set |-> FALSE, v |-> 0, number |-> TRUE]
ASSUME RestartGoesOn ==
    \A ends \in UNION {[1 .. n -> mcEnds] : n \in 1 .. 3} :
        LET p == RunMain(TRUE, ends, mcWait, FALSE)
            bad == RunMain(TRUE, ends, [mcWait EXCEPT !.number = FALSE], FALSE)
            crashed == {i \in DOMAIN ends : \A j \in 1 .. i : ends[j].kind = "crash"}
            blocked == {i \in crashed : Is1015(ends[i].marks)}
        IN /\ p.starts = 1 + Cardinality(crashed)
           /\ p.waited = 1800 * Cardinality(blocked) + 10 * Cardinality(crashed \ blocked)
           /\ p.bot = "running" <=> crashed = DOMAIN ends
           /\ Len(p.events) = Cardinality(crashed)
           /\ p.web = "up" => Healthz(p).ok
           /\ bad.bot = "failed" <=> blocked # {}
           /\ bad.bot = "failed" => Healthz(bad).ok
           /\ RunMain(TRUE, ends, mcWait, TRUE).lastReady = 0
           /\ Healthz(RunMain(TRUE, ends, mcWait, TRUE)).ok
           /\ RunMain(FALSE, ends, mcWait, FALSE) = NewProcess(FALSE)
           /\ WebEnds(p).bot # "running"

\* Discord's "you are being rate limited" counts as a block only where it names the site.
ASSUME BlockIsNamed ==
    /\ ~Is1015({"being rate limited"}) /\ Is1015({"being rate limited", "discord.com"})
    /\ ~Is1015({"1015"}) /\ ~Is1015({"doctype", "discord.com"})

\* Each of the two noisy lines passes once, whatever is between; other lines always pass.
ASSUME NoiseOnce ==
    \A lines \in [1 .. 4 -> {"other", "PyNaCl", "logging in"}] :
        /\ \A n \in {"PyNaCl", "logging in"} :
              Cardinality({i \in 1 .. 4 : lines[i] = n /\ OnceFilter(lines)[i]}) =
                 (IF \E i \in 1 .. 4 : lines[i] = n THEN 1 ELSE 0)
        /\ \A i \in 1 .. 4 : lines[i] = "other" => OnceFilter(lines)[i]

\* The restart log always fits its field, is a suffix of what was written, and keeps the
\* newest line; the limit of 50 entries is never met, for 17 lines fill the field.
mcLine(id, len) == [id |-> id, len |-> len]
mcWritten(n, len) == FoldLeft(LAMBDA ls, i : AppendRestartLine(ls, mcLine(i, len)), <<>>, [i \in 1 .. n |-> i])
ASSUME LogFits ==
    /\ \A n \in 1 .. 3 : \A lens \in [1 .. n -> {56, 400, 511, 512, 1024, 2000}] :
          LET lines == [i \in 1 .. n |-> mcLine(i, lens[i])]
              out == FitRestartLines(lines)
          IN /\ Joined(out) <= FieldLimit /\ out # <<>> /\ Last(out).id = n
             /\ lens[n] <= FieldLimit => IsSuffix(out, lines)
             /\ FitRestartLines(out) = out
    /\ FitRestartLines(<<>>) = <<>>
    /\ Len(mcWritten(30, 56)) = 17 /\ Len(mcWritten(30, 64)) = 15 /\ Last(mcWritten(30, 64)).id = 30

\* One restart after the other writes into one message, as long as it is found.  A scan
\* that fails, or fifty messages after it, start a second one with an empty log, and the
\* first stays behind; a failed edit loses the line for good.
mcNet == {"list", "create", "fetch", "scan", "send", "edit"}
mcBoot(h) == [h EXCEPT !.cached = FALSE, !.sticky = 0, !.firstReady = TRUE, !.heartbeat = FALSE]
mcThread == [cached |-> FALSE, listed |-> FALSE, msgs |-> <<>>, sticky |-> 0, firstReady |-> TRUE, heartbeat |-> FALSE]
mcRestarts(h, nets) == FoldLeft(LAMBDA x, i : HealthReady(mcBoot(x), mcLine(i, 56), nets[i]), h, [i \in DOMAIN nets |-> i])
mcStickies(h) == {i \in DOMAIN h.msgs : IsSticky(h.msgs[i])}
mcNote == [own |-> TRUE, sticky |-> FALSE, lines |-> <<>>]
ASSUME OneStickyWhileFound ==
    /\ \A nets \in [1 .. 3 -> {mcNet, mcNet \ {"edit"}, mcNet \ {"scan"}, mcNet \ {"send"}, mcNet \ {"list"}}] :
          LET h == mcRestarts(mcThread, nets)
              scanned == \A i \in 1 .. 3 : "scan" \in nets[i]
          IN /\ scanned => Cardinality(mcStickies(h)) <= 1
             /\ \A i \in mcStickies(h) : \A j \in DOMAIN h.msgs[i].lines : "edit" \in nets[h.msgs[i].lines[j].id]
             /\ UpdateSticky(h, <<>>, mcNet).msgs # <<>>
    /\ LET twice == mcRestarts(mcThread, <<mcNet, mcNet \ {"scan"}, mcNet>>)
       IN Cardinality(mcStickies(twice)) = 2 /\ Len(twice.msgs[2].lines) = 2 /\ Len(twice.msgs[1].lines) = 1
    /\ LET h == mcRestarts(mcThread, <<mcNet>>)
           buried == [h EXCEPT !.msgs = @ \o [i \in 1 .. 50 |-> mcNote]]
       IN Cardinality(mcStickies(mcRestarts(buried, <<mcNet>>))) = 2

\* A later on_ready of the same process adds no line.
ASSUME OneLinePerProcess ==
    LET h == mcRestarts(mcThread, <<mcNet>>)
    IN HealthReady(h, mcLine(2, 56), mcNet) = h

\* One client's crashes are noted at most once in a cool-down.  But a client crashes once:
\* of a process that crashes every ten seconds each crash is noted.
mcTimes == [i \in 1 .. 6 |-> 1000 + 10 * i]
ASSUME NotesAreNeverHeld ==
    /\ \A times \in {t \in [1 .. 4 -> {1000, 1010, 1299, 1300, 1700}] : \A i \in 1 .. 3 : t[i] <= t[i + 1]} :
          LET notes == NotesOfOne(times, 300)
          IN notes[1] = times[1] /\ \A i \in 1 .. Len(notes) - 1 : notes[i + 1] - notes[i] >= 300
    /\ NotesOfProcess(mcTimes, 300) = mcTimes

\* The guard exits within its cap, and never where it is off.  A setting of 0 does not turn
\* the exit off, it ends the process at the first look; so does a cap of 32 or less.
mcGuard == [render : BOOLEAN, cap : {0, 20, 512, 1024}, useCgroup : BOOLEAN, cg : {0, 400, 2048},
            exitMb : {mcUnset, mcSet(0), mcSet(460), mcSet(9999)}, checkSec : {mcUnset, mcSet(0), mcSet(5), mcSet(600)}]
ASSUME ExitWithinCap ==
    \A e \in mcGuard : \A container \in {0, 5, 470, 600} : \A rss \in {0, 5, 470} :
        LET usage == [container |-> container, rss |-> rss]
        IN /\ WatchdogOn(e) => 1 <= ExitMb(e) /\ ExitMb(e) <= e.cap /\ CheckSec(e) \in 3 .. 60
           /\ WatchdogOn(e) /\ e.useCgroup /\ e.cg > 0 => ExitMb(e) <= e.cg
           /\ WatchdogExits(e, usage) => e.render /\ e.cap > 0 /\ (container >= ExitMb(e) \/ rss >= ExitMb(e))
           /\ WatchdogOn(e) /\ (e.exitMb = mcSet(0) \/ (CapMb(e) <= 33 /\ ~e.exitMb.set)) /\ rss > 0 => WatchdogExits(e, usage)

\* The files go at most once in a period and not in the first one after a boot; a marker
\* that cannot be written makes it never, or, once an old one is there, at every look.
mcLooks == [i \in 1 .. 8 |-> 100 + i]
ASSUME PurgeIsSpaced ==
    \A marker \in {0, 95, 100} : \A period \in {2, 3, 5} :
        LET d == [marker |-> marker, purges |-> <<>>]
            done == PurgeRun(d, mcLooks, period, TRUE).purges
            failing == PurgeRun(d, mcLooks, period, FALSE).purges
        IN /\ \A i \in 1 .. Len(done) - 1 : done[i + 1] - done[i] >= period
           /\ marker = 0 => done # <<>> /\ done[1] = 101 + period
           /\ marker = 0 => failing = <<>>
           /\ marker = 95 => Len(failing) = 7

\* The normal sweep comes before the aggressive one, wherever that is at 2 MB or more.  An
\* explicit cap of 512 is obeyed on Render only, and low thresholds likewise.
mcSweeper == [auto : BOOLEAN, place : {"render", "minipc", "pc"}, cg : {0, 400}, force : BOOLEAN,
              cap : {mcUnset, mcSet(0), mcSet(512), mcSet(1024), mcSet(3000)},
              trim : {mcUnset, mcSet(430), mcSet(2500)}, aggr : {mcUnset, mcSet(10), mcSet(450), mcSet(2600)},
              checkSec : {mcUnset, mcSet(1), mcSet(60)}]
ASSUME SweepIsOrdered ==
    \A e \in mcSweeper :
        LET t == Thresholds(e)
        IN /\ SweepCap(e) > 0 /\ t.aggr >= 2 => t.trim < t.aggr
           /\ \A rss \in {1, t.trim, t.aggr, 9000} : Swept(SweepLevel(e, rss)) # {} => SweepCap(e) > 0 /\ rss >= Smaller(t.trim, t.aggr)
           /\ SweepCap(e) > 0 => SweepLevel(e, t.aggr) = "aggressive"
           /\ e.cap = mcSet(512) /\ e.auto => (SweepCap(e) = 512 <=> e.place = "render")
           /\ e.cap = mcSet(0) => SweepCap(e) = 0
           /\ e.auto /\ e.place = "pc" /\ e.cap = mcSet(512) /\ ~e.force => t.trim > 430 /\ t.aggr > 450
           /\ SweepCheckSec(e) >= 5

\* Without psutil the process is as large as it ever was: after the first sweep every later
\* look sweeps again, and empties the evidence and the once-marks each time.
ASSUME PeakSweepsForEver ==
    \A h \in [1 .. 3 -> {100, 440, 500}] : \A x \in {100, 440, 500} :
        LET e == CHOOSE e \in mcSweeper : e.auto /\ e.place = "render" /\ e.cap = mcSet(512) /\ ~e.trim.set /\ ~e.aggr.set
        IN /\ SweepLevel(e, RssMb(h, FALSE)) # "none" =>
                 {"once", "phish_evidence_cache"} \subseteq Swept(SweepLevel(e, RssMb(Append(h, x), FALSE)))
           /\ SweepLevel(e, RssMb(Append(h, 100), TRUE)) = "none"

\* With the thresholds left to the program, and a cap of 512, the guard has ended the
\* process before the sweeper comes to its aggressive sweep.
ASSUME ExitBeforeAggressive ==
    LET g == CHOOSE e \in mcGuard : e.render /\ e.cap = 512 /\ ~e.exitMb.set /\ e.cg = 0
        e == CHOOSE e \in mcSweeper : e.auto /\ e.place = "render" /\ e.cap = mcSet(512) /\ ~e.trim.set /\ ~e.aggr.set
    IN \A mb \in 400 .. 520 : SweepLevel(e, mb) = "aggressive" => WatchdogExits(g, [container |-> mb, rss |-> mb])

\* A restriction to roles that are not mapped restricts nothing.  A role is asked for at
\* most once in half a minute for each member, and a refusal met with one member keeps all
\* members waiting, each of whom spends his attempt.
mcRoles == [text |-> ("c1" :> "r1") @@ ("c2" :> "r2"), thread |-> ("c2" :> "r1") @@ ("t1" :> "r2"), restrict |-> {}]
mcNobody == [attempt |-> [k \in {"a", "b"} \X {"r1", "r2"} |-> -30], denied |-> [r \in {"r1", "r2"} |-> 0], roles |-> {}]
mcSays(who, where) == [author |-> who, channel |-> where, bot |-> FALSE]
ASSUME RolesAreMapped ==
    /\ AllowedRoles(mcRoles) = {"r1", "r2"} /\ AllowedRoles([mcRoles EXCEPT !.restrict = {"r1", "r9"}]) = {"r1"}
    /\ AllowedRoles([mcRoles EXCEPT !.restrict = {"r9"}]) = {"r1", "r2"}
    /\ RoleOf(mcRoles, "c2") = "r2" /\ RoleOf(mcRoles, "t1") = "r2" /\ RoleOf(mcRoles, "c9") = ""
    /\ \A answer \in DOMAIN DenyAfter : \A d \in {1, 29, 30, 119, 120, 121, 1801} :
          LET s == AutoRole(mcNobody, mcRoles, mcSays("a", "c1"), 100, answer)
              t == AutoRole(s, mcRoles, mcSays("b", "c1"), 100 + d, "ok")
              again == AutoRole(s, mcRoles, mcSays("a", "c1"), 100 + d, "ok")
          IN /\ <<"a", "r1">> \in s.roles <=> answer = "ok"
             /\ <<"b", "r1">> \in t.roles <=> d >= DenyAfter[answer]
             /\ t.attempt[<<"b", "r1">>] = 100 + d
             /\ d < AttemptGap => again = s
             /\ d >= AttemptGap /\ d >= DenyAfter[answer] => <<"a", "r1">> \in again.roles
    /\ AutoRole(mcNobody, [mcRoles EXCEPT !.restrict = {"r1"}], mcSays("a", "c2"), 100, "ok") = mcNobody
    /\ AutoRole(mcNobody, mcRoles, [mcSays("a", "c1") EXCEPT !.bot = TRUE], 100, "ok") = mcNobody
=============================================================================
