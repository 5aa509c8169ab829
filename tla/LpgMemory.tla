----------------------------- MODULE LpgMemory ------------------------------
(***************************************************************************)
(* The memory of the Lucky Pull guard and how it unlearns.  A lucky image  *)
(* is logged in the memory thread; a moderator who deletes the log there   *)
(* says that the image was not lucky.  The cache persistence overlay turns *)
(* the deletion into an entry of the denylist, whose manager adds it to a  *)
(* set in memory and has a worker write it to the denylist thread, read    *)
(* again after a restart.  The cache hook refuses denied images before     *)
(* the provider is asked, and falls back to the cache when it fails; the   *)
(* guard does not act on the cache's word.                                 *)
(***************************************************************************)
EXTENDS Naturals, Sequences, FiniteSets

CONSTANTS
    Posts,  \* messages of users in guarded channels, and the logs they lead to
    Images,
    Image,  \* the image (its sha1) of a post
    Threads,  \* denylist threads that can be created, in order 1..n
    FaultKinds, MaxFaults, MaxBoots,  \* bounds of a run
    Nothing

ASSUME MemAssumption ==
    /\ Image \in [Posts -> Images] /\ Nothing \notin Images
    /\ Threads \subseteq Nat \ {0} /\ IsFiniteSet(Threads)
    /\ MaxFaults \in Nat /\ MaxBoots \in Nat

VARIABLES
    \* at Discord
    logged,   \* logs in the memory thread, by the post they are about
    threads,  \* denylist threads
    active,   \* those that are not archived
    entries,  \* pairs of a denylist thread and a denied image
    \* in the process
    up,
    deny,     \* _DENY_SHA1
    cache,    \* images with a lucky entry in _CACHE
    fp,       \* _msgid_to_fp: the logs whose image is known
    scan,     \* bootstrap of the cache: "off", "fetch", "insert", "done"
    page,     \* the logs it fetched
    bound,    \* the manager's _thread, Nothing if it has none
    ensure,   \* where on_ready and the worker are
    queue,    \* _q
    writing,  \* the image the worker writes
    loaded,   \* _load_from_thread has ended
    at,       \* of each post: the await its handler is at
    tries,
    \* history
    wished,   \* images of which a log was deleted
    unseen,   \* of those, the ones whose deletion the process did not take in
    lost,     \* images that were denied and nowhere written when the process died
    partial,  \* the load of this process missed entries
    after,    \* posts that came after their image was unlearned
    judged,   \* of each post: the denylist was "full", "partial" or "early" when it was asked
    sure,     \* posts that the provider called lucky
    removed,  \* posts the guard deleted
    faults, boots

discord == <<logged, threads, active, entries>>
memory == <<cache, fp, scan, page>>
manager == <<bound, ensure, queue, writing, loaded, partial>>
handler == <<at, tries, after, judged, sure, removed>>
history == <<wished, unseen, lost>>
memVars == <<discord, up, deny, memory, manager, handler, history, faults, boots>>

NotReady == [a \in {"ready", "worker"} |-> "off"]

MemInit ==
    /\ logged = {} /\ threads = {} /\ active = {} /\ entries = {}
    /\ up = TRUE /\ deny = {} /\ cache = {} /\ fp = {} /\ scan = "off" /\ page = {}
    /\ bound = Nothing /\ ensure = NotReady /\ queue = <<>> /\ writing = Nothing
    /\ loaded = FALSE /\ partial = FALSE
    /\ at = [p \in Posts |-> "off"] /\ tries = [p \in Posts |-> 0]
    /\ after = {} /\ judged = [p \in Posts |-> Nothing] /\ sure = {} /\ removed = {}
    /\ wished = {} /\ unseen = {} /\ lost = {} /\ faults = 0 /\ boots = 0

Spend(kind) == kind \in FaultKinds /\ faults < MaxFaults /\ faults' = faults + 1

Await(p, where) == at' = [at EXCEPT ![p] = where]

-----------------------------------------------------------------------------
\* The guard, from the arrival of a post.
Arrive(p) ==
    /\ up /\ at[p] = "off" /\ Await(p, "check")
    /\ after' = IF Image[p] \in wished THEN after \union {p} ELSE after
    /\ UNCHANGED <<discord, deny, memory, manager, tries, judged, sure, removed, history,
                   faults>>

Denied(p) == Image[p] \in deny

\* The hook asks the denylist, then the provider.
Check(p) ==
    /\ at[p] = "check"
    /\ Await(p, IF Denied(p) THEN "done" ELSE "ask")
    /\ judged' = [judged EXCEPT ![p] =
           IF ~loaded THEN "early" ELSE IF partial THEN "partial" ELSE "full"]
    /\ UNCHANGED <<discord, deny, memory, manager, tries, after, sure, removed, history,
                   faults>>

\* put, remove_sha1; the cap is not reached.
Cached(x, lucky) == cache' = IF lucky THEN cache \union {x} ELSE cache \ {x}

\* faulty variant: the guard takes the cache's word
CacheTrusted(p) == IF Image[p] \in cache THEN "log" ELSE "done"

\* The hook's fallback is a verdict "cache:...", which the guard disallows.
AfterError(p) == "done"

\* faulty variant: every time-out is retried
RetryAlways(p) == "check"

AfterTimeout(p) == IF tries[p] = 0 THEN "check" ELSE "done"

Judge(p) ==
    /\ at[p] = "ask"
    /\ \/ /\ Await(p, "log") /\ Cached(Image[p], TRUE) /\ sure' = sure \union {p}
          /\ UNCHANGED tries
       \/ /\ Await(p, "done") /\ \E lucky \in BOOLEAN : Cached(Image[p], lucky)  \* or vetoed
          /\ UNCHANGED <<sure, tries>>
       \/ Await(p, AfterError(p)) /\ UNCHANGED <<cache, sure, tries>>
       \/ /\ Await(p, AfterTimeout(p))
          /\ tries' = [tries EXCEPT ![p] = @ + 1] /\ UNCHANGED <<cache, sure>>
    /\ UNCHANGED <<discord, deny, fp, scan, page, manager, after, judged, removed, history,
                   faults>>

\* The image is put again, then logged, with its hashes in the footer, which the overlay's
\* on_message notes.
Log(p) ==
    /\ at[p] = "log" /\ Await(p, "act") /\ Cached(Image[p], TRUE)
    /\ \/ logged' = logged \union {p} /\ fp' = fp \union {p} /\ UNCHANGED faults
       \/ Spend("log") /\ UNCHANGED <<logged, fp>>
    /\ UNCHANGED <<threads, active, entries, deny, scan, page, manager, tries, after, judged,
                   sure, removed, history>>

Act(p) ==
    /\ at[p] = "act" /\ Await(p, "done") /\ removed' = removed \union {p}
    /\ UNCHANGED <<discord, deny, memory, manager, tries, after, judged, sure, history,
                   faults>>

Handle(p) == up /\ (Check(p) \/ Judge(p) \/ Log(p) \/ Act(p)) /\ UNCHANGED <<up, boots>>

-----------------------------------------------------------------------------
\* faulty variant: nothing is queued before the worker runs
EnqueueRunning(x) ==
    deny' = deny \union {x} /\ queue' = IF loaded THEN Append(queue, x) ELSE queue

\* enqueue_deny: at once in memory, and into the worker's queue.
EnqueueDeny(x) == deny' = deny \union {x} /\ queue' = Append(queue, x)

\* A moderator deletes a log.  A process that is down, or does not know the log, lets it pass.
Unlearn(p) ==
    /\ p \in logged /\ logged' = logged \ {p}
    /\ wished' = wished \union {Image[p]}
    /\ IF up /\ p \in fp
       THEN /\ fp' = fp \ {p} /\ EnqueueDeny(Image[p]) /\ Cached(Image[p], FALSE)
            /\ UNCHANGED unseen
       ELSE unseen' = unseen \union {Image[p]} /\ UNCHANGED <<fp, deny, queue, cache>>
    /\ UNCHANGED <<threads, active, entries, up, scan, page, bound, ensure, writing, loaded,
                   partial, handler, lost, faults, boots>>

\* The cache is filled from the memory thread once per process.
Scan ==
    /\ \/ scan = "off" /\ scan' = "fetch" /\ UNCHANGED <<page, cache, fp, faults>>
       \/ /\ scan = "fetch" /\ scan' = "insert" /\ UNCHANGED <<cache, fp>>
          /\ \/ page' = logged /\ UNCHANGED faults
             \/ Spend("scan") /\ page' \in SUBSET logged
       \/ /\ scan = "insert" /\ scan' = "done"
          /\ cache' = cache \union {Image[p] : p \in page} /\ fp' = fp \union page
          /\ UNCHANGED <<page, faults>>
    /\ UNCHANGED <<discord, deny, manager, handler, history>>

-----------------------------------------------------------------------------
\* _ensure_thread, run by on_ready and by a worker that has no thread.  By name: among
\* the active threads, then among the archived ones (a listing that fails is an empty
\* one), then a new one.
Move(a, where) == ensure' = [ensure EXCEPT ![a] = where]

Ensured(a) == Move(a, IF a = "ready" THEN "load" ELSE "write")

Find(a) ==
    /\ ensure[a] = "find"
    /\ \/ /\ \E t \in active : bound' = t
          /\ Ensured(a) /\ UNCHANGED faults
       \/ active = {} /\ Move(a, "list") /\ UNCHANGED <<bound, faults>>
       \/ Spend("parent") /\ Ensured(a) /\ UNCHANGED bound
    /\ UNCHANGED discord

List(a) ==
    /\ ensure[a] = "list"
    /\ \/ /\ \E t \in threads \ active : bound' = t
          /\ Ensured(a) /\ UNCHANGED faults
       \/ threads \ active = {} /\ Move(a, "create") /\ UNCHANGED <<bound, faults>>
       \/ Spend("list") /\ Move(a, "create") /\ UNCHANGED bound
    /\ UNCHANGED discord

Create(a) ==
    /\ ensure[a] = "create" /\ Ensured(a)
    /\ \/ /\ \E t \in Threads \ threads :
                 /\ \A u \in Threads \ threads : t <= u
                 /\ bound' = t /\ threads' = threads \union {t} /\ active' = active \union {t}
          /\ UNCHANGED faults
       \/ Spend("create") /\ UNCHANGED <<bound, threads, active>>
    /\ UNCHANGED <<logged, entries>>

EnsureThread(a) ==
    (Find(a) \/ List(a) \/ Create(a)) /\ UNCHANGED <<deny, queue, writing, loaded, partial>>

OnReady ==
    /\ ensure["ready"] = "off" /\ Move("ready", "find")
    /\ UNCHANGED <<discord, deny, bound, queue, writing, loaded, partial, faults>>

In(t) == {x \in Images : <<t, x>> \in entries}

\* faulty variant: the entries take the place of what was denied meanwhile
LoadedOver(found) == deny' = found

Merged(found) == deny' = deny \union found

\* The history is read; what a broken-off reading found counts.  Then the worker starts.
Load ==
    /\ ensure["ready"] = "load" /\ loaded' = TRUE
    /\ ensure' = [ensure EXCEPT !["ready"] = "done",
                                !["worker"] = IF @ = "off" THEN "idle" ELSE @]
    /\ \/ bound = Nothing /\ partial' = TRUE /\ UNCHANGED <<deny, faults>>
       \/ /\ bound # Nothing /\ Merged(In(bound)) /\ UNCHANGED faults
          /\ partial' = (Cardinality(threads) > 1)
       \/ /\ bound # Nothing /\ Spend("history") /\ partial' = TRUE
          /\ \E found \in SUBSET In(bound) : Merged(found)
    /\ UNCHANGED <<discord, bound, queue, writing>>

Take ==
    /\ ensure["worker"] = "idle" /\ queue # <<>>
    /\ writing' = Head(queue) /\ queue' = Tail(queue)
    /\ Move("worker", IF bound = Nothing THEN "find" ELSE "write")
    /\ UNCHANGED <<discord, deny, bound, loaded, partial, faults>>

\* One attempt; an item without a thread is dropped.  A message in an archived thread
\* makes it active.
Write ==
    /\ ensure["worker"] = "write" /\ Move("worker", "idle") /\ writing' = Nothing
    /\ \/ /\ bound # Nothing /\ UNCHANGED faults
          /\ entries' = entries \union {<<bound, writing>>} /\ active' = active \union {bound}
       \/ bound # Nothing /\ Spend("write") /\ UNCHANGED <<entries, active>>
       \/ bound = Nothing /\ UNCHANGED <<entries, active, faults>>
    /\ UNCHANGED <<logged, threads, deny, bound, queue, loaded, partial>>

Manager ==
    /\ OnReady \/ Load \/ Take \/ Write \/ \E a \in {"ready", "worker"} : EnsureThread(a)
    /\ UNCHANGED <<memory, handler, history>>

-----------------------------------------------------------------------------
\* Discord archives a thread nothing was written to for a week.
Archive(t) ==
    /\ t \in active /\ active' = active \ {t}
    /\ UNCHANGED <<logged, threads, entries, up, deny, memory, manager, handler, history,
                   faults, boots>>

\* The process dies.  Handlers end; a post is not judged a second time.
Crash ==
    /\ up /\ boots < MaxBoots /\ boots' = boots + 1 /\ up' = FALSE
    /\ lost' = lost \union {x \in deny : \A t \in threads : <<t, x>> \notin entries}
    /\ deny' = {} /\ cache' = {} /\ fp' = {} /\ scan' = "off" /\ page' = {}
    /\ bound' = Nothing /\ ensure' = NotReady /\ queue' = <<>> /\ writing' = Nothing
    /\ loaded' = FALSE /\ partial' = FALSE
    /\ at' = [p \in Posts |-> IF at[p] = "off" THEN "off" ELSE "done"]
    /\ UNCHANGED <<discord, tries, after, judged, sure, removed, wished, unseen, faults>>

Boot ==
    /\ ~up /\ up' = TRUE
    /\ UNCHANGED <<discord, deny, memory, manager, handler, history, faults, boots>>

MemNext ==
    \/ \E p \in Posts : Arrive(p) /\ UNCHANGED <<up, boots>>
    \/ \E p \in Posts : Handle(p)
    \/ \E p \in Posts : Unlearn(p)
    \/ up /\ Scan /\ UNCHANGED <<up, boots>>
    \/ up /\ Manager /\ UNCHANGED <<up, boots>>
    \/ \E t \in Threads : Archive(t)
    \/ Crash
    \/ Boot

MemFairness == WF_memVars(up /\ Manager /\ UNCHANGED <<up, boots>>) /\ WF_memVars(Boot)

MemSpec == MemInit /\ [][MemNext]_memVars /\ MemFairness

-----------------------------------------------------------------------------
\* Every variable has its type.
MemTypeOK ==
    /\ logged \subseteq Posts /\ threads \subseteq Threads /\ active \subseteq threads
    /\ entries \subseteq threads \X Images
    /\ up \in BOOLEAN /\ deny \subseteq Images /\ cache \subseteq Images
    /\ fp \subseteq Posts /\ page \subseteq Posts
    /\ scan \in {"off", "fetch", "insert", "done"}
    /\ bound \in threads \union {Nothing}
    /\ ensure \in [{"ready", "worker"} ->
           {"off", "idle", "find", "list", "create", "load", "write", "done"}]
    /\ queue \in Seq(Images) /\ writing \in Images \union {Nothing}
    /\ loaded \in BOOLEAN /\ partial \in BOOLEAN
    /\ at \in [Posts -> {"off", "check", "ask", "log", "act", "done"}]
    /\ tries \in [Posts -> 0..2] /\ after \subseteq Posts /\ sure \subseteq Posts
    /\ judged \in [Posts -> {Nothing, "early", "partial", "full"}] /\ removed \subseteq Posts
    /\ wished \subseteq Images /\ unseen \subseteq wished /\ lost \subseteq Images
    /\ faults \in 0..MaxFaults /\ boots \in 0..MaxBoots

\* A post that came after its image was unlearned is not deleted, across restarts, unless
\* the process did not take in the deletion, died before the denial was written, or asked
\* a denylist that was not or not wholly read.
StaysDenied ==
    \A p \in removed \intersect after :
        judged[p] # "full" \/ Image[p] \in unseen \union lost

\* The guard deletes on the provider's word only, never on the cache's.
OnlySure == removed \subseteq sure

\* What is denied is written to a denylist thread in the end, if no request fails and the
\* process does not die.
Persisted ==
    \A x \in Images :
        x \in deny ~> (\E t \in threads : <<t, x>> \in entries) \/ faults > 0 \/ boots > 0
=============================================================================
