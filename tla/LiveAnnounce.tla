---------------------------- MODULE LiveAnnounce ----------------------------
(***************************************************************************)
(* The live announcer of nixe/cogs/a21_youtube_wuwa_live_announce.py: one  *)
(* poll loop and the on_message handlers that ingest new targets check     *)
(* which watched channels are live and post each live video once to a      *)
(* Discord channel, through a bounded send queue and one send worker.      *)
(*                                                                         *)
(* A step of a task runs from one await to the next, as on the event loop. *)
(* An element of Feed is a check result <<key, video>>: the target's keys  *)
(* (channel id, url, handle, query, name) are one model value.             *)
(***************************************************************************)
EXTENDS Naturals, Sequences, FiniteSets

CONSTANTS
    Poll,        \* the task of the poll loop
    Ingests,     \* the tasks of on_message handlers that added targets
    Keys, Vids,  \* targets and video ids
    Feed,        \* the live streams a check can report
    OldVids,     \* videos old enough to be suppressed when they are judged
    QMax,        \* size of the send queue
    SweepCap,    \* matches a duplicate clean-up looks at (6 in the code)
    FaultKinds,  \* the faults the environment may inject ...
    MaxFaults,   \* ... and how many of them in one behaviour
    None         \* no value

Tasks == {Poll} \union Ingests

ASSUME ConstAssumption ==
    /\ Feed \subseteq Keys \X Vids
    /\ OldVids \subseteq Vids
    /\ QMax \in Nat \ {0} /\ SweepCap \in Nat \ {0} /\ MaxFaults \in Nat
    /\ None \notin Tasks /\ None \notin Vids /\ None \notin Feed

VARIABLES
    annMap,    \* state["announced"]: key -> last video
    annVids,   \* state["announced_vids"]
    cache,     \* _announce_vid_cache
    ready,     \* _announce_vid_cache_ready
    inflight,  \* _INFLIGHT_VIDS
    queue,     \* _send_queue: the tasks whose item waits in it
    sending,   \* the task whose item the worker holds
    wire,      \* progress of the worker's channel.send
    cooldown,  \* now < _cf_cooldown_until
    fut,       \* the future each task's item carries
    pc,        \* the await each task is at
    todo,      \* results of the check a task still has to handle
    cur,       \* the result it is handling
    found,     \* what its last history scan saw
    dels,      \* messages its clean-up still has to delete
    posted,    \* the videos of all messages ever posted; the index is the id
    channel,   \* ids of the messages visible in the channel
    disk,      \* the state file
    acked,     \* history: videos whose send returned a message in this boot
    faults     \* how many faults were injected

mem  == <<annMap, annVids, cache, ready>>
wkr  == <<queue, sending, wire, cooldown>>
ctl  == <<pc, todo, cur, found, dels>>
chan == <<posted, channel>>
vars == <<mem, inflight, wkr, fut, ctl, chan, disk, acked, faults>>

KeyOf(r) == r[1]
VidOf(r) == r[2]
ChannelVids == {posted[i] : i \in channel}

Empty == [map |-> [k \in Keys |-> None], vids |-> {}]

\* The environment does what it may do only MaxFaults times.
Spend(kind) ==
    /\ kind \in FaultKinds
    /\ faults < MaxFaults
    /\ faults' = faults + 1

-----------------------------------------------------------------------------
\* __init__ of a boot whose state file reads as d.
Boot(d) ==
    /\ annMap' = d.map /\ annVids' = d.vids
    /\ cache' = {} /\ ready' = FALSE /\ inflight' = {}
    /\ queue' = <<>> /\ sending' = None /\ wire' = "idle" /\ cooldown' = FALSE
    /\ fut' = [t \in Tasks |-> "none"]
    /\ pc' = [t \in Tasks |-> IF t = Poll THEN "bootwarm" ELSE "idle"]
    /\ todo' = [t \in Tasks |-> {}] /\ cur' = [t \in Tasks |-> None]
    /\ found' = [t \in Tasks |-> FALSE] /\ dels' = [t \in Tasks |-> {}]
    /\ acked' = {}

Init ==
    /\ annMap = Empty.map /\ annVids = {}
    /\ cache = {} /\ ready = FALSE /\ inflight = {}
    /\ queue = <<>> /\ sending = None /\ wire = "idle" /\ cooldown = FALSE
    /\ fut = [t \in Tasks |-> "none"]
    /\ pc = [t \in Tasks |-> IF t = Poll THEN "bootwarm" ELSE "idle"]
    /\ todo = [t \in Tasks |-> {}] /\ cur = [t \in Tasks |-> None]
    /\ found = [t \in Tasks |-> FALSE] /\ dels = [t \in Tasks |-> {}]
    /\ posted = <<>> /\ channel = {} /\ disk = Empty /\ acked = {} /\ faults = 0

-----------------------------------------------------------------------------
\* before_loop: warm the cache from the history, then delete the duplicates
\* already in the channel.  A failed history read leaves the cache as it was
\* and still marks it ready.
WarmCache ==
    /\ ready' = TRUE
    /\ \/ cache' = cache \union ChannelVids /\ UNCHANGED faults
       \/ Spend("history") /\ UNCHANGED cache

BootWarm(t) ==
    /\ pc[t] = "bootwarm"
    /\ \/ ready /\ UNCHANGED <<cache, ready, faults>>
       \/ ~ready /\ WarmCache
    /\ pc' = [pc EXCEPT ![t] = "bootsweep"]
    /\ UNCHANGED <<annMap, annVids, inflight, wkr, fut, todo, cur, found, dels,
                   chan, disk, acked>>

Copies(v) == {i \in channel : posted[i] = v}
OlderCopy(i, S) == \E j \in S : j < i /\ posted[j] = posted[i]
NewestCopies(v) ==
    {i \in Copies(v) : Cardinality({j \in Copies(v) : i < j}) < SweepCap}

BootSweep(t) ==
    /\ pc[t] = "bootsweep"
    /\ \/ dels' = [dels EXCEPT ![t] = {i \in channel : OlderCopy(i, channel)}]
          /\ UNCHANGED faults
       \/ Spend("history") /\ UNCHANGED dels
    /\ pc' = [pc EXCEPT ![t] = IF dels'[t] = {} THEN "idle" ELSE "bootdelete"]
    /\ UNCHANGED <<mem, inflight, wkr, fut, todo, cur, found, chan, disk, acked>>

\* One m.delete() of a clean-up; a failed delete is skipped.
DeleteOne(t) ==
    \E i \in dels[t] :
       /\ \A j \in dels[t] : posted[j] = posted[i] => i <= j
       /\ dels' = [dels EXCEPT ![t] = @ \ {i}]
       /\ \/ channel' = channel \ {i} /\ UNCHANGED faults
          \/ Spend("delete") /\ UNCHANGED channel
       /\ UNCHANGED posted

BootDelete(t) ==
    /\ pc[t] = "bootdelete"
    /\ DeleteOne(t)
    /\ pc' = [pc EXCEPT ![t] = IF dels'[t] = {} THEN "idle" ELSE @]
    /\ UNCHANGED <<mem, inflight, wkr, fut, todo, cur, found, disk, acked>>

-----------------------------------------------------------------------------
\* _check_and_announce_targets_once: the checks of all targets came back with
\* the results R, at most one per target.  The poll checks every target, and
\* misses a live one only when its check fails or exceeds the deadline.
\* _check_live may have saved the state while it cached a channel name.
Reports(R) == \A r, s \in R : KeyOf(r) = KeyOf(s) => r = s
Complete(R) == \A r \in Feed : \E s \in R : KeyOf(s) = KeyOf(r)

Tick(t) ==
    /\ pc[t] = "idle"
    /\ \E R \in SUBSET Feed :
          /\ R # {} /\ Reports(R)
          /\ \/ t # Poll \/ Complete(R)
             \/ t = Poll /\ "check" \in FaultKinds /\ faults < MaxFaults
          /\ faults' = IF t = Poll /\ ~Complete(R) THEN faults + 1 ELSE faults
          /\ todo' = [todo EXCEPT ![t] = R]
    /\ pc' = [pc EXCEPT ![t] = "judge"]
    /\ \/ disk' = [map |-> annMap, vids |-> annVids]
       \/ UNCHANGED disk
    /\ UNCHANGED <<mem, inflight, wkr, fut, cur, found, dels, chan, acked>>

\* The end of _maybe_announce_live_result for result r.
Proceed(t, r) ==
    /\ todo' = [todo EXCEPT ![t] = @ \ {r}]
    /\ cur' = [cur EXCEPT ![t] = None]
    /\ found' = [found EXCEPT ![t] = FALSE]
    /\ pc' = [pc EXCEPT ![t] = IF todo[t] = {r} THEN "idle" ELSE "judge"]

Record(r) ==
    /\ annMap' = [annMap EXCEPT ![KeyOf(r)] = VidOf(r)]
    /\ annVids' = annVids \union {VidOf(r)}
    /\ disk' = [map |-> annMap', vids |-> annVids']

KnownByKey(v) == v \in inflight \/ \E k \in Keys : annMap[k] = v  \* faulty variant

Known(v) ==
    \/ v \in annVids
    \/ v \in inflight
    \/ \E k \in Keys : annMap[k] = v

\* Known video: only align the key with it, in memory.
SkipKnown(t) ==
    /\ pc[t] = "judge"
    /\ \E r \in todo[t] :
          /\ Known(VidOf(r))
          /\ annMap' = [annMap EXCEPT ![KeyOf(r)] = VidOf(r)]
          /\ Proceed(t, r)
    /\ UNCHANGED <<annVids, cache, ready, inflight, wkr, fut, dels, chan, disk,
                   acked, faults>>

SuppressOld(t) ==
    /\ pc[t] = "judge"
    /\ \E r \in todo[t] :
          /\ ~Known(VidOf(r)) /\ VidOf(r) \in OldVids
          /\ Record(r) /\ Proceed(t, r)
    /\ UNCHANGED <<cache, ready, inflight, wkr, fut, dels, chan, acked, faults>>

\* _announce_channel_has_video, fast path: a warm-cache hit.
SkipCached(t) ==
    /\ pc[t] = "judge"
    /\ \E r \in todo[t] :
          /\ ~Known(VidOf(r)) /\ VidOf(r) \in cache
          /\ Record(r) /\ Proceed(t, r)
    /\ UNCHANGED <<cache, ready, inflight, wkr, fut, dels, chan, acked, faults>>

StartLook(t) ==
    /\ pc[t] = "judge"
    /\ \E r \in todo[t] :
          /\ ~Known(VidOf(r)) /\ VidOf(r) \notin cache
          /\ cur' = [cur EXCEPT ![t] = r]
    /\ pc' = [pc EXCEPT ![t] = IF ready THEN "scan" ELSE "warm"]
    /\ UNCHANGED <<mem, inflight, wkr, fut, todo, found, dels, chan, disk,
                   acked, faults>>

Warm(t) ==
    /\ pc[t] = "warm"
    /\ WarmCache
    /\ \/ VidOf(cur[t]) \in cache' /\ Record(cur[t]) /\ Proceed(t, cur[t])
       \/ /\ VidOf(cur[t]) \notin cache'
          /\ pc' = [pc EXCEPT ![t] = "scan"]
          /\ UNCHANGED <<annMap, annVids, disk, todo, cur, found>>
    /\ UNCHANGED <<inflight, wkr, fut, dels, chan, acked>>

\* The history request reaches Discord: what it returns is fixed here and used
\* when the task resumes.  A failed read counts as "not found".
Blind(v) == FALSE  \* faulty variant
InHistory(v) == v \in ChannelVids

Scan(t, from, to) ==
    /\ pc[t] = from
    /\ pc' = [pc EXCEPT ![t] = to]
    /\ \/ found' = [found EXCEPT ![t] = InHistory(VidOf(cur[t]))]
          /\ UNCHANGED faults
       \/ Spend("history") /\ found' = [found EXCEPT ![t] = FALSE]
    /\ UNCHANGED <<mem, inflight, wkr, fut, todo, cur, dels, chan, disk, acked>>

SkipFound(t) ==
    /\ pc[t] = "scanned" /\ found[t]
    /\ Record(cur[t]) /\ Proceed(t, cur[t])
    /\ UNCHANGED <<cache, ready, inflight, wkr, fut, dels, chan, acked, faults>>

\* No display name could be resolved: give up on this result for now.
SkipUnnamed(t) ==
    /\ pc[t] = "scanned" /\ ~found[t]
    /\ Spend("unnamed") /\ Proceed(t, cur[t])
    /\ UNCHANGED <<mem, inflight, wkr, fut, dels, chan, disk, acked>>

NeverTaken(v) == FALSE  \* faulty variant
Taken(v) == v \in inflight

SkipInflight(t) ==
    /\ pc[t] = "scanned" /\ ~found[t] /\ Taken(VidOf(cur[t]))
    /\ Proceed(t, cur[t])
    /\ UNCHANGED <<mem, inflight, wkr, fut, dels, chan, disk, acked, faults>>

-----------------------------------------------------------------------------
\* _post: claim the video under _ANNOUNCE_LOCK (never held across an await),
\* look again, send, clean up; the finally clause releases the claim.
Release(t) == inflight \ {VidOf(cur[t])}

Finish(t) ==
    /\ inflight' = Release(t)
    /\ Record(cur[t]) /\ Proceed(t, cur[t])

Claim(t) ==
    /\ pc[t] = "scanned" /\ ~found[t] /\ ~Taken(VidOf(cur[t]))
    /\ VidOf(cur[t]) \notin cache
    /\ inflight' = inflight \union {VidOf(cur[t])}
    /\ pc' = [pc EXCEPT ![t] = "rescan"]
    /\ UNCHANGED <<mem, wkr, fut, todo, cur, found, dels, chan, disk, acked, faults>>

\* Claim, cache hit inside _post and release, without an await in between.
ClaimCached(t) ==
    /\ pc[t] = "scanned" /\ ~found[t] /\ ~Taken(VidOf(cur[t]))
    /\ VidOf(cur[t]) \in cache
    /\ Finish(t)
    /\ UNCHANGED <<cache, ready, wkr, fut, dels, chan, acked, faults>>

\* _post returns without sending: the video is in the history, _send_queued
\* gave up (cooldown, full queue), or the worker answered None.
Room == Len(queue) < QMax

NotSent(t) ==
    \/ pc[t] = "rescanned" /\ (found[t] \/ cooldown \/ ~Room)
    \/ pc[t] = "wait" /\ fut[t] = "refused"

Drop(t) ==
    /\ NotSent(t)
    /\ fut' = [fut EXCEPT ![t] = "none"]
    /\ Finish(t)
    /\ UNCHANGED <<cache, ready, wkr, dels, chan, acked, faults>>

Enqueue(t) ==
    /\ pc[t] = "rescanned"
    /\ ~found[t] /\ ~cooldown /\ Room
    /\ queue' = Append(queue, t)
    /\ fut' = [fut EXCEPT ![t] = "pending"]
    /\ pc' = [pc EXCEPT ![t] = "wait"]
    /\ UNCHANGED <<mem, inflight, sending, wire, cooldown, todo, cur, found, dels,
                   chan, disk, acked, faults>>

\* "return await fut" of _send_queued.
Sent(t) ==
    /\ pc[t] = "wait" /\ fut[t] = "msg"
    /\ cache' = cache \union {VidOf(cur[t])}
    /\ fut' = [fut EXCEPT ![t] = "none"]
    /\ pc' = [pc EXCEPT ![t] = "sweep"]
    /\ UNCHANGED <<annMap, annVids, ready, inflight, wkr, todo, cur, found, dels,
                   chan, disk, acked, faults>>

\* The send raised: release the claim and record nothing.
RecordAnyway(t) == Finish(t)  \* faulty variant

GiveUp(t) ==
    /\ inflight' = Release(t)
    /\ Proceed(t, cur[t])
    /\ UNCHANGED <<annMap, annVids, disk>>

SendFailed(t) ==
    /\ pc[t] = "wait" /\ fut[t] = "error"
    /\ fut' = [fut EXCEPT ![t] = "none"]
    /\ GiveUp(t)
    /\ UNCHANGED <<cache, ready, wkr, dels, chan, acked, faults>>

\* _cleanup_duplicate_announcements: the newest copies but their oldest.
KeepNewest(v) ==  \* faulty variant
    {i \in NewestCopies(v) : \E j \in NewestCopies(v) : i < j}
SweepList(v) == {i \in NewestCopies(v) : OlderCopy(i, NewestCopies(v))}

Sweep(t) ==
    /\ pc[t] = "sweep"
    /\ SweepList(VidOf(cur[t])) # {}
    /\ dels' = [dels EXCEPT ![t] = SweepList(VidOf(cur[t]))]
    /\ pc' = [pc EXCEPT ![t] = "delete"]
    /\ UNCHANGED <<mem, inflight, wkr, fut, todo, cur, found, chan, disk, acked, faults>>

NothingToSweep(t) ==
    /\ pc[t] = "sweep"
    /\ \/ SweepList(VidOf(cur[t])) = {} /\ UNCHANGED faults
       \/ Spend("history")
    /\ Finish(t)
    /\ UNCHANGED <<cache, ready, wkr, fut, dels, chan, acked>>

SweepDelete(t) ==
    /\ pc[t] = "delete"
    /\ DeleteOne(t)
    /\ \/ dels'[t] = {} /\ Finish(t)
       \/ /\ dels'[t] # {}
          /\ UNCHANGED <<annMap, annVids, inflight, disk, todo, cur, found, pc>>
    /\ UNCHANGED <<cache, ready, wkr, fut, acked>>

-----------------------------------------------------------------------------
\* _send_worker: take the oldest item, throttle, send it, answer its future.
WorkerGet ==
    /\ sending = None /\ queue # <<>>
    /\ queue' = Tail(queue)
    /\ IF cooldown
       THEN /\ fut' = [fut EXCEPT ![Head(queue)] = "refused"]
            /\ UNCHANGED <<sending, wire>>
       ELSE /\ sending' = Head(queue) /\ wire' = "sent"
            /\ UNCHANGED fut
    /\ UNCHANGED <<mem, inflight, cooldown, ctl, chan, disk, acked, faults>>

\* Discord creates the message.
Arrive ==
    /\ wire = "sent"
    /\ wire' = "arrived"
    /\ posted' = Append(posted, VidOf(cur[sending]))
    /\ channel' = channel \union {Len(posted) + 1}
    /\ UNCHANGED <<mem, inflight, queue, sending, cooldown, fut, ctl, disk, acked,
                   faults>>

AnswerSuccessOnly(answer) ==  \* faulty variant
    /\ sending' = None /\ wire' = "idle"
    /\ fut' = [fut EXCEPT ![sending] = IF answer = "msg" THEN answer ELSE @]
    /\ UNCHANGED <<mem, inflight, ctl, chan, disk>>

WorkerDone(answer) ==
    /\ sending' = None /\ wire' = "idle"
    /\ fut' = [fut EXCEPT ![sending] = answer]
    /\ UNCHANGED <<mem, inflight, ctl, chan, disk>>

WorkerOk ==
    /\ wire = "arrived"
    /\ acked' = acked \union {VidOf(cur[sending])}
    /\ WorkerDone("msg")
    /\ UNCHANGED <<queue, cooldown, faults>>

\* The send raises: Discord refused it, or the answer to it was lost.
WorkerError ==
    /\ \/ wire = "sent" /\ Spend("send")
       \/ wire = "arrived" /\ Spend("reply")
    /\ WorkerDone("error")
    /\ UNCHANGED <<queue, cooldown, acked>>

\* A Cloudflare 1015 answer: _engage_cloudflare_cooldown drains the queue and
\* leaves the futures of the drained items as they are.
NotDrained == queue  \* faulty variant
Drained == <<>>

Worker1015 ==
    /\ wire = "sent" /\ Spend("cloudflare")
    /\ WorkerDone("error")
    /\ queue' = Drained /\ cooldown' = TRUE
    /\ UNCHANGED acked

CooldownOver ==
    /\ cooldown /\ cooldown' = FALSE
    /\ UNCHANGED <<mem, inflight, queue, sending, wire, fut, ctl, chan, disk, acked,
                   faults>>

-----------------------------------------------------------------------------
\* The process dies and boots again; _write_json_best_effort rewrites the file
\* in place, so a crash inside a save ("torn") leaves one that reads as empty.
Crash ==
    /\ \/ Spend("crash") /\ UNCHANGED disk
       \/ Spend("torn") /\ disk' = Empty
    /\ Boot(disk')
    /\ UNCHANGED chan

\* Another instance of the bot, which shares the account and the channel.
OtherPost(v) ==
    /\ Spend("other")
    /\ posted' = Append(posted, v)
    /\ channel' = channel \union {Len(posted) + 1}
    /\ UNCHANGED <<mem, inflight, wkr, fut, ctl, disk, acked>>

TaskStep(t) ==
    \/ BootWarm(t) \/ BootSweep(t) \/ BootDelete(t)
    \/ SkipKnown(t) \/ SuppressOld(t) \/ SkipCached(t) \/ StartLook(t)
    \/ Warm(t) \/ Scan(t, "scan", "scanned")
    \/ SkipFound(t) \/ SkipUnnamed(t) \/ SkipInflight(t)
    \/ Claim(t) \/ ClaimCached(t)
    \/ Scan(t, "rescan", "rescanned") \/ Drop(t) \/ Enqueue(t)
    \/ Sent(t) \/ SendFailed(t) \/ Sweep(t) \/ NothingToSweep(t) \/ SweepDelete(t)

WorkerStep == WorkerGet \/ Arrive \/ WorkerOk \/ WorkerError \/ Worker1015

Next ==
    \/ \E t \in Tasks : Tick(t) \/ TaskStep(t)
    \/ WorkerStep
    \/ CooldownOver
    \/ Crash
    \/ \E v \in Vids : OtherPost(v)

Spec == Init /\ [][Next]_vars

\* The event loop runs every task that is not blocked, the poll loop ticks
\* again and again, a request is answered and a cooldown ends.
Fairness ==
    /\ \A t \in Tasks : WF_vars(TaskStep(t))
    /\ WF_vars(Tick(Poll))
    /\ WF_vars(WorkerStep)
    /\ WF_vars(CooldownOver)

FairSpec == Spec /\ Fairness
-----------------------------------------------------------------------------
DiskType == [map : [Keys -> Vids \union {None}], vids : SUBSET Vids]

MemType ==
    /\ annMap \in [Keys -> Vids \union {None}] /\ annVids \subseteq Vids
    /\ cache \subseteq Vids /\ ready \in BOOLEAN
    /\ inflight \subseteq Vids /\ acked \subseteq Vids
    /\ disk \in DiskType

WorkerType ==
    /\ queue \in Seq(Tasks) /\ Len(queue) <= QMax
    /\ sending \in Tasks \union {None} /\ wire \in {"idle", "sent", "arrived"}
    /\ (sending = None) <=> (wire = "idle")
    /\ cooldown \in BOOLEAN

LookPhase == {"warm", "scan", "scanned"}
PostPhase == {"rescan", "rescanned", "wait", "sweep", "delete"}
RestPhase == {"bootwarm", "bootsweep", "bootdelete", "idle", "judge"}

TaskType ==
    /\ pc \in [Tasks -> RestPhase \union LookPhase \union PostPhase]
    /\ fut \in [Tasks -> {"none", "pending", "msg", "refused", "error"}]
    /\ todo \in [Tasks -> SUBSET Feed] /\ cur \in [Tasks -> Feed \union {None}]
    /\ found \in [Tasks -> BOOLEAN]

ChannelType ==
    /\ posted \in Seq(Vids) /\ channel \subseteq 1 .. Len(posted)
    /\ dels \in [Tasks -> SUBSET (1 .. Len(posted))]

TypeOK ==
    /\ MemType /\ WorkerType /\ TaskType /\ ChannelType
    /\ faults \in 0 .. MaxFaults

\* While the worker sends an item, no announcement of the same video was already
\* acknowledged in this boot: no interleaving of the poll loop, the ingest
\* handlers and the worker posts a video twice (_INFLIGHT_VIDS, the cache).
NoResendInBoot ==
    sending # None => VidOf(cur[sending]) \notin acked

\* No video is posted twice, over all boots: with readable history, neither a
\* failed send, a lost answer, a crash nor an empty state file makes the bot
\* announce again (the two history scans of _maybe_announce_live_result and _post).
NoDuplicatePosts ==
    \A i, j \in 1 .. Len(posted) : posted[i] = posted[j] => i = j

\* _INFLIGHT_VIDS holds the videos of the tasks inside _post, one task each:
\* a claim is never shared and never leaks, whichever way _post ends.
InflightExact ==
    LET Posting == {t \in Tasks : pc[t] \in PostPhase} IN
    /\ inflight = {VidOf(cur[t]) : t \in Posting}
    /\ \A t, u \in Posting : VidOf(cur[t]) = VidOf(cur[u]) => t = u

\* During a Cloudflare cooldown nothing is queued and nothing is being sent, so
\* no burst follows it (the comment in _engage_cloudflare_cooldown).
QuietInCooldown ==
    cooldown => queue = <<>> /\ sending = None

\* A video that was posted and is in the saved state is never sent again, even
\* after restarts and without the channel history (announced_vids).
RecordedNeverResent ==
    [][sending = None /\ sending' # None =>
         ~ /\ VidOf(cur[sending']) \in disk.vids
           /\ \E i \in 1 .. Len(posted) : posted[i] = VidOf(cur[sending'])]_vars

\* The channel as its readers see it: a log of posts of which only duplicates
\* of an older visible message are withdrawn.
Log == INSTANCE ChannelLog WITH log <- posted, shown <- channel

\* The announcer implements the log: no clean-up, however it interleaves with
\* posts and other clean-ups, withdraws the oldest visible copy of a video.
ImplementsLog == Log!Spec

\* "Never let the announce loop die due to a send error" (_post): the poll loop
\* comes back to its idle state again and again.
PollReturns == []<>(pc[Poll] = "idle")

\* Every video some target keeps reporting live is announced in the end: a failed
\* send, a lost answer, a failed check or a crash is made up for by a later tick.
LiveEventuallyPosted ==
    \A v \in Vids :
        []<>(\E r \in todo[Poll] : VidOf(r) = v)
            => <>(\E i \in 1 .. Len(posted) : posted[i] = v)
=============================================================================
