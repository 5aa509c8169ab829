----------------------------- MODULE Watchlist -----------------------------
(***************************************************************************)
(* The watchlist of nixe/cogs/a21_youtube_wuwa_live_announce.py.  A target *)
(* that a moderator posts in the watchlist thread is written to a local    *)
(* file and from there to the JSON attachment of a store message, which is *)
(* what survives a lost disk; then the moderator's message is deleted.     *)
(* The poll loop, a bootstrap task and one on_message task per message     *)
(* share the file and the store.                                           *)
(*                                                                         *)
(* A step of a task runs from one await to the next.  A target stands for  *)
(* all entries that _merge_targets collapses, so merging is union.         *)
(***************************************************************************)
EXTENDS Naturals, Sequences, FiniteSets

CONSTANTS
    Loop, Ready, \* the poll loop, and the bootstrap task that on_ready creates
    Msgs,        \* moderators' messages; each is also its on_message task
    Targets,
    Files,       \* the messages whose targets are in an attached .txt or .json file
    Carries,     \* the targets a message names
    Deploy,      \* the targets of the watchlist file that is deployed
    MaxPosts,    \* bound on the messages that are posted
    MaxFaults,   \* bound on the Discord requests that fail
    MaxCrashes,  \* bound on the restarts
    None

Tasks == {Loop, Ready} \union Msgs

ASSUME ConstAssumption ==
    /\ Loop # Ready /\ Loop \notin Msgs /\ Ready \notin Msgs /\ Files \subseteq Msgs
    /\ Carries \in [Msgs -> SUBSET Targets] /\ Deploy \subseteq Targets
    /\ MaxFaults \in Nat /\ MaxCrashes \in Nat
    /\ \A S \in SUBSET Targets : S # None

VARIABLES
    disk,    \* the targets in WATCHLIST_PATH, and in self.watch: every step that writes the
             \* file also reloads it
    dirty,   \* now < _watchlist_local_dirty_until
    stores,  \* the attachments of the store messages ever sent; the index is the id
    open,    \* ids of those that carry the canonical marker
    mid,     \* state["watchlist_store_mid"], 0 when unset
    thread,  \* moderators' messages visible in the thread
    pc,      \* the await each task is at
    buf,     \* the targets it will write
    seen,    \* what its last request to Discord returned
    at,      \* the store message it is about to edit
    calm,    \* history: no task was started while another one was at work
    faults, crashes

file   == <<disk, dirty>>
chan   == <<stores, open, mid, thread>>
locals == <<buf, seen, at>>
hist   == <<calm, faults, crashes>>
vars   == <<file, chan, pc, locals, hist>>

\* The messages of S are not yet posted, and may be.
MayPost(S) ==
    /\ \A m \in S : pc[m] = "unposted"
    /\ Cardinality({m \in Msgs : pc[m] # "unposted"} \union S) <= MaxPosts

Goto(t, where) == pc' = [pc EXCEPT ![t] = where]

Fail == faults < MaxFaults /\ faults' = faults + 1

\* The task comes to its end, or to the next await, with nothing in its hands.
Leave(t, where) ==
    /\ Goto(t, where)
    /\ buf' = [buf EXCEPT ![t] = {}] /\ seen' = [seen EXCEPT ![t] = None]
    /\ at' = [at EXCEPT ![t] = 0]

AtRest(t) == pc[t] \in {"unposted", "done", "idle"}
AtWork(t) == ~AtRest(t) /\ pc[t] \notin {"merge", "ready"}

Newest == CHOOSE i \in open \union {0} : \A j \in open : j <= i

\* The canonical store message: the remembered one, else the newest with the marker.
Current == IF mid \in open THEN mid ELSE Newest

Content(i) == IF i = 0 THEN None ELSE stores[i]

\* The messages whose text names targets: all that a scan of the thread can read.
Scanned == {m \in thread \ Files : Carries[m] # {}}

InThread == UNION {Carries[m] : m \in Scanned}

Init ==
    /\ disk = Deploy /\ dirty = FALSE
    /\ stores = <<>> /\ open = {} /\ mid = 0 /\ thread = {}
    /\ pc = [t \in Tasks |-> CASE t = Loop -> "merge" [] t = Ready -> "ready"
                               [] OTHER -> "unposted"]
    /\ buf = [t \in Tasks |-> {}] /\ seen = [t \in Tasks |-> None]
    /\ at = [t \in Tasks |-> 0]
    /\ calm = TRUE /\ faults = 0 /\ crashes = 0

-----------------------------------------------------------------------------
\* _load_watchlist_from_store_attachment: a failed fetch falls back to a scan for
\* the newest one; when that or the download fails, there is no result.
Fetch(t) ==
    \E i \in {Current, Newest, 0} :
       /\ IF i = Current THEN UNCHANGED faults ELSE Fail
       /\ seen' = [seen EXCEPT ![t] = Content(i)]
       /\ mid' = IF i = 0 THEN mid ELSE i

HasTargets(t) == seen[t] \notin {None, {}}

\* before_loop: merge the store into the local file.
MergeLoad ==
    /\ pc[Loop] = "merge"
    /\ Fetch(Loop) /\ Goto(Loop, "merged")
    /\ calm' = (calm /\ ~AtWork(Ready) /\ \A m \in Msgs : AtRest(m))
    /\ UNCHANGED <<file, stores, open, thread, buf, at, crashes>>

Merge ==
    /\ pc[Loop] = "merged"
    /\ IF HasTargets(Loop) /\ ~(seen[Loop] \subseteq disk)
       THEN /\ disk' = disk \union seen[Loop]
            /\ buf' = [buf EXCEPT ![Loop] = disk']
            /\ Goto(Loop, "enrich") /\ UNCHANGED <<seen, at>>
       ELSE Leave(Loop, "boot") /\ UNCHANGED disk
    /\ UNCHANGED <<dirty, chan, hist>>

\* _bootstrap_watchlist_from_thread, run by before_loop and by on_ready's task.
BootLoad(t) ==
    /\ pc[t] \in {"boot", "ready"}
    /\ buf' = [buf EXCEPT ![t] = disk]
    /\ Fetch(t) /\ Goto(t, "bootmerge")
    /\ calm' = (calm /\ \A u \in Tasks \ {t} : ~AtWork(u))
    /\ UNCHANGED <<file, stores, open, thread, at, crashes>>

AfterSync(t) ==
    IF t = Loop THEN "idle" ELSE IF t = Ready THEN "done" ELSE "clean"

WithStore(t) == IF HasTargets(t) THEN seen[t] \union buf[t] ELSE buf[t]

BootMerge(t) ==
    /\ pc[t] = "bootmerge"
    /\ disk' = IF HasTargets(t) THEN WithStore(t) ELSE disk
    /\ \/ /\ buf' = [buf EXCEPT ![t] = WithStore(t)]
          /\ seen' = [seen EXCEPT ![t] = InThread]
          /\ Goto(t, "bootscan") /\ UNCHANGED <<at, faults>>
       \/ Fail /\ Leave(t, AfterSync(t))
    /\ UNCHANGED <<dirty, chan, calm, crashes>>

BootScan(t) ==
    /\ pc[t] = "bootscan"
    /\ disk' = IF seen[t] \subseteq buf[t] THEN disk ELSE buf[t] \union seen[t]
    /\ buf' = [buf EXCEPT ![t] = disk']
    /\ seen' = [seen EXCEPT ![t] = None]
    /\ Goto(t, "find")
    /\ UNCHANGED <<dirty, chan, at, hist>>

-----------------------------------------------------------------------------
\* _ingest_watchlist_message, up to its first lookup of a channel name.
StartIngest(m) ==
    IF Carries[m] \subseteq disk
    THEN Goto(m, "check") /\ UNCHANGED buf
    ELSE Goto(m, "names") /\ buf' = [buf EXCEPT ![m] = disk \union Carries[m]]

\* on_message, up to its first await: an attached file is downloaded first ...
Post(m) ==
    /\ MayPost({m})
    /\ thread' = thread \union {m}
    /\ IF m \in Files THEN Goto(m, "read") /\ UNCHANGED buf ELSE StartIngest(m)
    /\ calm' = (calm /\ \A t \in Tasks \ {m} : AtRest(t))
    /\ UNCHANGED <<file, stores, open, mid, seen, at, faults, crashes>>

\* ... and a message that leaves no text is only deleted.
Read(m) ==
    /\ pc[m] = "read"
    /\ \/ StartIngest(m) /\ UNCHANGED faults
       \/ Fail /\ Goto(m, "delete") /\ UNCHANGED buf
    /\ UNCHANGED <<file, chan, seen, at, calm, crashes>>

Ingest(m) ==
    /\ pc[m] = "names"
    /\ disk' = buf[m] /\ dirty' = TRUE
    /\ Goto(m, "enrich")
    /\ UNCHANGED <<chan, locals, hist>>

\* _enrich_watchlist_names writes the file it read before its lookups, if they found
\* a name.
Enrich(t) ==
    /\ pc[t] = "enrich"
    /\ disk' = buf[t] \/ UNCHANGED disk
    /\ Leave(t, IF t = Loop THEN "boot" ELSE "check")
    /\ UNCHANGED <<dirty, chan, hist>>

\* The live check of the new targets is over (see LiveAnnounce).
SyncStart(m) ==
    /\ pc[m] = "check"
    /\ \/ Goto(m, "find") /\ buf' = [buf EXCEPT ![m] = disk] /\ UNCHANGED faults
       \/ Fail /\ Goto(m, "delete") /\ UNCHANGED buf
    /\ UNCHANGED <<file, chan, seen, at, calm, crashes>>

-----------------------------------------------------------------------------
\* _sync_watchlist_store_message: _find_or_create_watchlist_store_message, ...
Find(t) ==
    /\ pc[t] = "find"
    /\ \E i \in {Current, Newest, 0} :
          /\ IF i = Current THEN UNCHANGED faults ELSE Fail
          /\ at' = [at EXCEPT ![t] = i]
          /\ mid' = IF i = 0 THEN mid ELSE i
          /\ IF i = 0
             THEN Goto(t, "create") /\ seen' = [seen EXCEPT ![t] = disk]
             ELSE Goto(t, "load") /\ UNCHANGED seen
    /\ UNCHANGED <<file, stores, open, thread, buf, calm, crashes>>

\* A new store message with targets S.
Send(S) ==
    /\ stores' = Append(stores, S)
    /\ mid' = Len(stores) + 1

Create(t) ==
    /\ pc[t] = "create"
    /\ \/ /\ Send(seen[t]) /\ open' = open \union {mid'}
          /\ at' = [at EXCEPT ![t] = mid'] /\ seen' = [seen EXCEPT ![t] = None]
          /\ Goto(t, "load") /\ UNCHANGED <<buf, faults>>
       \/ Fail /\ Leave(t, AfterSync(t)) /\ UNCHANGED <<stores, open, mid>>
    /\ UNCHANGED <<file, thread, calm, crashes>>

\* ... the comparison with its attachment ...
Load(t) ==
    /\ pc[t] = "load"
    /\ Fetch(t) /\ Goto(t, "edit")
    /\ UNCHANGED <<file, stores, open, thread, buf, at, calm, crashes>>

\* Faulty variant: an attachment that could be read is not replaced.
EditMissing(t) ==
    /\ pc[t] = "edit"
    /\ stores' = IF HasTargets(t) THEN stores ELSE [stores EXCEPT ![at[t]] = buf[t]]
    /\ mid' = at[t] /\ open' = open \union {at[t]}
    /\ Leave(t, AfterSync(t))
    /\ UNCHANGED <<file, thread, hist>>

\* ... and the edit, which sets the marker again.
Edit(t) ==
    /\ pc[t] = "edit"
    /\ stores' = IF seen[t] = buf[t] THEN stores ELSE [stores EXCEPT ![at[t]] = buf[t]]
    /\ mid' = at[t] /\ open' = open \union {at[t]}
    /\ Leave(t, AfterSync(t))
    /\ UNCHANGED <<file, thread, hist>>

\* It fails: send a new store message and take the marker from the old one.
Supersede(t) ==
    /\ pc[t] = "edit" /\ Fail
    /\ \/ seen[t] = buf[t] /\ mid' = at[t] /\ UNCHANGED <<stores, open>>
       \/ /\ seen[t] # buf[t] /\ Send(buf[t])
          /\ \/ open' = (open \ {at[t]}) \union {mid'}
             \/ open' = open \union {mid'}
       \/ seen[t] # buf[t] /\ UNCHANGED <<stores, open, mid>>
    /\ Leave(t, AfterSync(t))
    /\ UNCHANGED <<file, thread, calm, crashes>>

\* _cleanup_watchlist_thread deletes the messages whose text names targets, whoever
\* posted them.
Clean(m) ==
    /\ pc[m] = "clean"
    /\ \/ mid = 0 /\ UNCHANGED <<thread, faults>>
       \/ mid # 0 /\ thread' = thread \ Scanned /\ UNCHANGED faults
       \/ mid # 0 /\ Fail /\ \E S \in SUBSET Scanned : thread' = thread \ S
    /\ Goto(m, "delete")
    /\ UNCHANGED <<file, stores, open, mid, locals, calm, crashes>>

Delete(m) ==
    /\ pc[m] = "delete"
    /\ \/ thread' = thread \ {m} /\ UNCHANGED faults
       \/ Fail /\ UNCHANGED thread
    /\ Goto(m, "done")
    /\ UNCHANGED <<file, stores, open, mid, locals, calm, crashes>>

-----------------------------------------------------------------------------
\* loop: _pull_watchlist_from_thread_store, unless a target was just ingested, and
\* _reload_watchlist.
Pull ==
    /\ pc[Loop] = "idle" /\ ~dirty
    /\ Fetch(Loop) /\ Goto(Loop, "pull")
    /\ calm' = (calm /\ \A t \in Tasks \ {Loop} : ~AtWork(t))
    /\ UNCHANGED <<file, stores, open, thread, buf, at, crashes>>

KeepLocal == disk  \* faulty variant
Pulled == IF seen[Loop] = None THEN disk ELSE seen[Loop]

PullWrite ==
    /\ pc[Loop] = "pull"
    /\ disk' = Pulled
    /\ Leave(Loop, "idle")
    /\ UNCHANGED <<dirty, chan, hist>>

\* Only Pull reads dirty, so that the window passes is a step only where Pull may follow.
DirtyOver ==
    /\ dirty /\ pc[Loop] = "idle" /\ dirty' = FALSE
    /\ UNCHANGED <<disk, chan, pc, locals, hist>>

\* The process restarts: with its files, with a watchlist torn in a write (it reads as
\* empty), or on a fresh disk.  Messages posted meanwhile stay in the thread.
Restart ==
    /\ crashes < MaxCrashes /\ crashes' = crashes + 1
    /\ \/ UNCHANGED <<disk, mid>>
       \/ disk' = {} /\ UNCHANGED mid
       \/ disk' = Deploy /\ mid' = 0
    /\ dirty' = FALSE
    /\ \E S \in SUBSET Msgs :
          /\ MayPost(S) /\ thread' = thread \union S
          /\ pc' = [t \in Tasks |->
                      CASE t = Loop -> "merge" [] t = Ready -> "ready"
                        [] t \in Msgs /\ pc[t] = "unposted" /\ t \notin S -> "unposted"
                        [] OTHER -> "done"]
    /\ buf' = [t \in Tasks |-> {}] /\ seen' = [t \in Tasks |-> None]
    /\ at' = [t \in Tasks |-> 0]
    /\ UNCHANGED <<stores, open, calm, faults>>

SyncStep(t) == Find(t) \/ Create(t) \/ Load(t) \/ Edit(t) \/ Supersede(t)

BootStep(t) == BootLoad(t) \/ BootMerge(t) \/ BootScan(t) \/ SyncStep(t)

LoopStep == MergeLoad \/ Merge \/ Enrich(Loop) \/ BootStep(Loop) \/ Pull \/ PullWrite

Handler(m) ==
    Read(m) \/ Ingest(m) \/ Enrich(m) \/ SyncStart(m) \/ SyncStep(m) \/ Clean(m) \/ Delete(m)

Next ==
    \/ LoopStep \/ BootStep(Ready)
    \/ \E m \in Msgs : Post(m) \/ Handler(m)
    \/ DirtyOver \/ Restart

Spec == Init /\ [][Next]_vars

\* Requests are answered, the poll loop ticks, the dirty window passes.
Fairness ==
    /\ WF_vars(LoopStep) /\ WF_vars(BootStep(Ready)) /\ WF_vars(DirtyOver)
    /\ \A m \in Msgs : WF_vars(Handler(m))

FairSpec == Spec /\ Fairness
-----------------------------------------------------------------------------
SyncPcs    == {"find", "create", "load", "edit"}
BootPcs    == {"bootmerge", "bootscan"} \union SyncPcs
LoopPcs    == {"merge", "merged", "enrich", "boot", "idle", "pull"} \union BootPcs
ReadyPcs   == {"ready", "done"} \union BootPcs
HandlerPcs == {"unposted", "read", "names", "enrich", "check", "clean", "delete", "done"}
                 \union SyncPcs
AllPcs     == LoopPcs \union ReadyPcs \union HandlerPcs
PcsOf(t)   == IF t = Loop THEN LoopPcs ELSE IF t = Ready THEN ReadyPcs ELSE HandlerPcs

FileOK == disk \subseteq Targets /\ dirty \in BOOLEAN
ChanOK ==
    /\ stores \in Seq(SUBSET Targets)
    /\ open \subseteq 1 .. Len(stores) /\ mid \in 0 .. Len(stores)
    /\ thread \subseteq Msgs
LocalsOK ==
    /\ buf \in [Tasks -> SUBSET Targets] /\ seen \in [Tasks -> {None} \union SUBSET Targets]
    /\ at \in [Tasks -> 0 .. Len(stores)]
HistOK == calm \in BOOLEAN /\ faults \in 0 .. MaxFaults /\ crashes \in 0 .. MaxCrashes

TypeOK ==
    /\ FileOK /\ ChanOK /\ LocalsOK /\ HistOK
    /\ pc \in [Tasks -> AllPcs] /\ \A t \in Tasks : pc[t] \in PcsOf(t)
    /\ \A t \in Tasks : /\ pc[t] \in {"load", "edit"} => at[t] # 0
                        /\ pc[t] \in {"bootscan", "create"} => seen[t] # None

\* What a boot on a fresh disk finds: the newest store message and the thread.
Durable == InThread \union (IF Newest = 0 THEN {} ELSE stores[Newest])

\* Unless tasks overlapped or a request to Discord failed, a message that was posted is in
\* the thread until the store has its targets, and what is read after a restart on a fresh
\* disk, at any point, has the targets of every posted message, save those of an attached
\* file whose message is still there: the bootstrap scan reads no attachment.
SafeAlone ==
    calm /\ faults = 0 =>
        \A m \in Msgs : pc[m] # "unposted" /\ m \notin thread \intersect Files =>
            Carries[m] \subseteq Durable

\* After whatever overlaps, failures and restarts, the file and the store message come to
\* agree, so that what is polled does not drift from the store (the docstring of
\* _pull_watchlist_from_thread_store).
Converges == <>[](Current # 0 => disk = Content(Current))

\* All places a target can come back from: the file, every store message that is open, the
\* messages in the thread, and whatever any task holds.
Reach ==
    disk \union UNION {stores[i] : i \in open} \union UNION {Carries[m] : m \in thread}
         \union UNION {buf[t] \union (IF seen[t] = None THEN {} ELSE seen[t]) : t \in Tasks}

\* "Parse a single message and merge any new targets": once a message was handled, with
\* every request answered, its targets are somewhere (nobody removes any).
NothingLost ==
    faults = 0 /\ crashes = 0 => \A m \in Msgs : pc[m] = "done" => Carries[m] \subseteq Reach
=============================================================================
