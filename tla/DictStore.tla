----------------------------- MODULE DictStore ------------------------------
(***************************************************************************)
(* The translator's offline dictionary, nixe/translate/local_dict_store.py *)
(* over nixe/storage/gdrive.py: a Drive folder (manifest and parts) copied *)
(* to /tmp once per store, again when its manifest changed, and an SQLite  *)
(* index from word to part, built by the first lookup.  Downloads run on   *)
(* the event loop under the store's lock, lookups on executor threads.     *)
(* Configured as deployed: DICT_GDRIVE_SPLIT_ONLY, DICT_GDRIVE_REFRESH and *)
(* one language; there is no monolithic file.                              *)
(***************************************************************************)
EXTENDS Naturals, FiniteSets

CONSTANTS
    Calls,       \* calls of lookup
    Words, Word, \* the word each call asks for
    Parts,
    Holder,      \* the part that holds a word, for each version of the dictionary
    FaultKinds,
    MaxStores, MaxVersion, MaxFaults, MaxBoots,  \* bounds of a run
    None

ASSUME DictAssumption ==
    /\ Word \in [Calls -> Words]
    /\ MaxVersion \in Nat \ {0} /\ MaxStores \in Nat \ {0}
    /\ Holder \in [1..MaxVersion -> [Words -> Parts \union {None}]]
    /\ None \notin Parts /\ "manifest" \notin Parts /\ None \notin {"hit", "miss", "error"}
    /\ MaxFaults \in Nat /\ MaxBoots \in Nat

Files == Parts \union {"manifest"}

VARIABLES
    remote,   \* the version in the Drive folder
    disk,     \* the version of each local file, 0 if there is none
    half,     \* local files whose download broke off
    marker,   \* .remote_manifest_meta.txt: the version it names, 0 if none
    hasIndex, \* the index file exists
    index,    \* its committed rows
    store,    \* the cog's LocalDictStore, numbered
    ready,    \* of each store: _bootstrapped
    boot,     \* the request its bootstrap waits for, under _lock
    mark,     \* the version its bootstrap is downloading, 0 if unknown
    fetch,    \* the files it has to download
    at, of,   \* of each call: where it is, the store it runs on
    left,     \* the parts it has to index
    rows,     \* the rows it inserted and did not commit
    ans,      \* "hit", "miss", "error" when it ended
    torn,     \* history: an unfinished index was read, or its builder died
    faults, boots

drive == <<disk, half, marker, boot, mark, fetch, ready>>
thread == <<at, of, left, rows, ans>>
dict == <<remote, drive, hasIndex, index, store, thread, torn>>

NoRows == [w \in Words |-> None]

Spend(kind) == kind \in FaultKinds /\ faults < MaxFaults /\ faults' = faults + 1

DictInit ==
    /\ remote = 1 /\ disk = [f \in Files |-> 0] /\ half = {} /\ marker = 0
    /\ hasIndex = FALSE /\ index = NoRows
    /\ store = 1 /\ ready = [s \in 1..MaxStores |-> FALSE]
    /\ boot = [s \in 1..MaxStores |-> "idle"]
    /\ mark = [s \in 1..MaxStores |-> 0] /\ fetch = [s \in 1..MaxStores |-> {}]
    /\ at = [c \in Calls |-> "off"] /\ of = [c \in Calls |-> 0]
    /\ left = [c \in Calls |-> {}] /\ rows = [c \in Calls |-> NoRows]
    /\ ans = [c \in Calls |-> None]
    /\ torn = FALSE

-----------------------------------------------------------------------------
\* lookup: the first to come downloads, the others wait for the lock.
Begin(c) ==
    /\ at[c] = "off"
    /\ at' = [at EXCEPT ![c] = "boot"] /\ of' = [of EXCEPT ![c] = store]
    /\ UNCHANGED <<left, rows, ans>>

Awaited(s) == \E c \in Calls : at[c] = "boot" /\ of[c] = s

\* _bootstrapped is set whatever happened.
Booted(s) == ready' = [ready EXCEPT ![s] = TRUE] /\ boot' = [boot EXCEPT ![s] = "idle"]

\* Files are opened in place, in the order the folder lists them.
Wipe(s, version) ==
    /\ disk' = [f \in Files |-> 0] /\ half' = {} /\ marker' = 0
    /\ mark' = [mark EXCEPT ![s] = version]
    /\ boot' = [boot EXCEPT ![s] = "list"] /\ UNCHANGED ready

Find(s) ==
    /\ Awaited(s) /\ ~ready[s] /\ boot[s] = "idle"
    /\ \/ /\ disk["manifest"] # 0 /\ boot' = [boot EXCEPT ![s] = "compare"]
          /\ UNCHANGED <<disk, half, marker, mark, ready, faults>>
       \/ disk["manifest"] = 0 /\ Wipe(s, 0) /\ UNCHANGED faults
       \/ Spend("drive") /\ Booted(s) /\ UNCHANGED <<disk, half, marker, mark>>
    /\ UNCHANGED fetch

\* The remote manifest's time and size against the marker; a comparison that fails is
\* followed by the download.
Compare(s) ==
    /\ boot[s] = "compare"
    /\ \/ marker = remote /\ Booted(s) /\ UNCHANGED <<disk, half, marker, mark, faults>>
       \/ marker # remote /\ Wipe(s, remote) /\ UNCHANGED faults
       \/ Spend("drive") /\ Wipe(s, 0)
    /\ UNCHANGED fetch

List(s) ==
    /\ boot[s] = "list"
    /\ \/ boot' = [boot EXCEPT ![s] = "file"] /\ fetch' = [fetch EXCEPT ![s] = Files]
          /\ UNCHANGED <<ready, faults>>
       \/ Spend("drive") /\ Booted(s) /\ UNCHANGED fetch
    /\ UNCHANGED <<disk, half, marker, mark>>

\* The marker is written after the last file.
File(s, f) ==
    /\ boot[s] = "file" /\ f \in fetch[s]
    /\ fetch' = [fetch EXCEPT ![s] = @ \ {f}]
    /\ \/ /\ disk' = [disk EXCEPT ![f] = remote] /\ half' = half \ {f} /\ UNCHANGED faults
          /\ IF fetch[s] = {f} THEN Booted(s) /\ marker' = mark[s]
             ELSE UNCHANGED <<ready, boot, marker>>
       \/ /\ Spend("drive") /\ Booted(s) /\ UNCHANGED <<disk, half, marker>>
       \/ /\ Spend("torn") /\ Booted(s) /\ disk' = [disk EXCEPT ![f] = remote]
          /\ half' = half \union {f} /\ UNCHANGED marker
    /\ UNCHANGED mark

Download(s) ==
    /\ Find(s) \/ Compare(s) \/ List(s) \/ \E f \in Files : File(s, f)
    /\ UNCHANGED <<remote, hasIndex, index, store, thread, torn>>

-----------------------------------------------------------------------------
Go(c, where) == at' = [at EXCEPT ![c] = where] /\ UNCHANGED <<of, ans>>

End(c, answer) ==
    /\ at' = [at EXCEPT ![c] = "done"] /\ ans' = [ans EXCEPT ![c] = answer] /\ UNCHANGED of

\* The part f holds the word in the version that is on disk.
Holds(f, w) == disk[f] # 0 /\ Holder[disk[f]][w] = f

Unindexed == UNCHANGED <<hasIndex, index, left, rows, torn>>

Ready(c) == at[c] = "boot" /\ ready[of[c]] /\ Go(c, "manifest") /\ Unindexed

Manifest(c) ==
    /\ at[c] = "manifest"
    /\ IF disk["manifest"] = 0 \/ "manifest" \in half THEN End(c, "miss") ELSE Go(c, "index")
    /\ Unindexed

\* An index file that is there is taken for the index of what is on disk.
UseIndex(c) ==
    /\ at[c] = "index"
    /\ Go(c, IF hasIndex THEN "select" ELSE "create") /\ Unindexed

Create(c) ==
    /\ at[c] = "create"
    /\ hasIndex' = TRUE /\ left' = [left EXCEPT ![c] = Parts] /\ Go(c, "build")
    /\ UNCHANGED <<index, rows, torn>>

\* INSERT OR IGNORE, then COMMIT: at the end, or at a batch boundary before.
With(old, new) == [w \in Words |-> IF old[w] # None THEN old[w] ELSE new[w]]

RowsOf(p) == [w \in Words |-> IF Holds(p, w) THEN p ELSE None]

\* faulty variant: the rows are never committed
NoCommit(c, all) == rows' = [rows EXCEPT ![c] = NoRows] /\ UNCHANGED index

Commit(c, all) == index' = With(index, all) /\ rows' = [rows EXCEPT ![c] = NoRows]

Build(c, p) ==
    /\ at[c] = "build" /\ p \in left[c]
    /\ LET all == With(rows[c], RowsOf(p)) IN
       IF p \in half
       THEN End(c, "error") /\ rows' = [rows EXCEPT ![c] = NoRows] /\ torn' = TRUE
            /\ UNCHANGED <<index, left>>
       ELSE /\ left' = [left EXCEPT ![c] = @ \ {p}] /\ UNCHANGED torn
            /\ IF left[c] = {p} THEN Commit(c, all) /\ Go(c, "select")
               ELSE /\ UNCHANGED <<at, of, ans>>
                    /\ \/ Commit(c, all)
                       \/ rows' = [rows EXCEPT ![c] = all] /\ UNCHANGED index
    /\ UNCHANGED hasIndex

Building == \E c \in Calls : at[c] = "build"

Select(c) ==
    /\ at[c] = "select"
    /\ IF index[Word[c]] = None THEN End(c, "miss") ELSE Go(c, "scan")
    /\ torn' = (torn \/ Building)
    /\ UNCHANGED <<hasIndex, index, left, rows>>

Scan(c) ==
    /\ at[c] = "scan"
    /\ LET p == index[Word[c]] IN
       IF p \in half THEN End(c, "error")
       ELSE End(c, IF Holds(p, Word[c]) THEN "hit" ELSE "miss")
    /\ Unindexed

Lookup(c) ==
    /\ \/ Ready(c) \/ Manifest(c) \/ UseIndex(c) \/ Create(c) \/ Select(c) \/ Scan(c)
       \/ \E p \in Parts : Build(c, p)
    /\ UNCHANGED <<remote, drive, store, faults>>

-----------------------------------------------------------------------------
\* A new dictionary is uploaded.
Publish ==
    /\ remote < MaxVersion /\ remote' = remote + 1
    /\ UNCHANGED <<drive, hasIndex, index, store, thread, torn>>

\* The cog makes itself a new store; calls on the old one go on.
Replace ==
    /\ store < MaxStores /\ store' = store + 1
    /\ UNCHANGED <<remote, drive, hasIndex, index, thread, torn>>

\* The process dies; its disk stays.  The numbers of the stores go on: that one was
\* replaced is not forgotten.
DictRestart ==
    /\ ready' = [s \in 1..MaxStores |-> FALSE]
    /\ boot' = [s \in 1..MaxStores |-> "idle"]
    /\ mark' = [s \in 1..MaxStores |-> 0] /\ fetch' = [s \in 1..MaxStores |-> {}]
    /\ at' = [c \in Calls |-> "off"] /\ of' = [c \in Calls |-> 0]
    /\ left' = [c \in Calls |-> {}] /\ rows' = [c \in Calls |-> NoRows]
    /\ ans' = [c \in Calls |-> None]
    /\ torn' = (torn \/ Building)
    /\ UNCHANGED <<remote, disk, half, marker, hasIndex, index, store>>

-----------------------------------------------------------------------------
Threads == {"manifest", "index", "create", "build", "select", "scan"}

DictTypeOK ==
    /\ remote \in 1..MaxVersion /\ disk \in [Files -> 0..MaxVersion] /\ half \subseteq Files
    /\ marker \in 0..MaxVersion /\ hasIndex \in BOOLEAN
    /\ index \in [Words -> Parts \union {None}]
    /\ store \in 1..MaxStores /\ ready \in [1..MaxStores -> BOOLEAN]
    /\ boot \in [1..MaxStores -> {"idle", "compare", "list", "file"}]
    /\ mark \in [1..MaxStores -> 0..MaxVersion]
    /\ fetch \in [1..MaxStores -> SUBSET Files]
    /\ at \in [Calls -> Threads \union {"off", "boot", "done"}]
    /\ of \in [Calls -> 0..MaxStores] /\ left \in [Calls -> SUBSET Parts]
    /\ rows \in [Calls -> [Words -> Parts \union {None}]]
    /\ ans \in [Calls -> {"hit", "miss", "error", None}]
    /\ torn \in BOOLEAN

\* While nothing failed, no dictionary was uploaded, the store was never replaced and no
\* unfinished index was met, a call finds every word the dictionary has.
FoundInCalm ==
    \A c \in Calls :
        ans[c] \in {"miss", "error"} /\ Holder[1][Word[c]] # None =>
            faults > 0 \/ remote > 1 \/ store > 1 \/ torn
=============================================================================
