----------------------------- MODULE OnceDedupe -----------------------------
(***************************************************************************)
(* nixe/helpers/once.py and once_store.py: once_sync(key, ttl) answers     *)
(* "first time" at most once per time to live, from a bounded map in       *)
(* memory backed by a SQLite table.  Either may forget: the map is purged  *)
(* under memory pressure and lost with the process, both drop entries over *)
(* their cap, and the table may be unreadable, full or gone after a deploy.*)
(* All callers run on the event loop and once_sync does not await, so a    *)
(* call is one step.                                                       *)
(***************************************************************************)
EXTENDS Naturals, FiniteSets

CONSTANTS
    Keys,
    Ttl,         \* the time to live each key is asked with
    MemMax,      \* _ONCE_MAX
    MemGcEvery,  \* _ONCE_GC_EVERY_SEC
    DbMax,       \* _PERSIST_MAX_ROWS
    DbGcEvery,   \* _PERSIST_GC_EVERY_SEC
    Start,       \* the clock when the behaviour starts
    MaxTime,     \* bound on the clock
    NoCall

\* The clock counts seconds since 1970; the clean-up intervals are far shorter.
ASSUME OnceAssumption ==
    /\ Ttl \in [Keys -> Nat \ {0}]
    /\ MemMax \in Nat \ {0} /\ DbMax \in Nat \ {0}
    /\ MemGcEvery \in Nat /\ DbGcEvery \in Nat \ {0}
    /\ Start \in Nat /\ Start >= MemGcEvery /\ Start >= DbGcEvery
    /\ MaxTime \in Nat /\ MaxTime >= Start
    /\ IsFiniteSet(Keys) /\ NoCall \notin Keys \X BOOLEAN

VARIABLES
    now,    \* time.time()
    seen,   \* _seen: expiry of a key, 0 if absent
    memGc,  \* once._last_gc
    exp,    \* expiry of a key's row in the table, 0 if absent
    ts,     \* time at which the row was written
    dbGc,   \* OnceStore._last_gc
    store,  \* the database: "up", "full" (writes fail), "down"
    reply,  \* key and answer of the call just made
    until,  \* history: when the last grant of a key expires
    lost    \* history: which of "mem" and "db" lost the last grant of a key

onceVars == <<now, seen, memGc, exp, ts, dbGc, store, reply, until, lost>>

OnceInit ==
    /\ now = Start
    /\ seen = [k \in Keys |-> 0] /\ memGc = 0
    /\ exp = [k \in Keys |-> 0] /\ ts = [k \in Keys |-> 0] /\ dbGc = 0
    /\ store = "up" /\ reply = NoCall
    /\ until = [k \in Keys |-> 0] /\ lost = [k \in Keys |-> {}]

-----------------------------------------------------------------------------
\* The keys whose value in f lies in the future.
Live(f) == {k \in Keys : f[k] > now}

Only(f, S) == [k \in Keys |-> IF k \in S THEN f[k] ELSE 0]

\* What cap leaves of the live entries of f when those of lowest rank go first;
\* ties fall either way.
Kept(f, rank, cap) ==
    {S \in SUBSET Live(f) :
        /\ Cardinality(S) = cap \/ (S = Live(f) /\ Cardinality(S) < cap)
        /\ \A a \in Live(f) \ S, b \in S : rank[a] <= rank[b]}

\* _mem_gc on the map s: drop what has expired, then the soonest expiries.
MemGc(s) ==
    IF now - memGc < MemGcEvery
    THEN seen' = s /\ memGc' = memGc
    ELSE /\ memGc' = now
         /\ \E S \in Kept(s, s, MemMax) : seen' = Only(s, S)

\* OnceStore._gc on the rows e: drop what has expired, then the oldest rows.  In a
\* full database only the time of the clean-up moves.
DbDue == now - dbGc >= DbGcEvery

DbGc(e) ==
    IF DbDue /\ store = "up"
    THEN {Only(e, S) : S \in Kept(e, ts, DbMax)}
    ELSE {e}

\* get_expiry: an expired row is deleted; if that fails the clean-up is skipped.
Expired(k) == exp[k] # 0 /\ k \notin Live(exp)
AfterLookup(k) == IF store = "up" THEN Only(exp, {j \in Keys : j # k \/ ~Expired(k)}) ELSE exp

LookupTime(k) ==
    dbGc' = IF DbDue /\ (store = "up" \/ (store = "full" /\ ~Expired(k))) THEN now ELSE dbGc

RowExists(k) == store # "down" /\ exp[k] # 0  \* faulty variant
InTable(k) == store # "down" /\ k \in Live(exp)

\* History: who may be dropped over a cap, if enough others are preferred.
Crowded(f, rank, cap) ==
    {k \in Live(f) : Cardinality({j \in Live(f) \ {k} : rank[j] >= rank[k]}) >= cap}

Losses(k, base, s) ==
    lost' = [j \in Keys |->
               (IF j = k THEN base ELSE lost[j])
               \union (IF j \in Crowded(s, s, MemMax) THEN {"mem"} ELSE {})
               \union (IF j \in Crowded(exp, ts, DbMax) THEN {"db"} ELSE {})]

\* once_sync(k): the map knows the key.
Remembered(k) ==
    /\ k \in Live(seen)
    /\ reply' = <<k, FALSE>>
    /\ UNCHANGED <<now, seen, memGc, exp, ts, dbGc, store, until, lost>>

\* The table knows it, and the map learns it again.
Restored(k) ==
    /\ k \notin Live(seen) /\ InTable(k)
    /\ \E e \in DbGc(exp) : exp' = e
    /\ ts' = Only(ts, {j \in Keys : exp'[j] # 0})
    /\ LookupTime(k)
    /\ MemGc([seen EXCEPT ![k] = exp[k]])
    /\ reply' = <<k, FALSE>>
    /\ Losses(k, IF "db" \in lost[k] THEN lost[k] ELSE {}, [seen EXCEPT ![k] = exp[k]])
    /\ UNCHANGED <<now, store, until>>

\* Neither does: the first time.  Both record it; the table only if it can be
\* written.  (set_expiry's own clean-up is never due right after the lookup's.)
MapOnly(k, e) == e  \* faulty variant
Saved(k, e) == IF store = "up" THEN [e EXCEPT ![k] = now + Ttl[k]] ELSE e

First(k) ==
    /\ k \notin Live(seen) /\ ~InTable(k)
    /\ \E e \in DbGc(AfterLookup(k)) : exp' = Saved(k, e)
    /\ ts' = [j \in Keys |-> IF exp'[j] = 0 THEN 0
                             ELSE IF j = k /\ store = "up" THEN now ELSE ts[j]]
    /\ LookupTime(k)
    /\ MemGc([seen EXCEPT ![k] = now + Ttl[k]])
    /\ reply' = <<k, TRUE>>
    /\ until' = [until EXCEPT ![k] = now + Ttl[k]]
    /\ Losses(k, IF store = "up" THEN {} ELSE {"db"}, [seen EXCEPT ![k] = now + Ttl[k]])
    /\ UNCHANGED <<now, store>>

once_sync(k) == Remembered(k) \/ Restored(k) \/ First(k)

LoseAll(what) == lost' = [k \in Keys |-> lost[k] \union what]

\* purge_memory, called by the memory sweeper.
purge_memory ==
    /\ seen' = [k \in Keys |-> 0] /\ memGc' = 0
    /\ LoseAll({"mem"})
    /\ reply' = NoCall
    /\ UNCHANGED <<now, exp, ts, dbGc, store, until>>

\* The process starts again, on the same disk or, after a deploy, on a fresh one.
Restart ==
    /\ seen' = [k \in Keys |-> 0] /\ memGc' = 0 /\ dbGc' = 0
    /\ LoseAll({"mem"})
    /\ reply' = NoCall
    /\ UNCHANGED <<now, exp, ts, store, until>>

Redeploy ==
    /\ seen' = [k \in Keys |-> 0] /\ memGc' = 0 /\ dbGc' = 0
    /\ exp' = [k \in Keys |-> 0] /\ ts' = [k \in Keys |-> 0] /\ store' = "up"
    /\ LoseAll({"mem", "db"})
    /\ reply' = NoCall
    /\ UNCHANGED <<now, until>>

StoreChanges ==
    /\ store' \in {"up", "full", "down"} /\ store' # store
    /\ reply' = NoCall
    /\ UNCHANGED <<now, seen, memGc, exp, ts, dbGc, until, lost>>

Second ==
    /\ now < MaxTime
    /\ now' = now + 1
    /\ reply' = NoCall
    /\ UNCHANGED <<seen, memGc, exp, ts, dbGc, store, until, lost>>

OnceNext ==
    \/ \E k \in Keys : once_sync(k)
    \/ purge_memory \/ Restart \/ Redeploy \/ StoreChanges \/ Second

OnceSpec == OnceInit /\ [][OnceNext]_onceVars
-----------------------------------------------------------------------------
OnceTypeOK ==
    /\ now \in Start .. MaxTime
    /\ seen \in [Keys -> Nat] /\ exp \in [Keys -> Nat] /\ ts \in [Keys -> Nat]
    /\ memGc \in 0 .. now /\ dbGc \in 0 .. now
    /\ store \in {"up", "full", "down"}
    /\ reply \in (Keys \X BOOLEAN) \union {NoCall}
    /\ until \in [Keys -> Nat] /\ lost \in [Keys -> SUBSET {"mem", "db"}]

\* once_sync says "first time" again within the time to live only if both the map and
\* the table lost the key: the map by a purge, a restart or its cap, the table
\* by a failed write, its cap or a deploy, or because it cannot be read now.
OneLossIsSafe ==
    [][\A k \in Keys : reply' = <<k, TRUE>> /\ until[k] > now =>
          "mem" \in lost[k] /\ ("db" \in lost[k] \/ store = "down")]_onceVars

\* once_sync never says "seen before" when the time to live of the last grant is over:
\* a stale row, a restored entry or a missed clean-up suppresses no work.
NoFalseSkip ==
    \A k \in Keys : reply = <<k, FALSE>> => until[k] > now
=============================================================================
