------------------------ MODULE LiveAnnounce_proofs ------------------------
(***************************************************************************)
(* Proofs about LiveAnnounce: its type invariant, that it implements       *)
(* ChannelLog, that no interleaving of the poll loop, the ingest handlers  *)
(* and the send worker announces a video twice in one boot, and that with  *)
(* readable history no video is posted twice over all boots.               *)
(***************************************************************************)
EXTENDS LiveAnnounce, SequenceTheorems, TLAPS

USE ConstAssumption DEF Tasks

\* A task inside a result handles one of its results.
CurInv ==
    \A t \in Tasks : pc[t] \in LookPhase \union PostPhase => cur[t] \in todo[t]

\* A task whose item is queued or being sent waits for its answer, and its item
\* is in one place only.
WaitInv ==
    /\ \A i \in 1 .. Len(queue) :
          pc[queue[i]] = "wait" /\ fut[queue[i]] = "pending" /\ queue[i] # sending
    /\ \A i, j \in 1 .. Len(queue) : queue[i] = queue[j] => i = j
    /\ sending # None => pc[sending] = "wait" /\ fut[sending] = "pending"

IInv == TypeOK /\ CurInv /\ WaitInv

LEMMA ConstTypes ==
    /\ Empty \in DiskType
    /\ \A r \in Feed : KeyOf(r) \in Keys /\ VidOf(r) \in Vids
  <1>1. \A r \in Feed : KeyOf(r) \in Keys /\ VidOf(r) \in Vids
    BY DEF KeyOf, VidOf
  <1>2. Empty \in DiskType
    BY DEF Empty, DiskType
  <1> QED BY <1>1, <1>2

\* The queue and the message log of a fresh boot.
LEMMA EmptyQueue ==
    /\ <<>> \in Seq(Tasks) /\ Len(<<>>) = 0 /\ <<>> \in Seq(Vids)
    /\ \A i \in 1 .. Len(<<>>) : FALSE
  BY EmptySeq

LEMMA ChannelVidsType == ASSUME ChannelType PROVE ChannelVids \subseteq Vids
  BY ElementOfSeq DEF ChannelType, ChannelVids

\* A spent fault keeps the count within its bound.
LEMMA SpendType ==
    ASSUME faults \in 0 .. MaxFaults, NEW k, Spend(k)
    PROVE  faults' \in 0 .. MaxFaults
  BY DEF Spend

LEMMA WarmCacheType ==
    ASSUME TypeOK, WarmCache
    PROVE  cache' \subseteq Vids /\ ready' = TRUE /\ faults' \in 0 .. MaxFaults
  <1>1. ChannelVids \subseteq Vids
    BY ChannelVidsType DEF TypeOK
  <1>2. CASE cache' = cache \union ChannelVids /\ UNCHANGED faults
    BY <1>1, <1>2 DEF WarmCache, TypeOK, MemType
  <1>3. CASE Spend("history") /\ UNCHANGED cache
    BY <1>3, SpendType DEF WarmCache, TypeOK, MemType
  <1> QED BY <1>2, <1>3 DEF WarmCache

\* Recording a result and finishing with it keep the types they touch.
LEMMA RecordType ==
    ASSUME MemType, NEW r \in Feed, Record(r)
    PROVE  /\ annMap' \in [Keys -> Vids \union {None}]
           /\ annVids' \subseteq Vids /\ disk' \in DiskType
  BY ConstTypes DEF MemType, Record, DiskType

LEMMA ProceedType ==
    ASSUME TaskType, NEW t \in Tasks, NEW r, Proceed(t, r)
    PROVE  /\ pc' \in [Tasks -> RestPhase \union LookPhase \union PostPhase]
           /\ pc'[t] \in RestPhase
           /\ todo' \in [Tasks -> SUBSET Feed]
           /\ cur' \in [Tasks -> Feed \union {None}]
           /\ found' \in [Tasks -> BOOLEAN]
           /\ \A u \in Tasks \ {t} :
                pc'[u] = pc[u] /\ todo'[u] = todo[u] /\ cur'[u] = cur[u]
  BY DEF TaskType, Proceed, RestPhase, LookPhase, PostPhase

LEMMA InitInv == Init => IInv
  <1> SUFFICES ASSUME Init PROVE IInv
    OBVIOUS
  <1>1. MemType
    BY ConstTypes DEF Init, MemType, Empty, DiskType
  <1>2. WorkerType
    <2>1. queue \in Seq(Tasks) /\ Len(queue) = 0
      BY EmptyQueue, Zenon DEF Init
    <2>2. /\ sending = None /\ wire = "idle" /\ cooldown \in BOOLEAN
      BY DEF Init
    <2> QED BY <2>1, <2>2 DEF WorkerType
  <1>3. TaskType
    BY DEF Init, TaskType, RestPhase, LookPhase, PostPhase
  <1>4. ChannelType
    BY EmptyQueue DEF Init, ChannelType
  <1>5. CurInv
    BY DEF Init, CurInv, LookPhase, PostPhase
  <1>6. WaitInv
    BY EmptyQueue DEF Init, WaitInv
  <1>7. faults \in 0 .. MaxFaults
    BY DEF Init
  <1> QED BY <1>1, <1>2, <1>3, <1>4, <1>5, <1>6, <1>7 DEF IInv, TypeOK

LEMMA BootWarmInv ==
  ASSUME IInv, NEW t \in Tasks, BootWarm(t)
  PROVE  IInv'
  <1>1. MemType'
    BY WarmCacheType DEF BootWarm, IInv, TypeOK, MemType
  <1>2. WorkerType'
    BY ConstTypes DEF IInv, TypeOK, MemType, WorkerType, TaskType,
       ChannelType, RestPhase, LookPhase, PostPhase, CurInv, WaitInv,
       DiskType, BootWarm, WarmCache, Spend, wkr, chan, ChannelVids
  <1>3. TaskType'
    BY ConstTypes DEF IInv, TypeOK, MemType, WorkerType, TaskType,
       ChannelType, RestPhase, LookPhase, PostPhase, CurInv, WaitInv,
       DiskType, BootWarm, WarmCache, Spend, wkr, chan, ChannelVids
  <1>4. ChannelType'
    BY ConstTypes DEF IInv, TypeOK, MemType, WorkerType, TaskType,
       ChannelType, RestPhase, LookPhase, PostPhase, CurInv, WaitInv,
       DiskType, BootWarm, WarmCache, Spend, wkr, chan, ChannelVids
  <1>5. (faults \in 0 .. MaxFaults)'
    BY ConstTypes DEF IInv, TypeOK, MemType, WorkerType, TaskType,
       ChannelType, RestPhase, LookPhase, PostPhase, CurInv, WaitInv,
       DiskType, BootWarm, WarmCache, Spend, wkr, chan, ChannelVids
  <1>6. CurInv'
    BY ConstTypes DEF IInv, TypeOK, MemType, WorkerType, TaskType,
       ChannelType, RestPhase, LookPhase, PostPhase, CurInv, WaitInv,
       DiskType, BootWarm, WarmCache, Spend, wkr, chan, ChannelVids
  <1>7. WaitInv'
    BY ConstTypes DEF IInv, TypeOK, MemType, WorkerType, TaskType,
       ChannelType, RestPhase, LookPhase, PostPhase, CurInv, WaitInv,
       DiskType, BootWarm, WarmCache, Spend, wkr, chan, ChannelVids
  <1> QED BY <1>1, <1>2, <1>3, <1>4, <1>5, <1>6, <1>7 DEF IInv, TypeOK

LEMMA BootSweepInv ==
  ASSUME IInv, NEW t \in Tasks, BootSweep(t)
  PROVE  IInv'
  <1>1. MemType'
    BY ConstTypes DEF IInv, TypeOK, MemType, WorkerType, TaskType,
       ChannelType, RestPhase, LookPhase, PostPhase, CurInv, WaitInv,
       DiskType, BootSweep, OlderCopy, Spend, mem, wkr, chan
  <1>2. WorkerType'
    BY ConstTypes DEF IInv, TypeOK, MemType, WorkerType, TaskType,
       ChannelType, RestPhase, LookPhase, PostPhase, CurInv, WaitInv,
       DiskType, BootSweep, OlderCopy, Spend, mem, wkr, chan
  <1>3. TaskType'
    BY ConstTypes DEF IInv, TypeOK, MemType, WorkerType, TaskType,
       ChannelType, RestPhase, LookPhase, PostPhase, CurInv, WaitInv,
       DiskType, BootSweep, OlderCopy, Spend, mem, wkr, chan
  <1>4. ChannelType'
    BY ConstTypes DEF IInv, TypeOK, MemType, WorkerType, TaskType,
       ChannelType, RestPhase, LookPhase, PostPhase, CurInv, WaitInv,
       DiskType, BootSweep, OlderCopy, Spend, mem, wkr, chan
  <1>5. (faults \in 0 .. MaxFaults)'
    BY ConstTypes DEF IInv, TypeOK, MemType, WorkerType, TaskType,
       ChannelType, RestPhase, LookPhase, PostPhase, CurInv, WaitInv,
       DiskType, BootSweep, OlderCopy, Spend, mem, wkr, chan
  <1>6. CurInv'
    BY ConstTypes DEF IInv, TypeOK, MemType, WorkerType, TaskType,
       ChannelType, RestPhase, LookPhase, PostPhase, CurInv, WaitInv,
       DiskType, BootSweep, OlderCopy, Spend, mem, wkr, chan
  <1>7. WaitInv'
    BY ConstTypes DEF IInv, TypeOK, MemType, WorkerType, TaskType,
       ChannelType, RestPhase, LookPhase, PostPhase, CurInv, WaitInv,
       DiskType, BootSweep, OlderCopy, Spend, mem, wkr, chan
  <1> QED BY <1>1, <1>2, <1>3, <1>4, <1>5, <1>6, <1>7 DEF IInv, TypeOK

LEMMA BootDeleteInv ==
  ASSUME IInv, NEW t \in Tasks, BootDelete(t)
  PROVE  IInv'
  BY ConstTypes DEF IInv, TypeOK, MemType, WorkerType, TaskType, ChannelType,
     RestPhase, LookPhase, PostPhase, CurInv, WaitInv, DiskType, BootDelete,
     DeleteOne, Spend, mem, wkr

LEMMA SkipKnownInv ==
  ASSUME IInv, NEW t \in Tasks, SkipKnown(t)
  PROVE  IInv'
  BY ConstTypes DEF IInv, TypeOK, MemType, WorkerType, TaskType, ChannelType,
     RestPhase, LookPhase, PostPhase, CurInv, WaitInv, DiskType, SkipKnown,
     Proceed, wkr, chan

LEMMA SuppressOldInv ==
  ASSUME IInv, NEW t \in Tasks, SuppressOld(t)
  PROVE  IInv'
  BY ConstTypes DEF IInv, TypeOK, MemType, WorkerType, TaskType, ChannelType,
     RestPhase, LookPhase, PostPhase, CurInv, WaitInv, DiskType, SuppressOld,
     Record, Proceed, wkr, chan

LEMMA SkipCachedInv ==
  ASSUME IInv, NEW t \in Tasks, SkipCached(t)
  PROVE  IInv'
  BY ConstTypes DEF IInv, TypeOK, MemType, WorkerType, TaskType, ChannelType,
     RestPhase, LookPhase, PostPhase, CurInv, WaitInv, DiskType, SkipCached,
     Record, Proceed, wkr, chan

LEMMA StartLookInv ==
  ASSUME IInv, NEW t \in Tasks, StartLook(t)
  PROVE  IInv'
  BY ConstTypes DEF IInv, TypeOK, MemType, WorkerType, TaskType, ChannelType,
     RestPhase, LookPhase, PostPhase, CurInv, WaitInv, DiskType, StartLook,
     mem, wkr, chan

LEMMA WarmInv ==
  ASSUME IInv, NEW t \in Tasks, Warm(t)
  PROVE  IInv'
  <1>1. MemType'
    <2>1. cache' \subseteq Vids /\ ready' \in BOOLEAN /\ cur[t] \in Feed
      BY WarmCacheType DEF Warm, IInv, TypeOK, TaskType, CurInv, LookPhase
    <2>2. CASE Record(cur[t])
      BY <2>1, <2>2, RecordType DEF Warm, IInv, TypeOK, MemType
    <2>3. CASE UNCHANGED <<annMap, annVids, disk>>
      BY <2>1, <2>3 DEF Warm, IInv, TypeOK, MemType
    <2> QED BY <2>2, <2>3 DEF Warm
  <1>2. WorkerType'
    BY ConstTypes DEF IInv, TypeOK, MemType, WorkerType, TaskType,
       ChannelType, RestPhase, LookPhase, PostPhase, CurInv, WaitInv,
       DiskType, Warm, WarmCache, Spend, Record, Proceed, wkr, chan,
       ChannelVids
  <1>3. TaskType'
    <2>1. CASE Proceed(t, cur[t])
      BY <2>1, ProceedType DEF Warm, IInv, TypeOK, TaskType
    <2>2. CASE pc' = [pc EXCEPT ![t] = "scan"] /\ UNCHANGED <<todo, cur, found>>
      BY <2>2 DEF Warm, IInv, TypeOK, TaskType, LookPhase
    <2> QED BY <2>1, <2>2 DEF Warm
  <1>4. ChannelType'
    BY ConstTypes DEF IInv, TypeOK, MemType, WorkerType, TaskType,
       ChannelType, RestPhase, LookPhase, PostPhase, CurInv, WaitInv,
       DiskType, Warm, WarmCache, Spend, Record, Proceed, wkr, chan,
       ChannelVids
  <1>5. (faults \in 0 .. MaxFaults)'
    BY ConstTypes DEF IInv, TypeOK, MemType, WorkerType, TaskType,
       ChannelType, RestPhase, LookPhase, PostPhase, CurInv, WaitInv,
       DiskType, Warm, WarmCache, Spend, Record, Proceed, wkr, chan,
       ChannelVids
  <1>6. CurInv'
    <2>1. CASE Proceed(t, cur[t])
      BY <2>1, ProceedType DEF IInv, TypeOK, CurInv, RestPhase, LookPhase, PostPhase
    <2>2. CASE pc' = [pc EXCEPT ![t] = "scan"] /\ UNCHANGED <<todo, cur, found>>
      BY <2>2 DEF Warm, IInv, TypeOK, TaskType, CurInv, LookPhase, PostPhase
    <2> QED BY <2>1, <2>2 DEF Warm
  <1>7. WaitInv'
    BY ConstTypes DEF IInv, TypeOK, MemType, WorkerType, TaskType,
       ChannelType, RestPhase, LookPhase, PostPhase, CurInv, WaitInv,
       DiskType, Warm, WarmCache, Spend, Record, Proceed, wkr, chan,
       ChannelVids
  <1> QED BY <1>1, <1>2, <1>3, <1>4, <1>5, <1>6, <1>7 DEF IInv, TypeOK

LEMMA ScanAInv ==
  ASSUME IInv, NEW t \in Tasks, Scan(t, "scan", "scanned")
  PROVE  IInv'
  <1>1. MemType'
    BY ConstTypes DEF IInv, TypeOK, MemType, WorkerType, TaskType,
       ChannelType, RestPhase, LookPhase, PostPhase, CurInv, WaitInv,
       DiskType, Scan, Spend, mem, wkr, chan, InHistory
  <1>2. WorkerType'
    BY ConstTypes DEF IInv, TypeOK, MemType, WorkerType, TaskType,
       ChannelType, RestPhase, LookPhase, PostPhase, CurInv, WaitInv,
       DiskType, Scan, Spend, mem, wkr, chan, InHistory
  <1>3. TaskType'
    <2>1. /\ found \in [Tasks -> BOOLEAN]
          /\ InHistory(VidOf(cur[t])) \in BOOLEAN
      BY DEF IInv, TypeOK, TaskType, InHistory
    <2>2. found' \in [Tasks -> BOOLEAN]
      BY <2>1, Zenon DEF Scan
    <2>3. pc' = [pc EXCEPT ![t] = "scanned"] /\ UNCHANGED <<fut, todo, cur>>
      BY DEF Scan
    <2> QED BY <2>2, <2>3 DEF IInv, TypeOK, TaskType, LookPhase, PostPhase
  <1>4. ChannelType'
    BY ConstTypes DEF IInv, TypeOK, MemType, WorkerType, TaskType,
       ChannelType, RestPhase, LookPhase, PostPhase, CurInv, WaitInv,
       DiskType, Scan, Spend, mem, wkr, chan, InHistory
  <1>5. (faults \in 0 .. MaxFaults)'
    BY ConstTypes DEF IInv, TypeOK, MemType, WorkerType, TaskType,
       ChannelType, RestPhase, LookPhase, PostPhase, CurInv, WaitInv,
       DiskType, Scan, Spend, mem, wkr, chan, InHistory
  <1>6. CurInv'
    BY ConstTypes DEF IInv, TypeOK, MemType, WorkerType, TaskType,
       ChannelType, RestPhase, LookPhase, PostPhase, CurInv, WaitInv,
       DiskType, Scan, Spend, mem, wkr, chan, InHistory
  <1>7. WaitInv'
    BY ConstTypes DEF IInv, TypeOK, MemType, WorkerType, TaskType,
       ChannelType, RestPhase, LookPhase, PostPhase, CurInv, WaitInv,
       DiskType, Scan, Spend, mem, wkr, chan, InHistory
  <1> QED BY <1>1, <1>2, <1>3, <1>4, <1>5, <1>6, <1>7 DEF IInv, TypeOK

LEMMA SkipFoundInv ==
  ASSUME IInv, NEW t \in Tasks, SkipFound(t)
  PROVE  IInv'
  BY ConstTypes DEF IInv, TypeOK, MemType, WorkerType, TaskType, ChannelType,
     RestPhase, LookPhase, PostPhase, CurInv, WaitInv, DiskType, SkipFound,
     Record, Proceed, wkr, chan

LEMMA SkipUnnamedInv ==
  ASSUME IInv, NEW t \in Tasks, SkipUnnamed(t)
  PROVE  IInv'
  BY ConstTypes DEF IInv, TypeOK, MemType, WorkerType, TaskType, ChannelType,
     RestPhase, LookPhase, PostPhase, CurInv, WaitInv, DiskType, SkipUnnamed,
     Spend, Proceed, mem, wkr, chan

LEMMA SkipInflightInv ==
  ASSUME IInv, NEW t \in Tasks, SkipInflight(t)
  PROVE  IInv'
  BY ConstTypes DEF IInv, TypeOK, MemType, WorkerType, TaskType, ChannelType,
     RestPhase, LookPhase, PostPhase, CurInv, WaitInv, DiskType, SkipInflight,
     Proceed, mem, wkr, chan

LEMMA ClaimInv ==
  ASSUME IInv, NEW t \in Tasks, Claim(t)
  PROVE  IInv'
  BY ConstTypes DEF IInv, TypeOK, MemType, WorkerType, TaskType, ChannelType,
     RestPhase, LookPhase, PostPhase, CurInv, WaitInv, DiskType, Claim, mem,
     wkr, chan

LEMMA ClaimCachedInv ==
  ASSUME IInv, NEW t \in Tasks, ClaimCached(t)
  PROVE  IInv'
  BY ConstTypes DEF IInv, TypeOK, MemType, WorkerType, TaskType, ChannelType,
     RestPhase, LookPhase, PostPhase, CurInv, WaitInv, DiskType, ClaimCached,
     Finish, Release, Record, Proceed, wkr, chan

LEMMA ScanBInv ==
  ASSUME IInv, NEW t \in Tasks, Scan(t, "rescan", "rescanned")
  PROVE  IInv'
  <1>1. MemType'
    BY ConstTypes DEF IInv, TypeOK, MemType, WorkerType, TaskType,
       ChannelType, RestPhase, LookPhase, PostPhase, CurInv, WaitInv,
       DiskType, Scan, Spend, mem, wkr, chan, InHistory
  <1>2. WorkerType'
    BY ConstTypes DEF IInv, TypeOK, MemType, WorkerType, TaskType,
       ChannelType, RestPhase, LookPhase, PostPhase, CurInv, WaitInv,
       DiskType, Scan, Spend, mem, wkr, chan, InHistory
  <1>3. TaskType'
    <2>1. /\ found \in [Tasks -> BOOLEAN]
          /\ InHistory(VidOf(cur[t])) \in BOOLEAN
      BY DEF IInv, TypeOK, TaskType, InHistory
    <2>2. found' \in [Tasks -> BOOLEAN]
      BY <2>1, Zenon DEF Scan
    <2>3. pc' = [pc EXCEPT ![t] = "rescanned"] /\ UNCHANGED <<fut, todo, cur>>
      BY DEF Scan
    <2> QED BY <2>2, <2>3 DEF IInv, TypeOK, TaskType, LookPhase, PostPhase
  <1>4. ChannelType'
    BY ConstTypes DEF IInv, TypeOK, MemType, WorkerType, TaskType,
       ChannelType, RestPhase, LookPhase, PostPhase, CurInv, WaitInv,
       DiskType, Scan, Spend, mem, wkr, chan, InHistory
  <1>5. (faults \in 0 .. MaxFaults)'
    BY ConstTypes DEF IInv, TypeOK, MemType, WorkerType, TaskType,
       ChannelType, RestPhase, LookPhase, PostPhase, CurInv, WaitInv,
       DiskType, Scan, Spend, mem, wkr, chan, InHistory
  <1>6. CurInv'
    BY ConstTypes DEF IInv, TypeOK, MemType, WorkerType, TaskType,
       ChannelType, RestPhase, LookPhase, PostPhase, CurInv, WaitInv,
       DiskType, Scan, Spend, mem, wkr, chan, InHistory
  <1>7. WaitInv'
    BY ConstTypes DEF IInv, TypeOK, MemType, WorkerType, TaskType,
       ChannelType, RestPhase, LookPhase, PostPhase, CurInv, WaitInv,
       DiskType, Scan, Spend, mem, wkr, chan, InHistory
  <1> QED BY <1>1, <1>2, <1>3, <1>4, <1>5, <1>6, <1>7 DEF IInv, TypeOK

LEMMA DropInv ==
  ASSUME IInv, NEW t \in Tasks, Drop(t)
  PROVE  IInv'
  BY ConstTypes DEF IInv, TypeOK, MemType, WorkerType, TaskType, ChannelType,
     RestPhase, LookPhase, PostPhase, CurInv, WaitInv, DiskType, Drop,
     NotSent, Finish, Release, Record, Proceed, wkr, chan

LEMMA EnqueueInv ==
  ASSUME IInv, NEW t \in Tasks, Enqueue(t)
  PROVE  IInv'
  BY ConstTypes, AppendProperties DEF IInv, TypeOK, MemType, WorkerType,
     TaskType, ChannelType, RestPhase, LookPhase, PostPhase, CurInv, WaitInv,
     DiskType, Enqueue, mem, chan, Room

LEMMA SentInv ==
  ASSUME IInv, NEW t \in Tasks, Sent(t)
  PROVE  IInv'
  BY ConstTypes DEF IInv, TypeOK, MemType, WorkerType, TaskType, ChannelType,
     RestPhase, LookPhase, PostPhase, CurInv, WaitInv, DiskType, Sent, wkr,
     chan

LEMMA SendFailedInv ==
  ASSUME IInv, NEW t \in Tasks, SendFailed(t)
  PROVE  IInv'
  BY ConstTypes DEF IInv, TypeOK, MemType, WorkerType, TaskType, ChannelType,
     RestPhase, LookPhase, PostPhase, CurInv, WaitInv, DiskType, SendFailed,
     GiveUp, Release, Proceed, wkr, chan

LEMMA SweepInv ==
  ASSUME IInv, NEW t \in Tasks, Sweep(t)
  PROVE  IInv'
  BY ConstTypes DEF IInv, TypeOK, MemType, WorkerType, TaskType, ChannelType,
     RestPhase, LookPhase, PostPhase, CurInv, WaitInv, DiskType, Sweep,
     SweepList, NewestCopies, Copies, OlderCopy, mem, wkr, chan

LEMMA NothingToSweepInv ==
  ASSUME IInv, NEW t \in Tasks, NothingToSweep(t)
  PROVE  IInv'
  BY ConstTypes DEF IInv, TypeOK, MemType, WorkerType, TaskType, ChannelType,
     RestPhase, LookPhase, PostPhase, CurInv, WaitInv, DiskType,
     NothingToSweep, Spend, Finish, Release, Record, Proceed, wkr, chan

LEMMA SweepDeleteInv ==
  ASSUME IInv, NEW t \in Tasks, SweepDelete(t)
  PROVE  IInv'
  <1>1. MemType'
    <2>1. cur[t] \in Feed
      BY DEF SweepDelete, IInv, TypeOK, TaskType, CurInv, PostPhase
    <2>2. CASE Finish(t)
      BY <2>1, <2>2, RecordType DEF SweepDelete, Finish, Release, IInv, TypeOK, MemType
    <2>3. CASE UNCHANGED <<annMap, annVids, inflight, disk>>
      BY <2>3 DEF SweepDelete, IInv, TypeOK, MemType
    <2> QED BY <2>2, <2>3 DEF SweepDelete
  <1>2. WorkerType'
    BY ConstTypes DEF IInv, TypeOK, MemType, WorkerType, TaskType,
       ChannelType, RestPhase, LookPhase, PostPhase, CurInv, WaitInv,
       DiskType, SweepDelete, DeleteOne, Spend, Finish, Release, Record,
       Proceed, wkr
  <1>3. TaskType'
    <2>1. CASE Finish(t)
      BY <2>1, ProceedType DEF SweepDelete, Finish, IInv, TypeOK, TaskType
    <2>2. CASE UNCHANGED <<todo, cur, found, pc>>
      BY <2>2 DEF SweepDelete, IInv, TypeOK, TaskType
    <2> QED BY <2>1, <2>2 DEF SweepDelete
  <1>4. ChannelType'
    BY ConstTypes DEF IInv, TypeOK, MemType, WorkerType, TaskType,
       ChannelType, RestPhase, LookPhase, PostPhase, CurInv, WaitInv,
       DiskType, SweepDelete, DeleteOne, Spend, Finish, Release, Record,
       Proceed, wkr
  <1>5. (faults \in 0 .. MaxFaults)'
    BY ConstTypes DEF IInv, TypeOK, MemType, WorkerType, TaskType,
       ChannelType, RestPhase, LookPhase, PostPhase, CurInv, WaitInv,
       DiskType, SweepDelete, DeleteOne, Spend, Finish, Release, Record,
       Proceed, wkr
  <1>6. CurInv'
    <2>1. CASE Finish(t)
      BY <2>1, ProceedType DEF Finish, IInv, TypeOK, CurInv, RestPhase, LookPhase, PostPhase
    <2>2. CASE UNCHANGED <<todo, cur, found, pc>>
      BY <2>2 DEF IInv, CurInv
    <2> QED BY <2>1, <2>2 DEF SweepDelete
  <1>7. WaitInv'
    BY ConstTypes DEF IInv, TypeOK, MemType, WorkerType, TaskType,
       ChannelType, RestPhase, LookPhase, PostPhase, CurInv, WaitInv,
       DiskType, SweepDelete, DeleteOne, Spend, Finish, Release, Record,
       Proceed, wkr
  <1> QED BY <1>1, <1>2, <1>3, <1>4, <1>5, <1>6, <1>7 DEF IInv, TypeOK

LEMMA TickInv ==
  ASSUME IInv, NEW t \in Tasks, Tick(t)
  PROVE  IInv'
  BY ConstTypes DEF IInv, TypeOK, MemType, WorkerType, TaskType, ChannelType,
     RestPhase, LookPhase, PostPhase, CurInv, WaitInv, DiskType, Tick, mem,
     wkr, chan

LEMMA WorkerGetInv ==
  ASSUME IInv, WorkerGet
  PROVE  IInv'
  <1>1. MemType'
    BY ConstTypes, HeadTailProperties DEF IInv, TypeOK, MemType, WorkerType,
       TaskType, ChannelType, RestPhase, LookPhase, PostPhase, CurInv,
       WaitInv, DiskType, WorkerGet, mem, ctl, chan
  <1>2. WorkerType'
    BY ConstTypes, HeadTailProperties DEF IInv, TypeOK, MemType, WorkerType,
       TaskType, ChannelType, RestPhase, LookPhase, PostPhase, CurInv,
       WaitInv, DiskType, WorkerGet, mem, ctl, chan
  <1>3. TaskType'
    BY ConstTypes, HeadTailProperties DEF IInv, TypeOK, MemType, WorkerType,
       TaskType, ChannelType, RestPhase, LookPhase, PostPhase, CurInv,
       WaitInv, DiskType, WorkerGet, mem, ctl, chan
  <1>4. ChannelType'
    BY ConstTypes, HeadTailProperties DEF IInv, TypeOK, MemType, WorkerType,
       TaskType, ChannelType, RestPhase, LookPhase, PostPhase, CurInv,
       WaitInv, DiskType, WorkerGet, mem, ctl, chan
  <1>5. (faults \in 0 .. MaxFaults)'
    BY ConstTypes, HeadTailProperties DEF IInv, TypeOK, MemType, WorkerType,
       TaskType, ChannelType, RestPhase, LookPhase, PostPhase, CurInv,
       WaitInv, DiskType, WorkerGet, mem, ctl, chan
  <1>6. CurInv'
    BY ConstTypes, HeadTailProperties DEF IInv, TypeOK, MemType, WorkerType,
       TaskType, ChannelType, RestPhase, LookPhase, PostPhase, CurInv,
       WaitInv, DiskType, WorkerGet, mem, ctl, chan
  <1>7. WaitInv'
    <2>1. /\ Len(queue') = Len(queue) - 1 /\ Len(queue) \in Nat
          /\ \A i \in 1 .. Len(queue') : queue'[i] = queue[i + 1]
          /\ Head(queue) = queue[1] /\ 1 \in 1 .. Len(queue)
      BY HeadTailProperties, LenProperties DEF WorkerGet, IInv, TypeOK, WorkerType
    <2>2. \A i \in 1 .. Len(queue') :
             /\ i + 1 \in 1 .. Len(queue)
             /\ queue'[i] \in Tasks /\ queue'[i] # Head(queue)
      BY <2>1, ElementOfSeq DEF IInv, TypeOK, WorkerType, WaitInv
    <2>3. pc' = pc /\ fut \in [Tasks -> {"none", "pending", "msg", "refused", "error"}]
      BY DEF WorkerGet, ctl, IInv, TypeOK, TaskType
    <2>4. Head(queue) \in Tasks /\ sending = None
      BY <2>1, ElementOfSeq DEF WorkerGet, IInv, TypeOK, WorkerType
    <2>5. \A i \in 1 .. Len(queue') :
             pc'[queue'[i]] = "wait" /\ fut'[queue'[i]] = "pending" /\ queue'[i] # sending'
      BY <2>1, <2>2, <2>3, <2>4 DEF WorkerGet, IInv, WaitInv
    <2>6. \A i, j \in 1 .. Len(queue') : queue'[i] = queue'[j] => i = j
      BY <2>1, <2>2 DEF IInv, WaitInv
    <2>7. sending' # None => pc'[sending'] = "wait" /\ fut'[sending'] = "pending"
      BY <2>1, <2>3, <2>4 DEF WorkerGet, IInv, WaitInv
    <2> QED BY <2>5, <2>6, <2>7 DEF WaitInv
  <1> QED BY <1>1, <1>2, <1>3, <1>4, <1>5, <1>6, <1>7 DEF IInv, TypeOK

LEMMA ArriveInv ==
  ASSUME IInv, Arrive
  PROVE  IInv'
  BY ConstTypes, AppendProperties DEF IInv, TypeOK, MemType, WorkerType,
     TaskType, ChannelType, RestPhase, LookPhase, PostPhase, CurInv, WaitInv,
     DiskType, Arrive, mem, ctl

LEMMA WorkerOkInv ==
  ASSUME IInv, WorkerOk
  PROVE  IInv'
  BY ConstTypes DEF IInv, TypeOK, MemType, WorkerType, TaskType, ChannelType,
     RestPhase, LookPhase, PostPhase, CurInv, WaitInv, DiskType, WorkerOk,
     WorkerDone, mem, ctl, chan

LEMMA WorkerErrorInv ==
  ASSUME IInv, WorkerError
  PROVE  IInv'
  BY ConstTypes DEF IInv, TypeOK, MemType, WorkerType, TaskType, ChannelType,
     RestPhase, LookPhase, PostPhase, CurInv, WaitInv, DiskType, WorkerError,
     Spend, WorkerDone, mem, ctl, chan

LEMMA Worker1015Inv ==
  ASSUME IInv, Worker1015
  PROVE  IInv'
  BY ConstTypes DEF IInv, TypeOK, MemType, WorkerType, TaskType, ChannelType,
     RestPhase, LookPhase, PostPhase, CurInv, WaitInv, DiskType, Worker1015,
     Spend, WorkerDone, mem, ctl, chan, Drained

LEMMA CooldownOverInv ==
  ASSUME IInv, CooldownOver
  PROVE  IInv'
  BY ConstTypes DEF IInv, TypeOK, MemType, WorkerType, TaskType, ChannelType,
     RestPhase, LookPhase, PostPhase, CurInv, WaitInv, DiskType, CooldownOver,
     mem, ctl, chan

LEMMA CrashInv ==
  ASSUME IInv, Crash
  PROVE  IInv'
  <1>1. MemType'
    BY ConstTypes DEF IInv, TypeOK, MemType, WorkerType, TaskType,
       ChannelType, RestPhase, LookPhase, PostPhase, CurInv, WaitInv,
       DiskType, Crash, Spend, Empty, Boot, chan
  <1>2. WorkerType'
    <2>1. queue' \in Seq(Tasks) /\ Len(queue') = 0
      BY EmptyQueue, Zenon DEF Crash, Boot
    <2>2. /\ sending' = None /\ wire' = "idle" /\ cooldown' \in BOOLEAN
      BY DEF Crash, Boot
    <2> QED BY <2>1, <2>2 DEF WorkerType
  <1>3. TaskType'
    BY ConstTypes DEF IInv, TypeOK, MemType, WorkerType, TaskType,
       ChannelType, RestPhase, LookPhase, PostPhase, CurInv, WaitInv,
       DiskType, Crash, Spend, Empty, Boot, chan
  <1>4. ChannelType'
    BY ConstTypes DEF IInv, TypeOK, MemType, WorkerType, TaskType,
       ChannelType, RestPhase, LookPhase, PostPhase, CurInv, WaitInv,
       DiskType, Crash, Spend, Empty, Boot, chan
  <1>5. (faults \in 0 .. MaxFaults)'
    BY ConstTypes DEF IInv, TypeOK, MemType, WorkerType, TaskType,
       ChannelType, RestPhase, LookPhase, PostPhase, CurInv, WaitInv,
       DiskType, Crash, Spend, Empty, Boot, chan
  <1>6. CurInv'
    BY ConstTypes DEF IInv, TypeOK, MemType, WorkerType, TaskType,
       ChannelType, RestPhase, LookPhase, PostPhase, CurInv, WaitInv,
       DiskType, Crash, Spend, Empty, Boot, chan
  <1>7. WaitInv'
    BY ConstTypes DEF IInv, TypeOK, MemType, WorkerType, TaskType,
       ChannelType, RestPhase, LookPhase, PostPhase, CurInv, WaitInv,
       DiskType, Crash, Spend, Empty, Boot, chan
  <1> QED BY <1>1, <1>2, <1>3, <1>4, <1>5, <1>6, <1>7 DEF IInv, TypeOK

LEMMA OtherPostInv ==
  ASSUME IInv, NEW v \in Vids, OtherPost(v)
  PROVE  IInv'
  BY ConstTypes, AppendProperties DEF IInv, TypeOK, MemType, WorkerType,
     TaskType, ChannelType, RestPhase, LookPhase, PostPhase, CurInv, WaitInv,
     DiskType, OtherPost, Spend, mem, wkr, ctl

LEMMA StutterInv == ASSUME IInv, UNCHANGED vars PROVE IInv'
  BY DEF IInv, TypeOK, MemType, WorkerType, TaskType, ChannelType, CurInv, WaitInv, vars,
     mem, wkr, ctl, chan

LEMMA StepInv == IInv /\ [Next]_vars => IInv'
  <1> SUFFICES ASSUME IInv, [Next]_vars PROVE IInv'
    OBVIOUS
  <1>1. CASE \E t \in Tasks : Tick(t)
    BY <1>1, TickInv
  <1>2. CASE \E t \in Tasks : TaskStep(t)
    BY <1>2, BootWarmInv, BootSweepInv, BootDeleteInv, SkipKnownInv, SuppressOldInv,
       SkipCachedInv, StartLookInv, WarmInv, ScanAInv, SkipFoundInv,
       SkipUnnamedInv, SkipInflightInv, ClaimInv, ClaimCachedInv, ScanBInv,
       DropInv, EnqueueInv, SentInv, SendFailedInv, SweepInv, NothingToSweepInv,
       SweepDeleteInv DEF TaskStep
  <1>3. CASE WorkerStep
    BY <1>3, WorkerGetInv, ArriveInv, WorkerOkInv, WorkerErrorInv, Worker1015Inv
    DEF WorkerStep
  <1>4. CASE CooldownOver \/ Crash
    BY <1>4, CooldownOverInv, CrashInv
  <1>5. CASE \E v \in Vids : OtherPost(v)
    BY <1>5, OtherPostInv
  <1>6. CASE UNCHANGED vars
    BY <1>6, StutterInv
  <1> QED BY <1>1, <1>2, <1>3, <1>4, <1>5, <1>6 DEF Next

LEMMA Invariance == Spec => []IInv
  BY InitInv, StepInv, PTL DEF Spec

\* Every variable keeps its type, the queue its bound, and the worker holds an
\* item exactly while a send is under way.
THEOREM TypeCorrect == Spec => []TypeOK
  <1>1. IInv => TypeOK
    BY DEF IInv
  <1> QED BY <1>1, Invariance, PTL

\* During a Cloudflare cooldown nothing is queued and nothing is being sent.
THEOREM Quiet == Spec => []QuietInCooldown
  <1>1. Init => QuietInCooldown
    BY DEF Init, QuietInCooldown
  <1>2. QuietInCooldown /\ [Next]_vars => QuietInCooldown'
    <2> SUFFICES ASSUME QuietInCooldown, [Next]_vars PROVE QuietInCooldown'
      OBVIOUS
    <2>1. ASSUME NEW t \in Tasks, Enqueue(t) PROVE QuietInCooldown'
      BY <2>1 DEF Enqueue, QuietInCooldown
    <2>2. ASSUME NEW t \in Tasks, TaskStep(t), ~Enqueue(t) PROVE UNCHANGED wkr
      BY <2>2 DEF TaskStep, BootWarm, BootSweep, BootDelete, SkipKnown, SuppressOld,
         SkipCached, StartLook, Warm, Scan, SkipFound, SkipUnnamed, SkipInflight, Claim,
         ClaimCached, Drop, Sent, SendFailed, Sweep, NothingToSweep, SweepDelete
    <2>3. CASE WorkerGet
      BY <2>3 DEF WorkerGet, QuietInCooldown
    <2>4. CASE Arrive \/ WorkerOk \/ WorkerError
      BY <2>4 DEF Arrive, WorkerOk, WorkerError, WorkerDone, QuietInCooldown
    <2>5. CASE Worker1015
      BY <2>5 DEF Worker1015, WorkerDone, Drained, QuietInCooldown
    <2>6. CASE CooldownOver \/ Crash
      BY <2>6 DEF CooldownOver, Crash, Boot, QuietInCooldown
    <2>7. ASSUME \/ \E t \in Tasks : Tick(t)
                 \/ \E v \in Vids : OtherPost(v)
                 \/ UNCHANGED vars
          PROVE  UNCHANGED wkr
      BY <2>7 DEF Tick, OtherPost, vars
    <2>8. CASE UNCHANGED wkr
      BY <2>8 DEF wkr, QuietInCooldown
    <2> QED BY <2>1, <2>2, <2>3, <2>4, <2>5, <2>6, <2>7, <2>8 DEF Next, WorkerStep
  <1> QED BY <1>1, <1>2, PTL DEF Spec

-----------------------------------------------------------------------------
\* The channel log.  Whatever a clean-up still has to delete has an older visible
\* copy, even when another clean-up deletes at the same time.
DelsInv ==
    \A t \in Tasks : \A i \in dels[t] : OlderCopy(i, channel)

Logged == [Log!Next]_<<posted, channel>>

LEMMA DeleteOneLog ==
    ASSUME IInv, DelsInv, NEW t \in Tasks, DeleteOne(t)
    PROVE  Logged /\ DelsInv'
  <1>1. PICK i \in dels[t] :
           /\ dels' = [dels EXCEPT ![t] = @ \ {i}]
           /\ channel' = channel \ {i} \/ channel' = channel
           /\ posted' = posted
    BY DEF DeleteOne
  <1>2. OlderCopy(i, channel)
    BY DEF DelsInv
  <1>3. Logged
    <2>1. CASE i \in channel /\ channel' = channel \ {i}
      BY <1>1, <1>2, <2>1 DEF Logged, Log!Next, Log!Withdraw, OlderCopy
    <2>2. CASE channel' = channel
      BY <1>1, <2>2 DEF Logged
    <2> QED BY <1>1, <2>1, <2>2
  <1>4. ASSUME NEW u \in Tasks, NEW k \in dels'[u] 
        PROVE  \E j \in channel' : j < k /\ posted'[j] = posted'[k]
    <2>1. k \in dels[u] /\ dels[u] \subseteq 1 .. Len(posted) /\ dels[t] \subseteq 1 .. Len(posted)
      BY <1>1, <1>4 DEF IInv, TypeOK, ChannelType
    <2>2. PICK j \in channel : j < k /\ posted[j] = posted[k]
      BY <2>1 DEF DelsInv, OlderCopy
    <2>3. PICK m \in channel : m < i /\ posted[m] = posted[i]
      BY <1>2 DEF OlderCopy
    <2>4. channel \subseteq Nat /\ k \in Nat /\ i \in Nat
      BY <2>1, <1>1 DEF IInv, TypeOK, ChannelType
    <2>5. CASE j = i
      BY <1>1, <2>2, <2>3, <2>4, <2>5 DEF OlderCopy
    <2>6. CASE j # i
      BY <1>1, <2>2, <2>6 DEF OlderCopy
    <2> QED BY <2>5, <2>6
  <1> QED BY <1>3, <1>4 DEF DelsInv, OlderCopy

\* A post leaves what the ids in use say as it was.
LEMMA PostLog ==
    ASSUME IInv, DelsInv, NEW v \in Vids, posted' = Append(posted, v),
           channel' = channel \union {Len(posted) + 1}, dels' = dels
    PROVE  Logged /\ DelsInv'
  <1>1. Logged
    BY DEF Logged, Log!Next, Log!Post
  <1>2. /\ \A i \in 1 .. Len(posted) : posted'[i] = posted[i]
        /\ channel \subseteq 1 .. Len(posted)
        /\ \A t \in Tasks : dels[t] \subseteq 1 .. Len(posted)
    BY AppendProperties DEF IInv, TypeOK, ChannelType
  <1>3. DelsInv'
    BY <1>2 DEF DelsInv, OlderCopy
  <1> QED BY <1>1, <1>3

\* A step that leaves the channel alone and gives clean-ups only what has an
\* older visible copy.
LEMMA QuietLog ==
    ASSUME DelsInv, UNCHANGED chan,
           \A t \in Tasks : \A i \in dels'[t] : i \in dels[t] \/ OlderCopy(i, channel)
    PROVE  Logged /\ DelsInv'
  BY DEF Logged, DelsInv, chan, OlderCopy

LEMMA StepLog == IInv /\ DelsInv /\ [Next]_vars => Logged /\ DelsInv'
  <1> SUFFICES ASSUME IInv, DelsInv, [Next]_vars PROVE Logged /\ DelsInv'
    OBVIOUS
  <1>1. ASSUME NEW t \in Tasks, BootDelete(t) \/ SweepDelete(t) PROVE Logged /\ DelsInv'
    BY <1>1, DeleteOneLog DEF BootDelete, SweepDelete
  <1>2. ASSUME NEW t \in Tasks, BootSweep(t) PROVE Logged /\ DelsInv'
    BY <1>2, QuietLog DEF BootSweep, chan, IInv, TypeOK, ChannelType
  <1>3. ASSUME NEW t \in Tasks, Sweep(t) PROVE Logged /\ DelsInv'
    <2>1. \A i \in SweepList(VidOf(cur[t])) : OlderCopy(i, channel)
      BY DEF SweepList, NewestCopies, Copies, OlderCopy
    <2> QED BY <1>3, <2>1, QuietLog DEF Sweep, chan, IInv, TypeOK, ChannelType
  <1>4. CASE Arrive
    <2>1. VidOf(cur[sending]) \in Vids
      BY <1>4, ConstTypes DEF Arrive, IInv, TypeOK, WorkerType, TaskType, CurInv, WaitInv,
         PostPhase
    <2>2. dels' = dels
      BY <1>4 DEF Arrive, ctl
    <2> QED BY <1>4, <2>1, <2>2, PostLog DEF Arrive
  <1>5. ASSUME NEW v \in Vids, OtherPost(v) PROVE Logged /\ DelsInv'
    BY <1>5, PostLog DEF OtherPost, ctl
  <1>6. CASE Crash
    BY <1>6, QuietLog DEF Crash, Boot
  <1>7. CASE UNCHANGED <<chan, dels>>
    BY <1>7, QuietLog
  <1>8. ASSUME NEW t \in Tasks, Tick(t) PROVE UNCHANGED <<chan, dels>>
    BY <1>8 DEF Tick
  <1>9. ASSUME NEW t \in Tasks, TaskStep(t),
               ~BootDelete(t), ~SweepDelete(t), ~BootSweep(t), ~Sweep(t)
        PROVE  UNCHANGED <<chan, dels>>
    BY <1>9 DEF TaskStep, BootWarm, SkipKnown, SuppressOld, SkipCached, StartLook, Warm,
       Scan, SkipFound, SkipUnnamed, SkipInflight, Claim, ClaimCached, Drop, Enqueue, Sent,
       SendFailed, NothingToSweep
  <1>10. ASSUME WorkerStep, ~Arrive PROVE UNCHANGED <<chan, dels>>
    BY <1>10 DEF WorkerStep, WorkerGet, WorkerOk, WorkerError, Worker1015, WorkerDone, ctl
  <1>11. ASSUME CooldownOver \/ UNCHANGED vars PROVE UNCHANGED <<chan, dels>>
    BY <1>11 DEF CooldownOver, vars, ctl
  <1> QED
    BY <1>1, <1>2, <1>3, <1>4, <1>5, <1>6, <1>7, <1>8, <1>9, <1>10, <1>11 DEF Next

\* The announcer implements the channel log: no interleaving of posts and
\* clean-ups withdraws the oldest visible copy of a video.
THEOREM Refinement == Spec => ImplementsLog
  <1>1. Init => Log!Init /\ DelsInv
    BY DEF Init, Log!Init, DelsInv
  <1>2. IInv /\ DelsInv /\ [Next]_vars => [Log!Next]_<<posted, channel>> /\ DelsInv'
    BY StepLog DEF Logged
  <1> QED BY <1>1, <1>2, Invariance, PTL DEF Spec, ImplementsLog, Log!Spec

-----------------------------------------------------------------------------
\* Once in one boot.
InPost(t) == pc[t] \in PostPhase

\* _INFLIGHT_VIDS against the tasks inside _post.
InflightInv ==
    /\ \A t \in Tasks : InPost(t) => VidOf(cur[t]) \in inflight
    /\ \A v \in inflight : \E t \in Tasks : InPost(t) /\ VidOf(cur[t]) = v
    /\ \A t, u \in Tasks :
          InPost(t) /\ InPost(u) /\ VidOf(cur[t]) = VidOf(cur[u]) => t = u

\* An acknowledged video is in the cache, or on its way there with the task that
\* was just answered.
AckInv ==
    \A v \in acked :
       \/ v \in cache
       \/ \E t \in Tasks : pc[t] = "wait" /\ fut[t] = "msg" /\ VidOf(cur[t]) = v

\* A task that may still send holds a video that was not acknowledged.
BeforeSend(t) ==
    pc[t] \in {"rescan", "rescanned"} \/ (pc[t] = "wait" /\ fut[t] = "pending")

FreshInv == \A t \in Tasks : BeforeSend(t) => VidOf(cur[t]) \notin acked

OInv == InflightInv /\ AckInv /\ FreshInv

LEMMA InitOnce == Init => OInv
  BY DEF Init, OInv, InflightInv, AckInv, FreshInv, InPost, BeforeSend, PostPhase

LEMMA BootWarmOnce ==
  ASSUME IInv, OInv, NEW t \in Tasks, BootWarm(t)
  PROVE  OInv'
  BY DEF OInv, InflightInv, AckInv, FreshInv, InPost, BeforeSend, IInv,
     TypeOK, MemType, WorkerType, TaskType, CurInv, WaitInv, RestPhase,
     LookPhase, PostPhase, BootWarm, WarmCache, wkr, chan

LEMMA BootSweepOnce ==
  ASSUME IInv, OInv, NEW t \in Tasks, BootSweep(t)
  PROVE  OInv'
  BY DEF OInv, InflightInv, AckInv, FreshInv, InPost, BeforeSend, IInv,
     TypeOK, MemType, WorkerType, TaskType, CurInv, WaitInv, RestPhase,
     LookPhase, PostPhase, BootSweep, mem, wkr, chan

LEMMA BootDeleteOnce ==
  ASSUME IInv, OInv, NEW t \in Tasks, BootDelete(t)
  PROVE  OInv'
  BY DEF OInv, InflightInv, AckInv, FreshInv, InPost, BeforeSend, IInv,
     TypeOK, MemType, WorkerType, TaskType, CurInv, WaitInv, RestPhase,
     LookPhase, PostPhase, BootDelete, mem, wkr

LEMMA SkipKnownOnce ==
  ASSUME IInv, OInv, NEW t \in Tasks, SkipKnown(t)
  PROVE  OInv'
  BY DEF OInv, InflightInv, AckInv, FreshInv, InPost, BeforeSend, IInv,
     TypeOK, MemType, WorkerType, TaskType, CurInv, WaitInv, RestPhase,
     LookPhase, PostPhase, SkipKnown, Proceed, wkr, chan

LEMMA SuppressOldOnce ==
  ASSUME IInv, OInv, NEW t \in Tasks, SuppressOld(t)
  PROVE  OInv'
  BY DEF OInv, InflightInv, AckInv, FreshInv, InPost, BeforeSend, IInv,
     TypeOK, MemType, WorkerType, TaskType, CurInv, WaitInv, RestPhase,
     LookPhase, PostPhase, SuppressOld, Proceed, wkr, chan

LEMMA SkipCachedOnce ==
  ASSUME IInv, OInv, NEW t \in Tasks, SkipCached(t)
  PROVE  OInv'
  BY DEF OInv, InflightInv, AckInv, FreshInv, InPost, BeforeSend, IInv,
     TypeOK, MemType, WorkerType, TaskType, CurInv, WaitInv, RestPhase,
     LookPhase, PostPhase, SkipCached, Proceed, wkr, chan

LEMMA StartLookOnce ==
  ASSUME IInv, OInv, NEW t \in Tasks, StartLook(t)
  PROVE  OInv'
  BY DEF OInv, InflightInv, AckInv, FreshInv, InPost, BeforeSend, IInv,
     TypeOK, MemType, WorkerType, TaskType, CurInv, WaitInv, RestPhase,
     LookPhase, PostPhase, StartLook, mem, wkr, chan

LEMMA WarmOnce ==
  ASSUME IInv, OInv, NEW t \in Tasks, Warm(t)
  PROVE  OInv'
  BY DEF OInv, InflightInv, AckInv, FreshInv, InPost, BeforeSend, IInv,
     TypeOK, MemType, WorkerType, TaskType, CurInv, WaitInv, RestPhase,
     LookPhase, PostPhase, Warm, WarmCache, Proceed, wkr, chan

LEMMA ScanAOnce ==
  ASSUME IInv, OInv, NEW t \in Tasks, Scan(t, "scan", "scanned")
  PROVE  OInv'
  BY DEF OInv, InflightInv, AckInv, FreshInv, InPost, BeforeSend, IInv,
     TypeOK, MemType, WorkerType, TaskType, CurInv, WaitInv, RestPhase,
     LookPhase, PostPhase, Scan, mem, wkr, chan

LEMMA SkipFoundOnce ==
  ASSUME IInv, OInv, NEW t \in Tasks, SkipFound(t)
  PROVE  OInv'
  BY DEF OInv, InflightInv, AckInv, FreshInv, InPost, BeforeSend, IInv,
     TypeOK, MemType, WorkerType, TaskType, CurInv, WaitInv, RestPhase,
     LookPhase, PostPhase, SkipFound, Proceed, wkr, chan

LEMMA SkipUnnamedOnce ==
  ASSUME IInv, OInv, NEW t \in Tasks, SkipUnnamed(t)
  PROVE  OInv'
  BY DEF OInv, InflightInv, AckInv, FreshInv, InPost, BeforeSend, IInv,
     TypeOK, MemType, WorkerType, TaskType, CurInv, WaitInv, RestPhase,
     LookPhase, PostPhase, SkipUnnamed, Proceed, mem, wkr, chan

LEMMA SkipInflightOnce ==
  ASSUME IInv, OInv, NEW t \in Tasks, SkipInflight(t)
  PROVE  OInv'
  BY DEF OInv, InflightInv, AckInv, FreshInv, InPost, BeforeSend, IInv,
     TypeOK, MemType, WorkerType, TaskType, CurInv, WaitInv, RestPhase,
     LookPhase, PostPhase, SkipInflight, Taken, Proceed, mem, wkr, chan

LEMMA ClaimOnce ==
  ASSUME IInv, OInv, NEW t \in Tasks, Claim(t)
  PROVE  OInv'
  BY DEF OInv, InflightInv, AckInv, FreshInv, InPost, BeforeSend, IInv,
     TypeOK, MemType, WorkerType, TaskType, CurInv, WaitInv, RestPhase,
     LookPhase, PostPhase, Claim, Taken, mem, wkr, chan

LEMMA ClaimCachedOnce ==
  ASSUME IInv, OInv, NEW t \in Tasks, ClaimCached(t)
  PROVE  OInv'
  BY DEF OInv, InflightInv, AckInv, FreshInv, InPost, BeforeSend, IInv,
     TypeOK, MemType, WorkerType, TaskType, CurInv, WaitInv, RestPhase,
     LookPhase, PostPhase, ClaimCached, Taken, Finish, Release, Proceed, wkr,
     chan

LEMMA ScanBOnce ==
  ASSUME IInv, OInv, NEW t \in Tasks, Scan(t, "rescan", "rescanned")
  PROVE  OInv'
  BY DEF OInv, InflightInv, AckInv, FreshInv, InPost, BeforeSend, IInv,
     TypeOK, MemType, WorkerType, TaskType, CurInv, WaitInv, RestPhase,
     LookPhase, PostPhase, Scan, mem, wkr, chan

LEMMA DropOnce ==
  ASSUME IInv, OInv, NEW t \in Tasks, Drop(t)
  PROVE  OInv'
  BY DEF OInv, InflightInv, AckInv, FreshInv, InPost, BeforeSend, IInv,
     TypeOK, MemType, WorkerType, TaskType, CurInv, WaitInv, RestPhase,
     LookPhase, PostPhase, Drop, NotSent, Finish, Release, Proceed, wkr, chan

LEMMA EnqueueOnce ==
  ASSUME IInv, OInv, NEW t \in Tasks, Enqueue(t)
  PROVE  OInv'
  BY DEF OInv, InflightInv, AckInv, FreshInv, InPost, BeforeSend, IInv,
     TypeOK, MemType, WorkerType, TaskType, CurInv, WaitInv, RestPhase,
     LookPhase, PostPhase, Enqueue, mem, chan

LEMMA SentOnce ==
  ASSUME IInv, OInv, NEW t \in Tasks, Sent(t)
  PROVE  OInv'
  BY DEF OInv, InflightInv, AckInv, FreshInv, InPost, BeforeSend, IInv,
     TypeOK, MemType, WorkerType, TaskType, CurInv, WaitInv, RestPhase,
     LookPhase, PostPhase, Sent, wkr, chan

LEMMA SendFailedOnce ==
  ASSUME IInv, OInv, NEW t \in Tasks, SendFailed(t)
  PROVE  OInv'
  BY DEF OInv, InflightInv, AckInv, FreshInv, InPost, BeforeSend, IInv,
     TypeOK, MemType, WorkerType, TaskType, CurInv, WaitInv, RestPhase,
     LookPhase, PostPhase, SendFailed, GiveUp, Release, Proceed, wkr, chan

LEMMA SweepOnce ==
  ASSUME IInv, OInv, NEW t \in Tasks, Sweep(t)
  PROVE  OInv'
  BY DEF OInv, InflightInv, AckInv, FreshInv, InPost, BeforeSend, IInv,
     TypeOK, MemType, WorkerType, TaskType, CurInv, WaitInv, RestPhase,
     LookPhase, PostPhase, Sweep, mem, wkr, chan

LEMMA NothingToSweepOnce ==
  ASSUME IInv, OInv, NEW t \in Tasks, NothingToSweep(t)
  PROVE  OInv'
  BY DEF OInv, InflightInv, AckInv, FreshInv, InPost, BeforeSend, IInv,
     TypeOK, MemType, WorkerType, TaskType, CurInv, WaitInv, RestPhase,
     LookPhase, PostPhase, NothingToSweep, Finish, Release, Proceed, wkr, chan

LEMMA SweepDeleteOnce ==
  ASSUME IInv, OInv, NEW t \in Tasks, SweepDelete(t)
  PROVE  OInv'
  BY DEF OInv, InflightInv, AckInv, FreshInv, InPost, BeforeSend, IInv,
     TypeOK, MemType, WorkerType, TaskType, CurInv, WaitInv, RestPhase,
     LookPhase, PostPhase, SweepDelete, Finish, Release, Proceed, wkr

LEMMA TickOnce ==
  ASSUME IInv, OInv, NEW t \in Tasks, Tick(t)
  PROVE  OInv'
  BY DEF OInv, InflightInv, AckInv, FreshInv, InPost, BeforeSend, IInv,
     TypeOK, MemType, WorkerType, TaskType, CurInv, WaitInv, RestPhase,
     LookPhase, PostPhase, Tick, mem, wkr, chan

LEMMA WorkerGetOnce ==
  ASSUME IInv, OInv, WorkerGet
  PROVE  OInv'
  BY DEF OInv, InflightInv, AckInv, FreshInv, InPost, BeforeSend, IInv,
     TypeOK, MemType, WorkerType, TaskType, CurInv, WaitInv, RestPhase,
     LookPhase, PostPhase, WorkerGet, mem, ctl, chan

LEMMA ArriveOnce ==
  ASSUME IInv, OInv, Arrive
  PROVE  OInv'
  BY DEF OInv, InflightInv, AckInv, FreshInv, InPost, BeforeSend, IInv,
     TypeOK, MemType, WorkerType, TaskType, CurInv, WaitInv, RestPhase,
     LookPhase, PostPhase, Arrive, mem, ctl

LEMMA WorkerOkOnce ==
  ASSUME IInv, OInv, WorkerOk
  PROVE  OInv'
  BY DEF OInv, InflightInv, AckInv, FreshInv, InPost, BeforeSend, IInv,
     TypeOK, MemType, WorkerType, TaskType, CurInv, WaitInv, RestPhase,
     LookPhase, PostPhase, WorkerOk, WorkerDone, mem, ctl, chan

LEMMA WorkerErrorOnce ==
  ASSUME IInv, OInv, WorkerError
  PROVE  OInv'
  BY DEF OInv, InflightInv, AckInv, FreshInv, InPost, BeforeSend, IInv,
     TypeOK, MemType, WorkerType, TaskType, CurInv, WaitInv, RestPhase,
     LookPhase, PostPhase, WorkerError, WorkerDone, mem, ctl, chan

LEMMA Worker1015Once ==
  ASSUME IInv, OInv, Worker1015
  PROVE  OInv'
  BY DEF OInv, InflightInv, AckInv, FreshInv, InPost, BeforeSend, IInv,
     TypeOK, MemType, WorkerType, TaskType, CurInv, WaitInv, RestPhase,
     LookPhase, PostPhase, Worker1015, WorkerDone, mem, ctl, chan, Drained

LEMMA CooldownOverOnce ==
  ASSUME IInv, OInv, CooldownOver
  PROVE  OInv'
  BY DEF OInv, InflightInv, AckInv, FreshInv, InPost, BeforeSend, IInv,
     TypeOK, MemType, WorkerType, TaskType, CurInv, WaitInv, RestPhase,
     LookPhase, PostPhase, CooldownOver, mem, ctl, chan

LEMMA CrashOnce ==
  ASSUME IInv, OInv, Crash
  PROVE  OInv'
  BY DEF OInv, InflightInv, AckInv, FreshInv, InPost, BeforeSend, IInv,
     TypeOK, MemType, WorkerType, TaskType, CurInv, WaitInv, RestPhase,
     LookPhase, PostPhase, Crash, Boot, chan

LEMMA OtherPostOnce ==
  ASSUME IInv, OInv, NEW v \in Vids, OtherPost(v)
  PROVE  OInv'
  BY DEF OInv, InflightInv, AckInv, FreshInv, InPost, BeforeSend, IInv,
     TypeOK, MemType, WorkerType, TaskType, CurInv, WaitInv, RestPhase,
     LookPhase, PostPhase, OtherPost, mem, wkr, ctl

LEMMA StutterOnce == ASSUME OInv, UNCHANGED vars PROVE OInv'
  BY DEF OInv, InflightInv, AckInv, FreshInv, InPost, BeforeSend, vars, mem, ctl

LEMMA StepOnce == IInv /\ OInv /\ [Next]_vars => OInv'
  <1> SUFFICES ASSUME IInv, OInv, [Next]_vars PROVE OInv'
    OBVIOUS
  <1>1. CASE \E t \in Tasks : Tick(t)
    BY <1>1, TickOnce
  <1>2. CASE \E t \in Tasks : TaskStep(t)
    BY <1>2, BootWarmOnce, BootSweepOnce, BootDeleteOnce, SkipKnownOnce,
       SuppressOldOnce, SkipCachedOnce, StartLookOnce, WarmOnce, ScanAOnce,
       SkipFoundOnce, SkipUnnamedOnce, SkipInflightOnce, ClaimOnce,
       ClaimCachedOnce, ScanBOnce, DropOnce, EnqueueOnce, SentOnce,
       SendFailedOnce, SweepOnce, NothingToSweepOnce, SweepDeleteOnce DEF TaskStep
  <1>3. CASE WorkerStep
    BY <1>3, WorkerGetOnce, ArriveOnce, WorkerOkOnce, WorkerErrorOnce, Worker1015Once
    DEF WorkerStep
  <1>4. CASE CooldownOver \/ Crash
    BY <1>4, CooldownOverOnce, CrashOnce
  <1>5. CASE \E v \in Vids : OtherPost(v)
    BY <1>5, OtherPostOnce
  <1>6. CASE UNCHANGED vars
    BY <1>6, StutterOnce
  <1> QED BY <1>1, <1>2, <1>3, <1>4, <1>5, <1>6 DEF Next

LEMMA OnceInvariance == Spec => []OInv
  BY InitOnce, StepOnce, Invariance, PTL DEF Spec

\* No interleaving of poll loop, ingest handlers and worker sends a video whose
\* announcement was already acknowledged in this boot.
THEOREM NoResend == Spec => []NoResendInBoot
  <1>1. IInv /\ OInv => NoResendInBoot
    BY DEF IInv, TypeOK, WorkerType, WaitInv, OInv, FreshInv, BeforeSend, NoResendInBoot
  <1> QED BY <1>1, Invariance, OnceInvariance, PTL

\* _INFLIGHT_VIDS is exactly what the tasks inside _post hold: no claim is
\* shared and none outlives its _post, whichever way that ends.
THEOREM ExactClaims == Spec => []InflightExact
  <1>1. OInv => InflightExact
    BY DEF OInv, InflightInv, InPost, InflightExact
  <1> QED BY <1>1, OnceInvariance, PTL

-----------------------------------------------------------------------------
\* No duplicate over all boots, if every history read succeeds and no other instance of
\* the bot posts.
ReadableHistory == FaultKinds \intersect {"history", "other"} = {}

IsPosted(v) == \E i \in 1 .. Len(posted) : posted[i] = v

\* The task may still send what it claimed, and its message has not arrived.
MaySend(t) ==
    \/ pc[t] = "rescanned" /\ ~found[t]
    \/ pc[t] = "wait" /\ fut[t] = "pending" /\ ~(sending = t /\ wire = "arrived")

UnsentInv == \A t \in Tasks : MaySend(t) => ~IsPosted(VidOf(cur[t]))

\* No clean-up has anything to delete, so all messages are still visible.
AllShown == channel = 1 .. Len(posted) /\ \A t \in Tasks : dels[t] = {}

DupInv == NoDuplicatePosts /\ AllShown /\ UnsentInv

LEMMA InitDup == Init => DupInv
  BY EmptyQueue DEF Init, DupInv, NoDuplicatePosts, AllShown, UnsentInv, MaySend

\* A step that posts and deletes nothing, and after which no more tasks may send.
LEMMA QuietDup ==
  ASSUME DupInv, UNCHANGED <<chan, dels>>,
         \A t \in Tasks : MaySend(t)' => MaySend(t) /\ cur'[t] = cur[t]
  PROVE  DupInv'
  BY DEF DupInv, NoDuplicatePosts, AllShown, UnsentInv, IsPosted, chan

\* With all messages visible a clean-up finds nothing.
LEMMA NothingOlder ==
  ASSUME DupInv, NEW S \in SUBSET channel
  PROVE  {i \in S : OlderCopy(i, S)} = {}
  BY DEF DupInv, NoDuplicatePosts, AllShown, OlderCopy

LEMMA SweepDup ==
  ASSUME ReadableHistory, IInv, DupInv, NEW t \in Tasks,
         \/ BootSweep(t) \/ BootDelete(t) \/ Sweep(t) \/ NothingToSweep(t) \/ SweepDelete(t)
  PROVE  DupInv'
  <1> USE DEF IInv, TypeOK, TaskType, ChannelType
  <1>1. CASE BootSweep(t)
    <2>1. dels' = [dels EXCEPT ![t] = {}] /\ pc' = [pc EXCEPT ![t] = "idle"]
      BY <1>1, NothingOlder DEF BootSweep, Spend, ReadableHistory
    <2>2. dels' = dels /\ UNCHANGED <<chan, wkr, fut, cur, found>>
      BY <1>1, <2>1 DEF BootSweep, DupInv, AllShown
    <2> QED BY <2>1, <2>2, QuietDup DEF MaySend, wkr
  <1>2. ~BootDelete(t) /\ ~SweepDelete(t)
    BY DEF BootDelete, SweepDelete, DeleteOne, DupInv, AllShown
  <1>3. ~Sweep(t)
    <2>1. SweepList(VidOf(cur[t])) = {}
      BY NothingOlder DEF SweepList, NewestCopies, Copies
    <2> QED BY <2>1 DEF Sweep
  <1>4. CASE NothingToSweep(t)
    <2>1. pc' \in [Tasks -> RestPhase \union LookPhase \union PostPhase] /\ pc'[t] \in RestPhase
          /\ \A u \in Tasks \ {t} : pc'[u] = pc[u] /\ cur'[u] = cur[u] /\ found'[u] = found[u]
      BY <1>4 DEF NothingToSweep, Finish, Proceed, RestPhase
    <2>2. UNCHANGED <<chan, dels, wkr, fut>>
      BY <1>4 DEF NothingToSweep
    <2> QED BY <2>1, <2>2, QuietDup DEF MaySend, wkr, RestPhase
  <1> QED BY <1>1, <1>2, <1>3, <1>4

\* The second look at the history, inside the claim.
LEMMA RescanDup ==
  ASSUME ReadableHistory, IInv, DupInv, NEW t \in Tasks, Scan(t, "rescan", "rescanned")
  PROVE  DupInv'
  <1> USE DEF IInv, TypeOK, TaskType, ChannelType
  <1>1. /\ pc' = [pc EXCEPT ![t] = "rescanned"]
        /\ found' = [found EXCEPT ![t] = InHistory(VidOf(cur[t]))]
        /\ UNCHANGED <<chan, dels, wkr, fut, cur>>
    BY DEF Scan, Spend, ReadableHistory
  <1>2. InHistory(VidOf(cur[t])) <=> IsPosted(VidOf(cur[t]))
    BY DEF InHistory, ChannelVids, IsPosted, DupInv, AllShown
  <1>3. MaySend(t)' => ~IsPosted(VidOf(cur[t]))
    BY <1>1, <1>2 DEF MaySend
  <1>4. \A u \in Tasks \ {t} : MaySend(u)' => MaySend(u)
    BY <1>1 DEF MaySend, wkr
  <1> QED BY <1>1, <1>3, <1>4 DEF DupInv, NoDuplicatePosts, AllShown, UnsentInv, IsPosted, chan

\* The other steps of a task: only Enqueue leaves it where it may send, as before.
LEMMA TaskDup ==
  ASSUME IInv, DupInv, NEW t \in Tasks,
         \/ Tick(t) \/ BootWarm(t) \/ SkipKnown(t) \/ SuppressOld(t) \/ SkipCached(t)
         \/ StartLook(t) \/ Warm(t) \/ Scan(t, "scan", "scanned") \/ SkipFound(t)
         \/ SkipUnnamed(t) \/ SkipInflight(t) \/ Claim(t) \/ ClaimCached(t) \/ Drop(t)
         \/ Enqueue(t) \/ Sent(t) \/ SendFailed(t)
  PROVE  DupInv'
  <1> USE DEF IInv, TypeOK, TaskType
  <1>1. UNCHANGED <<chan, dels, sending, wire>>
    BY DEF Tick, BootWarm, SkipKnown, SuppressOld, SkipCached, StartLook, Warm, Scan,
       SkipFound, SkipUnnamed, SkipInflight, Claim, ClaimCached, Drop, Enqueue, Sent,
       SendFailed, wkr
  <1>2. \A u \in Tasks \ {t} :
           pc'[u] = pc[u] /\ cur'[u] = cur[u] /\ found'[u] = found[u] /\ fut'[u] = fut[u]
    BY DEF Tick, BootWarm, SkipKnown, SuppressOld, SkipCached, StartLook, Warm, Scan,
       SkipFound, SkipUnnamed, SkipInflight, Claim, ClaimCached, Drop, Enqueue, Sent,
       SendFailed, Finish, GiveUp, Proceed
  <1>3. CASE Enqueue(t)
    <2>1. MaySend(t) /\ cur' = cur
      BY <1>3 DEF Enqueue, MaySend
    <2> QED BY <1>1, <1>2, <2>1, QuietDup DEF MaySend
  <1>4. CASE ~Enqueue(t)
    <2>1. pc'[t] \notin {"rescanned", "wait"}
      BY <1>4 DEF Tick, BootWarm, SkipKnown, SuppressOld, SkipCached, StartLook, Warm, Scan,
         SkipFound, SkipUnnamed, SkipInflight, Claim, ClaimCached, Drop, Sent,
         SendFailed, Finish, GiveUp, Proceed
    <2> QED BY <1>1, <1>2, <2>1, QuietDup DEF MaySend
  <1> QED BY <1>3, <1>4

\* The message of the task whose item the worker holds; no other task claims its video.
LEMMA ArriveDup ==
  ASSUME IInv, InflightInv, DupInv, Arrive
  PROVE  DupInv'
  <1> USE DEF IInv, TypeOK, TaskType, ChannelType, WorkerType
  <1> DEFINE v == VidOf(cur[sending])
  <1>1. /\ posted' = Append(posted, v) /\ channel' = channel \union {Len(posted) + 1}
        /\ wire = "sent" /\ wire' = "arrived"
        /\ UNCHANGED <<pc, cur, found, dels, fut, sending>>
    BY DEF Arrive, ctl
  <1>2. /\ sending \in Tasks /\ pc[sending] = "wait" /\ MaySend(sending)
    BY <1>1 DEF WaitInv, MaySend
  <1>3. ~IsPosted(v) /\ v \in Vids
    BY <1>2, ConstTypes DEF DupInv, UnsentInv, CurInv, PostPhase
  <1>4. /\ Len(posted') = Len(posted) + 1 /\ posted'[Len(posted) + 1] = v
        /\ \A i \in 1 .. Len(posted) : posted'[i] = posted[i]
    BY <1>1, <1>3, AppendProperties
  <1>5. Len(posted) \in Nat
    BY LenProperties
  <1>6. NoDuplicatePosts'
    BY <1>3, <1>4, <1>5 DEF NoDuplicatePosts, IsPosted, DupInv
  <1>7. AllShown'
    BY <1>1, <1>4, <1>5 DEF AllShown, DupInv
  <1>8. UnsentInv'
    <2> SUFFICES ASSUME NEW u \in Tasks, MaySend(u)' PROVE ~IsPosted(VidOf(cur[u]))'
      BY DEF UnsentInv
    <2>1. u # sending /\ MaySend(u)
      BY <1>1, <1>2 DEF MaySend
    <2>2. VidOf(cur[u]) # v
      BY <1>2, <2>1 DEF InflightInv, InPost, PostPhase, MaySend
    <2> QED BY <1>1, <1>4, <1>5, <2>1, <2>2 DEF DupInv, UnsentInv, IsPosted
  <1> QED BY <1>6, <1>7, <1>8 DEF DupInv

LEMMA WorkerDup ==
  ASSUME IInv, DupInv, WorkerGet \/ WorkerOk \/ WorkerError \/ Worker1015
  PROVE  DupInv'
  <1> USE DEF IInv, TypeOK, TaskType, WorkerType
  <1>1. UNCHANGED <<chan, dels, pc, cur, found>>
    BY DEF WorkerGet, WorkerOk, WorkerError, Worker1015, WorkerDone, ctl
  <1>2. CASE WorkerGet
    <2>1. \A u \in Tasks : fut'[u] = "pending" => fut[u] = "pending"
      BY <1>2 DEF WorkerGet
    <2>2. sending = None
      BY <1>2 DEF WorkerGet
    <2> QED BY <1>1, <2>1, <2>2, QuietDup DEF MaySend
  <1>3. CASE ~WorkerGet
    <2>1. /\ sending \in Tasks /\ fut'[sending] # "pending"
          /\ \A u \in Tasks \ {sending} : fut'[u] = fut[u]
      BY <1>3 DEF WorkerOk, WorkerError, Worker1015, WorkerDone
    <2>2. pc[sending] = "wait"
      BY <2>1 DEF WaitInv
    <2> QED BY <1>1, <2>1, <2>2, QuietDup DEF MaySend
  <1> QED BY <1>2, <1>3

LEMMA StepDup ==
  ReadableHistory => (IInv /\ OInv /\ DupInv /\ [Next]_vars => DupInv')
  <1> SUFFICES ASSUME ReadableHistory, IInv, OInv, DupInv, [Next]_vars PROVE DupInv'
    OBVIOUS
  <1>1. CASE \E t \in Tasks : Tick(t) \/ TaskStep(t)
    BY <1>1, SweepDup, RescanDup, TaskDup DEF TaskStep
  <1>2. CASE WorkerStep
    BY <1>2, ArriveDup, WorkerDup DEF WorkerStep, OInv
  <1>3. CASE Crash
    <2>1. \A t \in Tasks : pc'[t] \in {"bootwarm", "idle"} /\ dels'[t] = {}
      BY <1>3 DEF Crash, Boot
    <2>2. dels' = dels
      BY <1>3, <2>1 DEF Crash, Boot, DupInv, AllShown, IInv, TypeOK, ChannelType
    <2> QED BY <1>3, <2>1, <2>2, QuietDup DEF Crash, MaySend
  <1>4. \A v \in Vids : ~OtherPost(v)
    BY DEF OtherPost, Spend, ReadableHistory
  <1>5. CASE CooldownOver \/ UNCHANGED vars
    <2>1. UNCHANGED <<chan, dels, pc, cur, found, fut, sending, wire>>
      BY <1>5 DEF CooldownOver, vars, ctl, wkr
    <2> QED BY <2>1, QuietDup DEF MaySend
  <1> QED BY <1>1, <1>2, <1>3, <1>4, <1>5 DEF Next

\* If every history read succeeds and no other instance posts, then over all boots, failed
\* sends, lost answers, cooldowns and torn state files no video is posted twice.
THEOREM NoDuplicates == ReadableHistory => (Spec => []NoDuplicatePosts)
  <1> SUFFICES ASSUME ReadableHistory PROVE Spec => []NoDuplicatePosts
    OBVIOUS
  <1>1. IInv /\ OInv /\ DupInv /\ [Next]_vars => DupInv'
    BY StepDup
  <1>2. DupInv => NoDuplicatePosts
    BY DEF DupInv
  <1> QED BY <1>1, <1>2, InitDup, Invariance, OnceInvariance, PTL DEF Spec

-----------------------------------------------------------------------------
\* What the state file records, the process knows; and without ingest handlers, which might
\* record it meanwhile, the video the poll loop looks at or may send is not recorded.
Unsettled(t) ==
    \/ pc[t] \in LookPhase \union {"rescan", "rescanned"}
    \/ pc[t] = "wait" /\ fut[t] = "pending"

RecordInv ==
    /\ disk.vids \subseteq annVids
    /\ \A t \in Tasks : Unsettled(t) => VidOf(cur[t]) \notin annVids

LEMMA InitRecord == Init => RecordInv
  BY DEF Init, Empty, RecordInv, Unsettled, LookPhase

\* A result is recorded in memory and on disk at once, and its task is done with it.
LEMMA Recorded ==
  ASSUME Ingests = {}, IInv, NEW t \in Tasks, NEW r, Record(r), Proceed(t, r)
  PROVE  RecordInv'
  <1>1. disk'.vids = annVids'
    BY DEF Record
  <1>2. pc'[t] \in {"idle", "judge"}
    BY DEF Proceed, IInv, TypeOK, TaskType
  <1> QED BY <1>1, <1>2 DEF RecordInv, Unsettled, LookPhase

\* A step that records nothing, after which no more is looked at or may be sent.
LEMMA NothingRecorded ==
  ASSUME RecordInv, annVids' = annVids, disk'.vids \in {disk.vids, annVids},
         \A t \in Tasks : Unsettled(t)' => cur'[t] = cur[t] /\ Unsettled(t)
  PROVE  RecordInv'
  BY DEF RecordInv

LEMMA TaskRecord ==
  ASSUME Ingests = {}, IInv, RecordInv, NEW t \in Tasks, TaskStep(t)
  PROVE  RecordInv'
  <1>1. /\ pc \in [Tasks -> RestPhase \union LookPhase \union PostPhase] /\ cur \in [Tasks -> Feed \union {None}]
        /\ fut \in [Tasks -> {"none", "pending", "msg", "refused", "error"}]
    BY DEF IInv, TypeOK, TaskType
  <1>2. CASE SuppressOld(t) \/ SkipCached(t) \/ SkipFound(t) \/ ClaimCached(t) \/ Drop(t) \/ NothingToSweep(t)
    BY <1>2, Recorded DEF SuppressOld, SkipCached, SkipFound, ClaimCached, Drop, NothingToSweep, Finish
  <1>3. CASE StartLook(t)
    <2>1. PICK r \in todo[t] : r \in Feed /\ VidOf(r) \notin annVids /\ cur' = [cur EXCEPT ![t] = r]
      BY <1>3 DEF StartLook, Known, IInv, TypeOK, TaskType
    <2>2. UNCHANGED <<annVids, disk>>
      BY <1>3 DEF StartLook, mem
    <2> QED BY <1>1, <2>1, <2>2 DEF RecordInv
  <1>4. CASE Warm(t)
    <2>1. CASE Record(cur[t]) /\ Proceed(t, cur[t])
      BY <2>1, Recorded
    <2>2. CASE pc' = [pc EXCEPT ![t] = "scan"] /\ UNCHANGED <<annVids, disk, cur>>
      BY <1>1, <1>4, <2>2, NothingRecorded DEF Warm, Unsettled, LookPhase
    <2> QED BY <1>4, <2>1, <2>2 DEF Warm
  <1>5. CASE SweepDelete(t)
    <2>1. CASE Finish(t)
      BY <2>1, Recorded DEF Finish
    <2>2. CASE UNCHANGED <<annVids, disk, cur, pc, fut>>
      BY <2>2, NothingRecorded DEF Unsettled
    <2> QED BY <1>5, <2>1, <2>2 DEF SweepDelete
  <1>6. CASE SkipKnown(t) \/ SkipUnnamed(t) \/ SkipInflight(t) \/ SendFailed(t)
    <2>1. PICK r : Proceed(t, r)
      BY <1>6 DEF SkipKnown, SkipUnnamed, SkipInflight, SendFailed, GiveUp
    <2>2. pc'[t] \in {"idle", "judge"}
      BY <1>1, <2>1 DEF Proceed
    <2>3. UNCHANGED <<annVids, disk>>
      BY <1>6 DEF SkipKnown, SkipUnnamed, SkipInflight, SendFailed, GiveUp, mem
    <2> QED BY <2>2, <2>3, NothingRecorded DEF Unsettled, LookPhase
  <1>7. CASE Scan(t, "scan", "scanned") \/ Scan(t, "rescan", "rescanned") \/ Claim(t) \/ Enqueue(t)
    <2>1. /\ UNCHANGED <<annVids, disk, cur>> /\ Unsettled(t)
      BY <1>7 DEF Scan, Claim, Enqueue, mem, Unsettled, LookPhase
    <2> QED BY <2>1, NothingRecorded
  <1>8. CASE BootWarm(t) \/ BootSweep(t) \/ BootDelete(t) \/ Sent(t) \/ Sweep(t)
    <2>1. UNCHANGED <<annVids, disk>>
      BY <1>8 DEF BootWarm, BootSweep, BootDelete, Sent, Sweep, mem
    <2>2. pc'[t] \in {"bootsweep", "bootdelete", "idle", "sweep", "delete"}
      BY <1>1, <1>8 DEF BootWarm, BootSweep, BootDelete, Sent, Sweep
    <2> QED BY <2>1, <2>2, NothingRecorded DEF Unsettled, LookPhase
  <1> QED BY <1>2, <1>3, <1>4, <1>5, <1>6, <1>7, <1>8 DEF TaskStep

LEMMA StepRecord ==
  Ingests = {} => (IInv /\ RecordInv /\ [Next]_vars => RecordInv')
  <1> SUFFICES ASSUME Ingests = {}, IInv, RecordInv, [Next]_vars PROVE RecordInv'
    OBVIOUS
  <1>1. ASSUME NEW t \in Tasks, Tick(t) PROVE RecordInv'
    <2>1. /\ annVids' = annVids /\ disk'.vids \in {disk.vids, annVids}
          /\ pc'[t] = "judge"
      BY <1>1 DEF Tick, mem, IInv, TypeOK, TaskType
    <2> QED BY <2>1, NothingRecorded DEF Unsettled, LookPhase
  <1>2. CASE WorkerStep
    <2>1. UNCHANGED <<annVids, disk, cur, pc>>
      BY <1>2 DEF WorkerStep, WorkerGet, Arrive, WorkerOk, WorkerError, Worker1015, WorkerDone, mem, ctl
    <2>2. \A t \in Tasks : fut'[t] = "pending" => fut[t] = "pending"
      BY <1>2 DEF WorkerStep, WorkerGet, Arrive, WorkerOk, WorkerError, Worker1015, WorkerDone, IInv,
         TypeOK, TaskType
    <2> QED BY <2>1, <2>2, NothingRecorded DEF Unsettled
  <1>3. CASE Crash
    <2>1. annVids' = disk'.vids /\ pc'[Poll] = "bootwarm"
      BY <1>3 DEF Crash, Boot
    <2> QED BY <2>1 DEF RecordInv, Unsettled, LookPhase
  <1>4. CASE (\E v \in Vids : OtherPost(v)) \/ CooldownOver \/ UNCHANGED vars
    <2>1. UNCHANGED <<annVids, disk, cur, pc, fut>>
      BY <1>4 DEF OtherPost, CooldownOver, vars, mem, ctl
    <2> QED BY <2>1, NothingRecorded DEF Unsettled
  <1> QED BY <1>1, <1>2, <1>3, <1>4, TaskRecord DEF Next

\* The worker begins a send with the oldest item, whose task waits for it.
LEMMA SendBegins ==
  ASSUME IInv, [Next]_vars, sending = None, sending' # None
  PROVE  sending' \in Tasks /\ pc[sending'] = "wait" /\ fut[sending'] = "pending"
  <1>1. WorkerGet
    BY DEF Next, TaskStep, Tick, BootWarm, BootSweep, BootDelete, SkipKnown, SuppressOld, SkipCached,
       StartLook, Warm, Scan, SkipFound, SkipUnnamed, SkipInflight, Claim, ClaimCached, Drop, Enqueue,
       Sent, SendFailed, Sweep, NothingToSweep, SweepDelete, WorkerStep, Arrive, WorkerOk, WorkerError,
       Worker1015, WorkerDone, CooldownOver, Crash, Boot, OtherPost, wkr, vars
  <1>2. sending' = queue[1] /\ 1 \in 1 .. Len(queue) /\ queue[1] \in Tasks
    BY <1>1 DEF WorkerGet, IInv, TypeOK, WorkerType
  <1> QED BY <1>2 DEF IInv, WaitInv

\* Whatever sends, answers, history reads and restarts fail, and whatever another instance
\* posts: the poll loop never sends a video again that was posted and recorded.  With ingest
\* handlers beside it that holds if the history can be read.
THEOREM NeverResent ==
    ASSUME Ingests = {} \/ ReadableHistory
    PROVE  Spec => RecordedNeverResent
  <1> DEFINE Fresh == sending = None /\ sending' # None =>
                        ~ /\ VidOf(cur[sending']) \in disk.vids
                          /\ \E i \in 1 .. Len(posted) : posted[i] = VidOf(cur[sending'])
  <1>1. CASE Ingests = {}
    <2>1. IInv /\ RecordInv /\ [Next]_vars => [Fresh]_vars
      BY SendBegins DEF RecordInv, Unsettled
    <2>2. IInv /\ RecordInv /\ [Next]_vars => RecordInv'
      BY <1>1, StepRecord
    <2> QED BY <2>1, <2>2, InitRecord, Invariance, PTL DEF Spec, RecordedNeverResent
  <1>2. CASE ReadableHistory
    <2>1. IInv /\ DupInv /\ [Next]_vars => [Fresh]_vars
      BY SendBegins DEF DupInv, UnsentInv, MaySend, IsPosted
    <2>2. IInv /\ OInv /\ DupInv /\ [Next]_vars => DupInv'
      BY <1>2, StepDup
    <2> QED BY <2>1, <2>2, InitDup, Invariance, OnceInvariance, PTL DEF Spec, RecordedNeverResent
  <1> QED BY <1>1, <1>2

=============================================================================
