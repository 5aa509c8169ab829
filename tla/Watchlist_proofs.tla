------------------------- MODULE Watchlist_proofs -------------------------
(***************************************************************************)
(* Proofs about Watchlist: types, and that no posted target is ever at     *)
(* risk while tasks do not overlap and Discord answers.                    *)
(***************************************************************************)
EXTENDS Watchlist, Integers, WellFoundedInduction, TLAPS

Quiet == calm /\ faults = 0

StoreSet == IF Len(stores) = 0 THEN {} ELSE stores[1]

Posted == {m \in Msgs : pc[m] # "unposted"}

\* The posted messages whose targets the store or the next scan has to give back: all but
\* those with an attached file that are still in the thread.
Owed == {m \in Posted : m \notin thread \intersect Files}

\* There is at most one store message, and it is the canonical one.
OneStore ==
    /\ Len(stores) <= 1 /\ open = 1 .. Len(stores) /\ mid \in {0, Len(stores)}

\* One task works at a time; a handler only after both bootstraps.
Alone ==
    /\ \A t, u \in Tasks : AtWork(t) /\ AtWork(u) => t = u
    /\ \A m \in Msgs : AtWork(m) => pc[Loop] = "idle" /\ pc[Ready] = "done"

\* What a fresh disk is rebuilt from.
Kept == \A m \in Posted \ thread : Carries[m] \subseteq StoreSet

\* Once the poll loop runs, file and store have every target that is owed and handled.
Settled ==
    pc[Loop] \in {"idle", "pull"} =>
        \A m \in Owed : ~AtWork(m) => Carries[m] \subseteq disk \intersect StoreSet

\* What a task at work knows, up to its next step.
BootInv(t) ==
    /\ pc[t] = "bootmerge" => buf[t] = disk /\ seen[t] = Content(Len(stores))
    /\ pc[t] = "bootscan" => buf[t] = disk /\ StoreSet \subseteq disk /\ seen[t] = InThread

\* A sync starts from a file with every target that is owed, and the handler's own, and
\* leaves it in the store.
SyncInv(t) ==
    pc[t] \in SyncPcs =>
       /\ buf[t] = disk /\ \A m \in Owed : Carries[m] \subseteq disk
       /\ pc[t] = "create" => seen[t] = disk /\ Len(stores) = 0
       /\ pc[t] \in {"load", "edit"} => at[t] = 1 /\ Len(stores) = 1
       /\ pc[t] = "edit" => seen[t] = stores[1]

PullInv(t) == pc[t] = "pull" => seen[t] = Content(Len(stores))

HandlerInv(t) ==
    t \in Msgs =>
       /\ pc[t] \in {"read", "names", "enrich", "check"} \union SyncPcs => t \in thread
       /\ pc[t] = "read" => t \in Files
       /\ pc[t] = "names" => buf[t] = disk \union Carries[t]
       /\ pc[t] = "enrich" => buf[t] = disk
       /\ pc[t] \in {"enrich", "check"} \union SyncPcs => Carries[t] \subseteq disk
       /\ pc[t] \in {"clean", "delete"} => Carries[t] \subseteq disk \intersect StoreSet

TaskInv(t) == BootInv(t) /\ SyncInv(t) /\ PullInv(t) /\ HandlerInv(t)

QInv == OneStore /\ Alone /\ Kept /\ Settled /\ \A t \in Tasks : TaskInv(t)

QuietInv == Quiet => QInv

-----------------------------------------------------------------------------
LEMMA Maximum ==
  ASSUME NEW n \in Nat, NEW S \in SUBSET (0 .. n), S # {}
  PROVE  \E i \in S : \A j \in S : j <= i
<1> DEFINE T == {k \in Nat : n - k \in S}
<1>1. PICK i \in S : TRUE
  OBVIOUS
<1>2. n - i \in T
  BY <1>1
<1>3. PICK k \in T : \A y \in T : ~(<<y, k>> \in OpToRel(<, Nat))
  <2> HIDE DEF T
  <2>1. T \subseteq Nat
    BY DEF T
  <2> QED BY <1>2, <2>1, NatLessThanWellFounded, WFMin
<1>4. \A y \in T : ~(y < k)
  BY <1>3 DEF OpToRel
<1>5. n - k \in S
  BY <1>3
<1>6. ASSUME NEW j \in S
      PROVE  j <= n - k
  <2>1. n - j \in T
    OBVIOUS
  <2>2. ~(n - j < k)
    <3> HIDE DEF T
    <3> QED BY <2>1, <1>4
  <2>3. k \in Nat /\ j \in Nat
    OBVIOUS
  <2> QED BY <2>2, <2>3
<1> QED BY <1>5, <1>6

LEMMA NewestIsLast ==
  ASSUME TypeOK
  PROVE  Newest \in open \union {0} /\ \A j \in open \union {0} : j <= Newest
<1>1. Len(stores) \in Nat
  BY DEF TypeOK, ChanOK
<1>2. open \union {0} \in SUBSET (0 .. Len(stores))
  BY <1>1 DEF TypeOK, ChanOK
<1>3. \E i \in open \union {0} : \A j \in open \union {0} : j <= i
  <2> DEFINE S == open \union {0}
  <2>1. S # {}
    OBVIOUS
  <2> HIDE DEF S
  <2>2. \E i \in S : \A j \in S : j <= i
    BY <1>1, <1>2, <2>1, Maximum DEF S
  <2> QED BY <2>2 DEF S
<1>4. \E i \in open \union {0} : \A j \in open : j <= i
  BY <1>3
<1>5. Newest \in open \union {0} /\ \A j \in open : j <= Newest
  BY <1>4 DEF Newest
<1>6. 0 <= Newest
  BY <1>5, <1>2, <1>1
<1> QED BY <1>5, <1>6

LEMMA CurrentExists ==
  ASSUME TypeOK
  PROVE  /\ Current \in 0 .. Len(stores) /\ Newest \in 0 .. Len(stores)
         /\ \A i \in {Current, Newest, 0} : i \in 0 .. Len(stores)
<1>1. Newest \in open \union {0} /\ Len(stores) \in Nat
  BY NewestIsLast DEF TypeOK, ChanOK
<1> QED BY <1>1 DEF TypeOK, ChanOK, Current

DataOK == FileOK /\ ChanOK /\ LocalsOK /\ HistOK

\* A step of t leaves the other tasks' data alone.
OthersKeep(t) == \A u \in Tasks \ {t} : at'[u] = at[u] /\ seen'[u] = seen[u]

\* What a task holds of Discord's answers at certain awaits.
HeldOK ==
    \A t \in Tasks : /\ pc[t] \in {"load", "edit"} => at[t] # 0
                     /\ pc[t] \in {"bootscan", "create"} => seen[t] # None

PcOK == pc \in [Tasks -> AllPcs] /\ \A t \in Tasks : pc[t] \in PcsOf(t)

LEMMA Parts == TypeOK <=> DataOK /\ PcOK /\ HeldOK
BY DEF TypeOK, DataOK, PcOK, HeldOK

\* What a fetch returns is nothing or a list of targets.
LEMMA FetchType ==
  ASSUME TypeOK, NEW t \in Tasks, Fetch(t)
  PROVE  /\ seen' \in [Tasks -> {None} \union SUBSET Targets]
         /\ mid' \in 0 .. Len(stores) /\ faults' \in 0 .. MaxFaults
         /\ \A u \in Tasks \ {t} : seen'[u] = seen[u]
<1>1. PICK i \in {Current, Newest, 0} :
        /\ IF i = Current THEN UNCHANGED faults ELSE Fail
        /\ seen' = [seen EXCEPT ![t] = Content(i)]
        /\ mid' = IF i = 0 THEN mid ELSE i
  BY DEF Fetch
<1>2. i \in 0 .. Len(stores)
  BY CurrentExists
<1>3. Content(i) \in {None} \union SUBSET Targets
  BY <1>2 DEF Content, TypeOK, ChanOK
<1>4. faults' \in 0 .. MaxFaults
  BY <1>1, ConstAssumption DEF Fail, TypeOK, HistOK
<1>5. mid' \in 0 .. Len(stores)
  BY <1>1, <1>2 DEF TypeOK, ChanOK
<1>6. seen \in [Tasks -> {None} \union SUBSET Targets]
  BY DEF TypeOK, LocalsOK
<1> QED BY <1>1, <1>3, <1>4, <1>5, <1>6

LEMMA TypeInit == Init => TypeOK
<1> SUFFICES ASSUME Init PROVE TypeOK
  OBVIOUS
<1>1. FileOK
  BY ConstAssumption DEF Init, FileOK
<1>2. ChanOK
  BY DEF Init, ChanOK
<1>3. LocalsOK
  BY DEF Init, LocalsOK
<1>4. calm = TRUE /\ faults = 0 /\ crashes = 0 /\ MaxFaults \in Nat /\ MaxCrashes \in Nat
  BY ConstAssumption DEF Init
<1>5. HistOK
  BY <1>4 DEF HistOK
<1>6. /\ pc[Loop] = "merge" /\ pc[Ready] = "ready" /\ \A m \in Msgs : pc[m] = "unposted"
      /\ pc \in [Tasks -> {"merge", "ready", "unposted"}]
  BY ConstAssumption DEF Init, Tasks
<1>7. PcOK
  BY <1>6 DEF PcOK, Tasks, PcsOf, AllPcs, LoopPcs, ReadyPcs, HandlerPcs
<1>8. HeldOK
  BY <1>6 DEF HeldOK
<1> QED BY <1>1, <1>2, <1>3, <1>5, <1>7, <1>8, Parts DEF DataOK

LEMMA GotoType ==
  ASSUME TypeOK, NEW t \in Tasks, NEW w \in PcsOf(t), Goto(t, w), DataOK', OthersKeep(t),
         w \in {"load", "edit"} => at'[t] # 0,
         w \in {"bootscan", "create"} => seen'[t] # None
  PROVE  TypeOK'
<1>1. pc' = [pc EXCEPT ![t] = w] /\ pc \in [Tasks -> AllPcs]
  BY DEF Goto, TypeOK
<1>2. pc'[t] = w /\ \A u \in Tasks \ {t} : pc'[u] = pc[u]
  BY <1>1
<1>3. w \in AllPcs
  BY DEF PcsOf, AllPcs
<1>4. PcOK'
  BY <1>1, <1>2, <1>3 DEF TypeOK, PcOK
<1>5. HeldOK'
  BY <1>2 DEF TypeOK, HeldOK, OthersKeep
<1>6. DataOK' /\ PcOK' /\ HeldOK' => TypeOK'
  BY Parts, PTL
<1> QED BY <1>4, <1>5, <1>6

LEMMA LeaveType ==
  ASSUME TypeOK, NEW t \in Tasks, Len(stores') \in Nat, Len(stores) <= Len(stores'),
         NEW w \in PcsOf(t) \ {"load", "edit", "bootscan", "create"}, Leave(t, w),
         FileOK', ChanOK', HistOK'
  PROVE  TypeOK'
<1>1. LocalsOK /\ Len(stores) \in Nat
  BY DEF TypeOK, ChanOK
<1>2. 0 .. Len(stores) \subseteq 0 .. Len(stores')
  BY <1>1
<1>3. LocalsOK' /\ OthersKeep(t) /\ Goto(t, w)
  BY <1>1, <1>2 DEF LocalsOK, Leave, OthersKeep
<1> QED BY <1>3, GotoType DEF DataOK

LEMMA PcsFacts ==
  /\ Loop \in Tasks /\ Ready \in Tasks /\ \A m \in Msgs : m \in Tasks
  /\ PcsOf(Loop) = LoopPcs /\ PcsOf(Ready) = ReadyPcs /\ \A m \in Msgs : PcsOf(m) = HandlerPcs
  /\ \A t \in {Loop, Ready} : "bootmerge" \in PcsOf(t) /\ "bootscan" \in PcsOf(t)
  /\ \A t \in Tasks : \A w \in SyncPcs : w \in PcsOf(t)
  /\ \A t \in Tasks :
        /\ AfterSync(t) \in PcsOf(t) \ {"load", "edit", "bootscan", "create"}
<1> USE ConstAssumption DEF Tasks, PcsOf
<1>1. /\ PcsOf(Loop) = LoopPcs /\ PcsOf(Ready) = ReadyPcs
      /\ \A m \in Msgs : PcsOf(m) = HandlerPcs
  OBVIOUS
<1>2. \A t \in {Loop, Ready} : "bootmerge" \in PcsOf(t) /\ "bootscan" \in PcsOf(t)
  BY DEF LoopPcs, ReadyPcs, BootPcs
<1>3. \A t \in Tasks : SyncPcs \subseteq PcsOf(t)
  BY DEF LoopPcs, ReadyPcs, BootPcs, HandlerPcs
<1>4. \A t \in Tasks :
        /\ AfterSync(t) \in PcsOf(t) \ {"load", "edit", "bootscan", "create"}
  <2> SUFFICES ASSUME NEW t \in Tasks
               PROVE  /\ AfterSync(t) \in PcsOf(t) \ {"load", "edit", "bootscan", "create"}
    OBVIOUS
  <2>1. CASE t = Loop
    BY <2>1 DEF AfterSync, LoopPcs
  <2>2. CASE t = Ready
    BY <2>2 DEF AfterSync, ReadyPcs
  <2>3. CASE t \in Msgs
    BY <2>3 DEF AfterSync, HandlerPcs
  <2> QED BY <2>1, <2>2, <2>3
<1> QED BY <1>1, <1>2, <1>3, <1>4

LEMMA TypeStep == TypeOK /\ [Next]_vars => TypeOK'
<1> SUFFICES ASSUME TypeOK, [Next]_vars PROVE TypeOK'
  OBVIOUS
<1>0. FileOK /\ ChanOK /\ LocalsOK /\ HistOK /\ HeldOK /\ Len(stores) \in Nat
  BY DEF TypeOK, HeldOK, ChanOK
<1>f. Fail => faults' \in 0 .. MaxFaults
  BY <1>0, ConstAssumption DEF HistOK, Fail
\* A step that fetches from the store and goes on to w.
<1>g. ASSUME NEW t \in Tasks, NEW w \in PcsOf(t), w \notin {"load", "bootscan", "create"},
             w = "edit" => pc[t] = "load",
             Fetch(t), Goto(t, w), UNCHANGED <<file, stores, open, thread, at, crashes>>,
             buf' \in [Tasks -> SUBSET Targets], calm' \in BOOLEAN
      PROVE  TypeOK'
  <2>1. FileOK'
    BY <1>0, <1>g DEF FileOK, file
  <2>2. ChanOK'
    BY <1>0, <1>g, FetchType DEF ChanOK
  <2>3. LocalsOK'
    BY <1>0, <1>g, FetchType DEF LocalsOK
  <2>4. HistOK'
    BY <1>0, <1>g, FetchType DEF HistOK
  <2>5. OthersKeep(t)
    BY <1>g, FetchType DEF OthersKeep
  <2>6. w \in {"load", "edit"} => at'[t] # 0
    BY <1>0, <1>g DEF HeldOK
  <2> QED BY <1>g, <2>1, <2>2, <2>3, <2>4, <2>5, <2>6, GotoType DEF DataOK
<1>1. CASE MergeLoad
  <2>1. "merged" \in PcsOf(Loop) /\ Loop \in Tasks
    BY PcsFacts DEF LoopPcs
  <2>2. buf' \in [Tasks -> SUBSET Targets] /\ calm' \in BOOLEAN
    BY <1>0, <1>1 DEF MergeLoad, LocalsOK, HistOK
  <2> QED BY <1>1, <1>g, <2>1, <2>2 DEF MergeLoad
<1>2. CASE Merge
  <2>0. ChanOK' /\ HistOK' /\ UNCHANGED <<stores, dirty>>
    BY <1>0, <1>2 DEF Merge, ChanOK, HistOK, chan, hist
  <2>1. CASE HasTargets(Loop) /\ ~(seen[Loop] \subseteq disk)
    <3>1. /\ disk' = disk \union seen[Loop] /\ buf' = [buf EXCEPT ![Loop] = disk']
          /\ Goto(Loop, "enrich") /\ UNCHANGED <<seen, at>>
      BY <1>2, <2>1 DEF Merge
    <3>2. seen[Loop] \in {None} \union SUBSET Targets /\ seen[Loop] # None
      BY <1>0, <2>1, PcsFacts DEF HasTargets, LocalsOK
    <3>3. disk' \subseteq Targets
      BY <1>0, <3>1, <3>2 DEF FileOK
    <3>4. FileOK' /\ LocalsOK'
      BY <1>0, <2>0, <3>1, <3>3 DEF FileOK, LocalsOK
    <3>5. "enrich" \in PcsOf(Loop) /\ OthersKeep(Loop)
      BY <3>1, PcsFacts DEF LoopPcs, OthersKeep
    <3> QED BY <2>0, <3>1, <3>4, <3>5, PcsFacts, GotoType DEF DataOK
  <2>2. CASE ~(HasTargets(Loop) /\ ~(seen[Loop] \subseteq disk))
    <3>1. Leave(Loop, "boot") /\ UNCHANGED disk
      BY <1>2, <2>2 DEF Merge
    <3>2. FileOK'
      BY <1>0, <2>0, <3>1 DEF FileOK
    <3>3. "boot" \in PcsOf(Loop) \ {"load", "edit", "bootscan", "create"}
      BY PcsFacts DEF LoopPcs
    <3> QED BY <2>0, <3>1, <3>2, <3>3, PcsFacts, LeaveType
  <2> QED BY <2>1, <2>2
<1>3. ASSUME NEW t \in {Loop} \union Msgs, Enrich(t)
      PROVE  TypeOK'
  <2>1. ChanOK' /\ HistOK' /\ UNCHANGED <<stores, dirty>> /\ t \in Tasks
    BY <1>0, <1>3, PcsFacts DEF Enrich, ChanOK, HistOK, chan, hist
  <2>2. FileOK'
    BY <1>0, <1>3, <2>1 DEF Enrich, FileOK, LocalsOK
  <2>3. CASE t = Loop
    <3>1. "boot" \in PcsOf(t) \ {"load", "edit", "bootscan", "create"} /\ Leave(t, "boot")
      BY <1>3, <2>3, PcsFacts DEF LoopPcs, Enrich
    <3> QED BY <2>1, <2>2, <3>1, LeaveType
  <2>4. CASE t \in Msgs
    <3>1. "check" \in PcsOf(t) \ {"load", "edit", "bootscan", "create"} /\ Leave(t, "check")
      BY <1>3, <2>4, PcsFacts, ConstAssumption DEF HandlerPcs, Enrich
    <3> QED BY <2>1, <2>2, <3>1, LeaveType
  <2> QED BY <2>3, <2>4
<1>4. ASSUME NEW t \in {Loop, Ready}, BootLoad(t)
      PROVE  TypeOK'
  <2>1. buf' \in [Tasks -> SUBSET Targets] /\ calm' \in BOOLEAN
    BY <1>0, <1>4 DEF BootLoad, LocalsOK, HistOK, FileOK
  <2>2. t \in Tasks /\ "bootmerge" \in PcsOf(t) /\ Fetch(t) /\ Goto(t, "bootmerge")
        /\ UNCHANGED <<file, stores, open, thread, at, crashes>>
    BY <1>4, PcsFacts DEF BootLoad
  <2> QED BY <1>g, <2>1, <2>2
<1>5. ASSUME NEW t \in {Loop, Ready}, BootMerge(t)
      PROVE  TypeOK'
  <2>1. t \in Tasks /\ seen[t] \in {None} \union SUBSET Targets /\ buf[t] \subseteq Targets
    BY <1>0, PcsFacts DEF LocalsOK
  <2>2. WithStore(t) \subseteq Targets
    BY <2>1 DEF WithStore, HasTargets
  <2>3. InThread \subseteq Targets
    BY <1>0, ConstAssumption DEF InThread, Scanned, ChanOK
  <2>4. FileOK' /\ ChanOK' /\ UNCHANGED <<stores, calm, crashes>>
    BY <1>0, <1>5, <2>2 DEF BootMerge, FileOK, ChanOK, chan
  <2>5. CASE /\ buf' = [buf EXCEPT ![t] = WithStore(t)]
             /\ seen' = [seen EXCEPT ![t] = InThread]
             /\ Goto(t, "bootscan") /\ UNCHANGED <<at, faults>>
    <3>1. LocalsOK'
      BY <1>0, <2>1, <2>2, <2>3, <2>4, <2>5 DEF LocalsOK
    <3>2. HistOK'
      BY <1>0, <2>4, <2>5 DEF HistOK
    <3>3. OthersKeep(t) /\ seen'[t] # None /\ "bootscan" \in PcsOf(t)
      BY <1>0, <2>1, <2>3, <2>5, PcsFacts, ConstAssumption DEF LocalsOK, OthersKeep
    <3> QED BY <2>1, <2>4, <2>5, <3>1, <3>2, <3>3, GotoType DEF DataOK
  <2>6. CASE Fail /\ Leave(t, AfterSync(t))
    <3>1. HistOK'
      BY <1>0, <1>f, <2>4, <2>6 DEF HistOK
    <3> QED BY <2>1, <2>4, <2>6, <3>1, PcsFacts, LeaveType
  <2> QED BY <1>5, <2>5, <2>6 DEF BootMerge
<1>6. ASSUME NEW t \in {Loop, Ready}, BootScan(t)
      PROVE  TypeOK'
  <2>1. /\ pc[t] = "bootscan" /\ Goto(t, "find") /\ at' = at /\ buf' = [buf EXCEPT ![t] = disk']
        /\ seen' = [seen EXCEPT ![t] = None] /\ UNCHANGED <<dirty, chan, hist>>
        /\ disk' = IF seen[t] \subseteq buf[t] THEN disk ELSE buf[t] \union seen[t]
    BY <1>6 DEF BootScan
  <2>2. t \in Tasks /\ "find" \in PcsOf(t)
    BY PcsFacts DEF SyncPcs
  <2>3. seen[t] \in SUBSET Targets /\ buf[t] \in SUBSET Targets
    BY <1>0, <2>1, <2>2 DEF HeldOK, LocalsOK
  <2>4. disk' \subseteq Targets
    BY <1>0, <2>1, <2>3 DEF FileOK
  <2>5. FileOK' /\ ChanOK' /\ HistOK' /\ UNCHANGED stores
    BY <1>0, <2>1, <2>4 DEF FileOK, ChanOK, HistOK, chan, hist
  <2>6. LocalsOK' /\ OthersKeep(t)
    BY <1>0, <2>1, <2>2, <2>4, <2>5 DEF LocalsOK, OthersKeep
  <2> QED BY <2>1, <2>2, <2>5, <2>6, GotoType DEF DataOK
<1>7. ASSUME NEW m \in Msgs, Post(m)
      PROVE  TypeOK'
  <2>1. m \in Tasks /\ Carries[m] \subseteq Targets
    BY PcsFacts, ConstAssumption
  <2>2. FileOK' /\ ChanOK' /\ HistOK' /\ UNCHANGED <<stores, seen, at>>
    BY <1>0, <1>7 DEF Post, FileOK, ChanOK, HistOK, file
  <2>3. buf' = buf \/ buf' = [buf EXCEPT ![m] = disk \union Carries[m]]
    BY <1>7 DEF Post, StartIngest
  <2>4. LocalsOK' /\ OthersKeep(m)
    BY <1>0, <2>1, <2>2, <2>3 DEF LocalsOK, OthersKeep, FileOK
  <2>5. "check" \in PcsOf(m) /\ "names" \in PcsOf(m) /\ "read" \in PcsOf(m)
    BY PcsFacts DEF HandlerPcs
  <2>6. Goto(m, "check") \/ Goto(m, "names") \/ Goto(m, "read")
    BY <1>7 DEF Post, StartIngest
  <2> QED BY <2>1, <2>2, <2>4, <2>5, <2>6, GotoType DEF DataOK
<1>21. ASSUME NEW m \in Msgs, Read(m)
      PROVE  TypeOK'
  <2>1. m \in Tasks /\ Carries[m] \subseteq Targets
    BY PcsFacts, ConstAssumption
  <2>2. FileOK' /\ ChanOK' /\ UNCHANGED <<stores, seen, at, calm, crashes>>
    BY <1>0, <1>21 DEF Read, FileOK, ChanOK, file, chan
  <2>3. buf' = buf \/ buf' = [buf EXCEPT ![m] = disk \union Carries[m]]
    BY <1>21 DEF Read, StartIngest
  <2>4. LocalsOK' /\ OthersKeep(m)
    BY <1>0, <2>1, <2>2, <2>3 DEF LocalsOK, OthersKeep, FileOK
  <2>5. HistOK'
    BY <1>0, <1>21, <1>f, <2>2 DEF Read, HistOK
  <2>6. "check" \in PcsOf(m) /\ "names" \in PcsOf(m) /\ "delete" \in PcsOf(m)
    BY PcsFacts DEF HandlerPcs
  <2>7. Goto(m, "check") \/ Goto(m, "names") \/ Goto(m, "delete")
    BY <1>21 DEF Read, StartIngest
  <2> QED BY <2>1, <2>2, <2>4, <2>5, <2>6, <2>7, GotoType DEF DataOK
<1>8. ASSUME NEW m \in Msgs, Ingest(m)
      PROVE  TypeOK'
  <2>1. m \in Tasks /\ "enrich" \in PcsOf(m) /\ Goto(m, "enrich")
    BY <1>8, PcsFacts DEF HandlerPcs, Ingest
  <2>2. ChanOK' /\ HistOK' /\ LocalsOK' /\ OthersKeep(m)
    BY <1>0, <1>8 DEF Ingest, ChanOK, HistOK, LocalsOK, OthersKeep, chan, hist, locals
  <2>3. FileOK'
    BY <1>0, <1>8, <2>1 DEF Ingest, FileOK, LocalsOK
  <2> QED BY <2>1, <2>2, <2>3, GotoType DEF DataOK
<1>9. ASSUME NEW m \in Msgs, SyncStart(m)
      PROVE  TypeOK'
  <2>1. m \in Tasks /\ "find" \in PcsOf(m) /\ "delete" \in PcsOf(m)
    BY PcsFacts DEF HandlerPcs, SyncPcs
  <2>2. Goto(m, "find") \/ Goto(m, "delete")
    BY <1>9 DEF SyncStart
  <2>3. FileOK' /\ ChanOK' /\ OthersKeep(m) /\ UNCHANGED <<stores, seen, at>>
    BY <1>0, <1>9 DEF SyncStart, FileOK, ChanOK, OthersKeep, file, chan
  <2>4. HistOK'
    BY <1>0, <1>9, <1>f DEF SyncStart, HistOK
  <2>5. LocalsOK'
    BY <1>0, <1>9, <2>1, <2>3 DEF SyncStart, LocalsOK, FileOK
  <2> QED BY <2>1, <2>2, <2>3, <2>4, <2>5, GotoType DEF DataOK
<1>10. ASSUME NEW t \in Tasks, Find(t)
       PROVE  TypeOK'
  <2>1. PICK i \in {Current, Newest, 0} :
          /\ IF i = Current THEN UNCHANGED faults ELSE Fail
          /\ at' = [at EXCEPT ![t] = i]
          /\ mid' = IF i = 0 THEN mid ELSE i
          /\ IF i = 0
             THEN Goto(t, "create") /\ seen' = [seen EXCEPT ![t] = disk]
             ELSE Goto(t, "load") /\ UNCHANGED seen
    BY <1>10 DEF Find
  <2>2. i \in 0 .. Len(stores) /\ UNCHANGED <<file, stores, open, thread, buf, calm, crashes>>
    BY <1>10, CurrentExists DEF Find
  <2>3. faults' \in 0 .. MaxFaults
    BY <1>0, <1>f, <2>1 DEF HistOK
  <2>4. FileOK' /\ HistOK'
    BY <1>0, <2>2, <2>3 DEF FileOK, HistOK, file
  <2>5. ChanOK'
    BY <1>0, <2>1, <2>2 DEF ChanOK
  <2>6. LocalsOK' /\ OthersKeep(t)
    BY <1>0, <2>1, <2>2 DEF LocalsOK, OthersKeep, FileOK
  <2>7. at'[t] = i /\ "create" \in PcsOf(t) /\ "load" \in PcsOf(t)
    BY <1>0, <2>1, PcsFacts DEF LocalsOK, SyncPcs
  <2>8. CASE i = 0
    <3>1. seen'[t] # None
      BY <1>0, <2>1, <2>8, ConstAssumption DEF LocalsOK, FileOK
    <3> QED BY <2>1, <2>4, <2>5, <2>6, <2>7, <2>8, <3>1, GotoType DEF DataOK
  <2>9. CASE i # 0
    BY <2>1, <2>4, <2>5, <2>6, <2>7, <2>9, GotoType DEF DataOK
  <2> QED BY <2>8, <2>9
<1>11. ASSUME NEW t \in Tasks, Create(t)
       PROVE  TypeOK'
  <2>0. FileOK' /\ UNCHANGED <<thread, calm, crashes>> /\ "load" \in PcsOf(t)
    BY <1>0, <1>11, PcsFacts DEF Create, FileOK, file, SyncPcs
  <2>1. CASE /\ Send(seen[t]) /\ open' = open \union {mid'}
             /\ at' = [at EXCEPT ![t] = mid'] /\ seen' = [seen EXCEPT ![t] = None]
             /\ Goto(t, "load") /\ UNCHANGED <<buf, faults>>
    <3>1. seen[t] \in SUBSET Targets
      BY <1>0, <1>11 DEF Create, HeldOK, LocalsOK
    <3>2. /\ stores' \in Seq(SUBSET Targets) /\ Len(stores') = Len(stores) + 1
          /\ mid' = Len(stores) + 1
      BY <1>0, <2>1, <3>1 DEF Send, ChanOK
    <3>3. ChanOK'
      <4>1. open \subseteq 1 .. Len(stores)
        BY <1>0 DEF ChanOK
      <4>2. open' = open \union {Len(stores) + 1}
        BY <2>1, <3>2
      <4>3. \A i \in 1 .. Len(stores) : i \in 1 .. Len(stores')
        BY <1>0, <3>2
      <4>4. Len(stores) + 1 \in 1 .. Len(stores')
        BY <1>0, <3>2
      <4>5. open' \subseteq 1 .. Len(stores')
        BY <4>1, <4>2, <4>3, <4>4
      <4> QED BY <1>0, <2>0, <3>2, <4>5 DEF ChanOK
    <3>4. LocalsOK' /\ OthersKeep(t) /\ at'[t] # 0
      BY <1>0, <2>1, <3>2 DEF LocalsOK, OthersKeep
    <3>5. HistOK'
      BY <1>0, <2>0, <2>1 DEF HistOK
    <3> QED BY <2>0, <2>1, <3>3, <3>4, <3>5, GotoType DEF DataOK
  <2>2. CASE Fail /\ Leave(t, AfterSync(t)) /\ UNCHANGED <<stores, open, mid>>
    <3>1. ChanOK' /\ HistOK'
      BY <1>0, <1>f, <2>0, <2>2 DEF ChanOK, HistOK
    <3> QED BY <2>0, <2>2, <3>1, PcsFacts, LeaveType
  <2> QED BY <1>11, <2>1, <2>2 DEF Create
<1>12. ASSUME NEW t \in Tasks, Load(t)
       PROVE  TypeOK'
  <2>1. buf' \in [Tasks -> SUBSET Targets] /\ calm' \in BOOLEAN /\ "edit" \in PcsOf(t)
    BY <1>0, <1>12, PcsFacts DEF Load, LocalsOK, HistOK, SyncPcs
  <2> QED BY <1>12, <1>g, <2>1 DEF Load
<1>13. ASSUME NEW t \in Tasks, Edit(t)
       PROVE  TypeOK'
  <2>1. at[t] \in 1 .. Len(stores) /\ Leave(t, AfterSync(t))
    BY <1>0, <1>13 DEF Edit, HeldOK, LocalsOK
  <2>2. stores' \in Seq(SUBSET Targets) /\ Len(stores') = Len(stores)
    <3>1. stores \in Seq(SUBSET Targets) /\ buf[t] \in SUBSET Targets
      BY <1>0 DEF ChanOK, LocalsOK
    <3>2. stores' = stores \/ stores' = [stores EXCEPT ![at[t]] = buf[t]]
      BY <1>13 DEF Edit
    <3> QED BY <2>1, <3>1, <3>2
  <2>3. FileOK' /\ HistOK'
    BY <1>0, <1>13 DEF Edit, FileOK, HistOK, file, hist
  <2>4. ChanOK'
    <3>1. open' = open \union {at[t]} /\ mid' = at[t] /\ UNCHANGED thread
      BY <1>13 DEF Edit
    <3>2. open' \subseteq 1 .. Len(stores')
      BY <1>0, <2>1, <2>2, <3>1 DEF ChanOK
    <3> QED BY <1>0, <2>1, <2>2, <3>1, <3>2 DEF ChanOK
  <2> QED BY <2>1, <2>2, <2>3, <2>4, PcsFacts, LeaveType
<1>14. ASSUME NEW t \in Tasks, Supersede(t)
       PROVE  TypeOK'
  <2>1. at[t] \in 1 .. Len(stores) /\ Leave(t, AfterSync(t)) /\ UNCHANGED thread
    BY <1>0, <1>14 DEF Supersede, HeldOK, LocalsOK
  <2>2. FileOK' /\ HistOK'
    BY <1>0, <1>14, <1>f DEF Supersede, FileOK, HistOK, file
  <2>3. CASE Send(buf[t]) /\ open' \subseteq open \union {at[t], mid'}
    <3>1. /\ stores' \in Seq(SUBSET Targets) /\ Len(stores') = Len(stores) + 1
          /\ mid' = Len(stores) + 1
      BY <1>0, <2>3 DEF Send, ChanOK, LocalsOK
    <3>2. ChanOK'
      <4>1. open \subseteq 1 .. Len(stores)
        BY <1>0 DEF ChanOK
      <4>2. open' \subseteq 1 .. Len(stores')
        BY <1>0, <2>1, <2>3, <3>1, <4>1
      <4> QED BY <1>0, <2>1, <3>1, <4>2 DEF ChanOK
    <3> QED BY <2>1, <2>2, <3>1, <3>2, PcsFacts, LeaveType
  <2>4. CASE UNCHANGED <<stores, open>> /\ mid' \in {at[t], mid}
    <3>1. ChanOK'
      BY <1>0, <2>1, <2>4 DEF ChanOK
    <3> QED BY <2>1, <2>2, <2>4, <3>1, PcsFacts, LeaveType
  <2> QED BY <1>14, <2>3, <2>4 DEF Supersede
<1>15. ASSUME NEW m \in Msgs, Clean(m) \/ Delete(m)
       PROVE  TypeOK'
  <2>1. m \in Tasks /\ "delete" \in PcsOf(m) /\ "done" \in PcsOf(m)
    BY PcsFacts DEF HandlerPcs
  <2>2. Goto(m, "delete") \/ Goto(m, "done")
    BY <1>15 DEF Clean, Delete
  <2>3. thread' \subseteq thread
    BY <1>15 DEF Clean, Delete
  <2>4. UNCHANGED <<file, stores, open, mid, locals, calm, crashes>>
    BY <1>15 DEF Clean, Delete
  <2>5. FileOK' /\ ChanOK' /\ LocalsOK' /\ OthersKeep(m)
    BY <1>0, <2>3, <2>4 DEF FileOK, ChanOK, LocalsOK, OthersKeep, file, locals
  <2>6. faults' = faults \/ Fail
    BY <1>15 DEF Clean, Delete
  <2>7. HistOK'
    BY <1>0, <1>f, <2>4, <2>6 DEF HistOK
  <2> QED BY <2>1, <2>2, <2>5, <2>7, GotoType DEF DataOK
<1>16. CASE Pull
  <2>1. "pull" \in PcsOf(Loop) /\ Loop \in Tasks
    BY PcsFacts DEF LoopPcs
  <2>2. buf' \in [Tasks -> SUBSET Targets] /\ calm' \in BOOLEAN
    BY <1>0, <1>16 DEF Pull, LocalsOK, HistOK
  <2> QED BY <1>16, <1>g, <2>1, <2>2 DEF Pull
<1>17. CASE PullWrite
  <2>1. Loop \in Tasks /\ "idle" \in PcsOf(Loop) \ {"load", "edit", "bootscan", "create"}
    BY PcsFacts DEF LoopPcs
  <2>2. seen[Loop] \in {None} \union SUBSET Targets
    BY <1>0, <2>1 DEF LocalsOK
  <2>3. FileOK'
    BY <1>0, <1>17, <2>2 DEF PullWrite, Pulled, FileOK
  <2>4. ChanOK' /\ HistOK' /\ UNCHANGED stores
    BY <1>0, <1>17 DEF PullWrite, ChanOK, HistOK, chan, hist
  <2> QED BY <1>17, <2>1, <2>3, <2>4, LeaveType DEF PullWrite
<1>18. CASE DirtyOver
  <2>1. FileOK' /\ UNCHANGED <<chan, pc, locals, hist>>
    BY <1>0, <1>18 DEF DirtyOver, FileOK
  <2> QED BY <2>1 DEF TypeOK, ChanOK, LocalsOK, HistOK, chan, locals, hist
<1>19. CASE Restart
  <2>1. FileOK'
    BY <1>0, <1>19, ConstAssumption DEF Restart, FileOK
  <2>2. ChanOK'
    BY <1>0, <1>19 DEF Restart, ChanOK
  <2>3. LocalsOK'
    BY <1>0, <1>19 DEF Restart, LocalsOK
  <2>4. HistOK'
    BY <1>0, <1>19, ConstAssumption DEF Restart, HistOK
  <2>5. /\ pc'[Loop] = "merge" /\ pc'[Ready] = "ready"
        /\ \A m \in Msgs : pc'[m] \in {"unposted", "done"}
    BY <1>19, ConstAssumption DEF Restart, Tasks
  <2>6. pc' \in [Tasks -> {"merge", "ready", "unposted", "done"}]
    BY <1>19 DEF Restart
  <2>7. PcOK'
    BY <2>5, <2>6 DEF PcOK, Tasks, PcsOf, AllPcs, LoopPcs, ReadyPcs, HandlerPcs
  <2>8. HeldOK'
    BY <2>6 DEF HeldOK
  <2>9. DataOK' /\ PcOK' /\ HeldOK' => TypeOK'
    BY Parts, PTL
  <2> QED BY <2>1, <2>2, <2>3, <2>4, <2>7, <2>8, <2>9 DEF DataOK
<1>20. CASE UNCHANGED vars
  BY <1>20 DEF vars, TypeOK, FileOK, ChanOK, LocalsOK, HistOK, file, chan, locals, hist
<1> QED
  <2>1. CASE LoopStep
    BY <2>1, <1>1, <1>2, <1>3, <1>4, <1>5, <1>6, <1>10, <1>11, <1>12, <1>13, <1>14, <1>16,
       <1>17, PcsFacts DEF LoopStep, BootStep, SyncStep
  <2>2. CASE BootStep(Ready)
    BY <2>2, <1>4, <1>5, <1>6, <1>10, <1>11, <1>12, <1>13, <1>14, PcsFacts
    DEF BootStep, SyncStep
  <2>3. ASSUME NEW m \in Msgs, Handler(m)
        PROVE  TypeOK'
    BY <2>3, <1>3, <1>8, <1>9, <1>21, <1>10, <1>11, <1>12, <1>13, <1>14, <1>15, PcsFacts
    DEF Handler, SyncStep
  <2> QED BY <2>1, <2>2, <2>3, <1>7, <1>18, <1>19, <1>20 DEF Next

\* Types of the file, the store messages and the tasks' data, at every step of any run.
THEOREM TypeCorrect == Spec => []TypeOK
BY TypeInit, TypeStep, PTL DEF Spec
-----------------------------------------------------------------------------
\* What a quiet system knows of its store message and of an answer from Discord.
LEMMA QuietCurrent ==
  ASSUME TypeOK, OneStore
  PROVE  /\ Newest = Len(stores) /\ Current = Len(stores) /\ Len(stores) \in {0, 1}
         /\ Len(stores) = 0 => Content(Len(stores)) = None /\ StoreSet = {}
         /\ Len(stores) = 1 => /\ Content(Len(stores)) = stores[1] /\ StoreSet = stores[1]
                               /\ StoreSet # None
<1>0. stores \in Seq(SUBSET Targets) /\ Len(stores) \in Nat
  BY DEF TypeOK, ChanOK
<1>1. Len(stores) \in {0, 1} /\ open = 1 .. Len(stores)
  <2>1. Len(stores) <= 1
    BY DEF OneStore
  <2>2. open = 1 .. Len(stores)
    BY DEF OneStore
  <2>3. Len(stores) \in Nat
    BY <1>0
  <2>4. Len(stores) = 0 \/ Len(stores) = 1
    BY <2>1, <2>3
  <2> QED BY <2>2, <2>4
<1>2. Newest \in open \union {0} /\ \A j \in open \union {0} : j <= Newest
  BY NewestIsLast
<1>3. Newest = Len(stores)
  <2>1. CASE Len(stores) = 0
    BY <1>1, <1>2, <2>1
  <2>2. CASE Len(stores) = 1
    <3>1. 1 \in open
      BY <1>1, <2>2
    <3>2. open = {1}
      BY <1>1, <2>2
    <3> QED BY <1>2, <2>2, <3>1, <3>2
  <2> QED BY <1>1, <2>1, <2>2
<1>4. Current = Len(stores)
  BY <1>1, <1>3 DEF Current, OneStore
<1>5. Len(stores) = 1 => stores[1] \in SUBSET Targets
  BY <1>0
<1> QED BY <1>1, <1>3, <1>4, <1>5, ConstAssumption DEF Content, StoreSet

LEMMA QuietFetch ==
  ASSUME TypeOK, OneStore, faults = 0, faults' = 0, NEW t \in Tasks, Fetch(t)
  PROVE  seen'[t] = Content(Len(stores)) /\ mid' \in {0, Len(stores)}
<1>1. PICK i \in {Current, Newest, 0} :
        /\ IF i = Current THEN UNCHANGED faults ELSE Fail
        /\ seen' = [seen EXCEPT ![t] = Content(i)]
        /\ mid' = IF i = 0 THEN mid ELSE i
  BY DEF Fetch
<1>2. i = Len(stores)
  BY <1>1, QuietCurrent DEF Fail
<1>3. seen \in [Tasks -> {None} \union SUBSET Targets]
  BY DEF TypeOK, LocalsOK
<1> QED BY <1>1, <1>2, <1>3 DEF OneStore

\* A task that is not at work promises nothing.
RestInv == \A t \in Tasks : ~AtWork(t) => TaskInv(t)

LEMMA AtRestInv == RestInv
<1> SUFFICES ASSUME NEW t \in Tasks, ~AtWork(t) PROVE TaskInv(t)
  BY DEF RestInv
<1>1. pc[t] \in {"unposted", "done", "idle", "merge", "ready"}
  BY DEF AtWork, AtRest
<1> QED BY <1>1 DEF TaskInv, BootInv, SyncInv, PullInv, HandlerInv, SyncPcs

\* A step of a task that works alone leaves it alone.
LEMMA TaskStep ==
  ASSUME TypeOK, NEW t \in Tasks, NEW w, Goto(t, w), w # "unposted",
         \A u \in Tasks \ {t} : ~AtWork(u),
         t \in Msgs => pc[Loop] = "idle" /\ pc[Ready] = "done"
  PROVE  /\ Alone' /\ pc'[t] = w /\ \A u \in Tasks \ {t} : pc'[u] = pc[u] /\ TaskInv(u)'
         /\ Posted' = Posted \union ({t} \intersect Msgs)
         /\ \A u \in Tasks \ {t} : ~AtWork(u)'
<1>1. pc'[t] = w /\ \A u \in Tasks \ {t} : pc'[u] = pc[u]
  BY DEF Goto, TypeOK
<1>2. \A u \in Tasks \ {t} : ~AtWork(u)'
  BY <1>1 DEF AtWork, AtRest
<1>3. \A u \in Tasks \ {t} : TaskInv(u)'
  <2>1. RestInv'
    BY AtRestInv, PTL
  <2> QED BY <1>2, <2>1 DEF RestInv
<1>4. \A u, v \in Tasks : AtWork(u)' /\ AtWork(v)' => u = v
  BY <1>2
<1>5. \A m \in Msgs : AtWork(m)' => pc'[Loop] = "idle" /\ pc'[Ready] = "done"
  BY <1>1, <1>2, ConstAssumption DEF Tasks
<1>6. Posted' = Posted \union ({t} \intersect Msgs)
  BY <1>1 DEF Posted, Tasks
<1> QED BY <1>1, <1>2, <1>3, <1>4, <1>5, <1>6 DEF Alone

\* The step of a task that was at work, or starts when no other is.
LEMMA AloneStep ==
  ASSUME TypeOK, Alone, NEW t \in Tasks, NEW w, Goto(t, w), w # "unposted",
         AtWork(t) \/ \A u \in Tasks \ {t} : ~AtWork(u),
         t \in Msgs => AtWork(t)
  PROVE  /\ Alone' /\ pc'[t] = w /\ \A u \in Tasks \ {t} : pc'[u] = pc[u] /\ TaskInv(u)'
         /\ Posted' = Posted \union ({t} \intersect Msgs)
         /\ \A u \in Tasks \ {t} : ~AtWork(u)'
<1>1. \A u \in Tasks \ {t} : ~AtWork(u)
  BY DEF Alone
<1>2. t \in Msgs => pc[Loop] = "idle" /\ pc[Ready] = "done"
  BY DEF Alone
<1> QED BY <1>1, <1>2, TaskStep

\* A step that changes neither the targets stored nor the thread.
LEMMA SameStore ==
  ASSUME OneStore, Kept, Settled, UNCHANGED <<stores, open>>, mid' \in {0, Len(stores)},
         Posted' = Posted, thread \subseteq thread', disk \subseteq disk',
         pc'[Loop] \in {"idle", "pull"} =>
             /\ pc[Loop] \in {"idle", "pull"}
             /\ \A m \in Msgs : AtWork(m) => AtWork(m)'
  PROVE  OneStore' /\ Kept' /\ Settled' /\ StoreSet' = StoreSet
<1>1. OneStore' /\ StoreSet' = StoreSet
  BY DEF OneStore, StoreSet
<1>2. Kept'
  BY <1>1 DEF Kept
<1>3. Settled'
  <2> SUFFICES ASSUME pc'[Loop] \in {"idle", "pull"}, NEW m \in Owed', ~AtWork(m)'
               PROVE  Carries[m] \subseteq disk' \intersect StoreSet'
    BY DEF Settled
  <2>1. m \in Msgs /\ m \in Owed
    BY DEF Posted, Owed
  <2>2. Carries[m] \subseteq disk \intersect StoreSet
    BY <2>1 DEF Settled
  <2> QED BY <1>1, <2>2
<1> QED BY <1>1, <1>2, <1>3

LEMMA QuietMergeLoad ==
  ASSUME TypeOK, QInv, faults = 0, faults' = 0, calm', MergeLoad
  PROVE  QInv'
<1>1. /\ Goto(Loop, "merged") /\ Fetch(Loop) /\ \A u \in Tasks \ {Loop} : ~AtWork(u)
      /\ UNCHANGED <<disk, stores, open, thread>> /\ Loop \in Tasks
  BY DEF MergeLoad, AtWork, Tasks, file
<1>2. /\ Alone' /\ pc'[Loop] = "merged" /\ \A u \in Tasks \ {Loop} : TaskInv(u)'
      /\ Posted' = Posted
  BY <1>1, ConstAssumption, AloneStep DEF QInv, Posted
<1>3. mid' \in {0, Len(stores)}
  BY <1>1, QuietFetch DEF QInv
<1>4. OneStore' /\ Kept' /\ Settled'
  BY <1>1, <1>2, <1>3, SameStore DEF QInv
<1>5. TaskInv(Loop)'
  BY <1>2, ConstAssumption DEF TaskInv, BootInv, SyncInv, PullInv, HandlerInv, SyncPcs
<1> QED BY <1>2, <1>4, <1>5 DEF QInv

LEMMA QuietMerge ==
  ASSUME TypeOK, QInv, Merge
  PROVE  QInv'
<1>1. /\ pc[Loop] = "merged" /\ AtWork(Loop) /\ Loop \in Tasks
      /\ UNCHANGED <<stores, open, thread, mid>>
  BY DEF Merge, AtWork, AtRest, Tasks, chan
<1>2. PICK w \in {"enrich", "boot"} : Goto(Loop, w)
  BY DEF Merge, Leave
<1>3. disk \subseteq disk'
  BY DEF Merge
<1>4. /\ Alone' /\ pc'[Loop] = w /\ \A u \in Tasks \ {Loop} : TaskInv(u)'
      /\ Posted' = Posted
  BY <1>1, <1>2, ConstAssumption, AloneStep DEF QInv, Posted
<1>5. OneStore' /\ Kept' /\ Settled'
  BY <1>1, <1>2, <1>3, <1>4, SameStore DEF QInv, OneStore
<1>6. TaskInv(Loop)'
  BY <1>2, <1>4, ConstAssumption DEF TaskInv, BootInv, SyncInv, PullInv, HandlerInv, SyncPcs
<1> QED BY <1>4, <1>5, <1>6 DEF QInv

LEMMA QuietEnrichLoop ==
  ASSUME TypeOK, QInv, Enrich(Loop)
  PROVE  QInv'
<1>1. /\ AtWork(Loop) /\ Loop \in Tasks /\ Goto(Loop, "boot")
      /\ UNCHANGED <<stores, open, thread, mid>>
  BY DEF Enrich, Leave, AtWork, AtRest, Tasks, chan
<1>2. /\ Alone' /\ pc'[Loop] = "boot" /\ \A u \in Tasks \ {Loop} : TaskInv(u)'
      /\ Posted' = Posted
  BY <1>1, ConstAssumption, AloneStep DEF QInv, Posted
<1>3. OneStore' /\ StoreSet' = StoreSet
  BY <1>1 DEF QInv, OneStore, StoreSet
<1>4. Kept' /\ Settled'
  BY <1>1, <1>2, <1>3 DEF QInv, Kept, Settled, Owed
<1>5. TaskInv(Loop)'
  BY <1>2, ConstAssumption DEF TaskInv, BootInv, SyncInv, PullInv, HandlerInv, SyncPcs
<1> QED BY <1>2, <1>3, <1>4, <1>5 DEF QInv

LEMMA QuietBootLoad ==
  ASSUME TypeOK, QInv, faults = 0, faults' = 0, calm', NEW t \in {Loop, Ready}, BootLoad(t)
  PROVE  QInv'
<1>1. /\ Goto(t, "bootmerge") /\ Fetch(t) /\ \A u \in Tasks \ {t} : ~AtWork(u)
      /\ UNCHANGED <<disk, stores, open, thread>> /\ t \in Tasks /\ t \notin Msgs
      /\ buf' = [buf EXCEPT ![t] = disk] /\ pc[t] \in {"boot", "ready"}
  BY ConstAssumption DEF BootLoad, Tasks, file
<1>2. /\ Alone' /\ pc'[t] = "bootmerge" /\ \A u \in Tasks \ {t} : TaskInv(u)' /\ pc'[u] = pc[u]
      /\ Posted' = Posted /\ \A u \in Tasks \ {t} : ~AtWork(u)'
  BY <1>1, AloneStep DEF QInv
<1>3. mid' \in {0, Len(stores)} /\ seen'[t] = Content(Len(stores))
  BY <1>1, QuietFetch DEF QInv
<1>4. /\ pc'[Loop] \in {"idle", "pull"} => pc[Loop] \in {"idle", "pull"}
      /\ \A m \in Msgs : ~AtWork(m)
  BY <1>1, <1>2, ConstAssumption DEF Tasks
<1>5. OneStore' /\ Kept' /\ Settled'
  BY <1>1, <1>2, <1>3, <1>4, SameStore DEF QInv
<1>6. buf'[t] = disk' /\ Content(Len(stores))' = Content(Len(stores))
  BY <1>1 DEF TypeOK, LocalsOK, Content
<1>7. TaskInv(t)'
  BY <1>1, <1>2, <1>3, <1>6 DEF TaskInv, BootInv, SyncInv, PullInv, HandlerInv, SyncPcs
<1> QED BY <1>2, <1>5, <1>7 DEF QInv

LEMMA QuietBootMerge ==
  ASSUME TypeOK, QInv, faults = 0, faults' = 0, NEW t \in {Loop, Ready}, BootMerge(t)
  PROVE  QInv'
<1>1. /\ pc[t] = "bootmerge" /\ AtWork(t) /\ t \in Tasks /\ t \notin Msgs
      /\ disk' = (IF HasTargets(t) THEN WithStore(t) ELSE disk)
      /\ UNCHANGED <<stores, open, mid, thread>>
  BY ConstAssumption DEF BootMerge, AtWork, AtRest, Tasks, chan
<1>2. /\ Goto(t, "bootscan") /\ buf' = [buf EXCEPT ![t] = WithStore(t)]
      /\ seen' = [seen EXCEPT ![t] = InThread]
  BY DEF BootMerge, Fail
<1>3. buf[t] = disk /\ seen[t] = Content(Len(stores))
  BY <1>1 DEF QInv, TaskInv, BootInv
<1>4. disk' = WithStore(t) /\ disk \subseteq disk' /\ StoreSet \subseteq disk'
  BY <1>1, <1>3, QuietCurrent DEF QInv, WithStore, HasTargets
<1>5. /\ Alone' /\ pc'[t] = "bootscan" /\ \A u \in Tasks \ {t} : TaskInv(u)' /\ pc'[u] = pc[u]
      /\ Posted' = Posted /\ \A u \in Tasks \ {t} : ~AtWork(u) /\ ~AtWork(u)'
  BY <1>1, <1>2, AloneStep DEF QInv, Alone
<1>6. /\ pc'[Loop] \in {"idle", "pull"} => pc[Loop] \in {"idle", "pull"}
      /\ \A m \in Msgs : ~AtWork(m)
  BY <1>1, <1>5, ConstAssumption DEF Tasks
<1>7. OneStore' /\ Kept' /\ Settled' /\ StoreSet' = StoreSet
  BY <1>1, <1>4, <1>5, <1>6, SameStore DEF QInv, OneStore
<1>8. buf'[t] = disk' /\ seen'[t] = InThread /\ InThread' = InThread
  BY <1>1, <1>2, <1>4 DEF TypeOK, LocalsOK, InThread, Scanned
<1>9. TaskInv(t)'
  BY <1>1, <1>4, <1>5, <1>7, <1>8 DEF TaskInv, BootInv, SyncInv, PullInv, HandlerInv, SyncPcs
<1> QED BY <1>5, <1>7, <1>9 DEF QInv

\* A message in the thread whose targets are owed is one that a scan reads.
LEMMA OwedIsScanned ==
  ASSUME NEW m \in Owed, m \in thread
  PROVE  Carries[m] \subseteq InThread
<1>1. CASE Carries[m] = {}
  BY <1>1
<1>2. CASE Carries[m] # {}
  BY <1>2 DEF Owed, InThread, Scanned
<1> QED BY <1>1, <1>2

LEMMA QuietBootScan ==
  ASSUME TypeOK, QInv, NEW t \in {Loop, Ready}, BootScan(t)
  PROVE  QInv'
<1>1. /\ pc[t] = "bootscan" /\ AtWork(t) /\ t \in Tasks /\ t \notin Msgs /\ Goto(t, "find")
      /\ disk' = (IF seen[t] \subseteq buf[t] THEN disk ELSE buf[t] \union seen[t])
      /\ buf' = [buf EXCEPT ![t] = disk'] /\ UNCHANGED <<stores, open, mid, thread>>
  BY ConstAssumption DEF BootScan, AtWork, AtRest, Tasks, chan
<1>2. buf[t] = disk /\ StoreSet \subseteq disk /\ seen[t] = InThread
  BY <1>1 DEF QInv, TaskInv, BootInv
<1>3. disk' = disk \union InThread
  BY <1>1, <1>2
<1>4. /\ Alone' /\ pc'[t] = "find" /\ \A u \in Tasks \ {t} : TaskInv(u)' /\ pc'[u] = pc[u]
      /\ Posted' = Posted /\ \A u \in Tasks \ {t} : ~AtWork(u) /\ ~AtWork(u)'
  BY <1>1, AloneStep DEF QInv, Alone
<1>5. /\ pc'[Loop] \in {"idle", "pull"} => pc[Loop] \in {"idle", "pull"}
      /\ \A m \in Msgs : ~AtWork(m)
  BY <1>1, <1>4, ConstAssumption DEF Tasks
<1>6. OneStore' /\ Kept' /\ Settled'
  BY <1>1, <1>3, <1>4, <1>5, SameStore DEF QInv, OneStore
<1>7. \A m \in Owed : Carries[m] \subseteq disk'
  <2> SUFFICES ASSUME NEW m \in Owed PROVE Carries[m] \subseteq disk'
    OBVIOUS
  <2>1. CASE m \in thread
    BY <1>3, <2>1, OwedIsScanned
  <2>2. CASE m \notin thread
    BY <1>2, <1>3, <2>2 DEF QInv, Kept, Owed
  <2> QED BY <2>1, <2>2
<1>10. Owed' = Owed
  BY <1>1, <1>4 DEF Owed
<1>8. buf'[t] = disk'
  BY <1>1 DEF TypeOK, LocalsOK
<1>9. TaskInv(t)'
  BY <1>1, <1>4, <1>7, <1>8, <1>10
  DEF TaskInv, BootInv, SyncInv, PullInv, HandlerInv, SyncPcs
<1> QED BY <1>4, <1>6, <1>9 DEF QInv

LEMMA QuietPost ==
  ASSUME TypeOK, QInv, calm', NEW m \in Msgs, Post(m)
  PROVE  QInv'
<1>1. /\ m \in Tasks /\ Loop \in Tasks /\ Ready \in Tasks /\ Loop # m /\ Ready # m
      /\ pc[m] = "unposted" /\ thread' = thread \union {m}
      /\ UNCHANGED <<disk, stores, open, mid>> /\ \A t \in Tasks \ {m} : AtRest(t)
  BY ConstAssumption DEF Post, MayPost, Tasks, file
<1>2. pc[Loop] \in LoopPcs /\ pc[Ready] \in ReadyPcs
  BY PcsFacts DEF TypeOK
<1>3. pc[Loop] = "idle" /\ pc[Ready] = "done"
  BY <1>1, <1>2 DEF AtRest, LoopPcs, ReadyPcs, BootPcs, SyncPcs
<1>4. PICK w \in {"check", "names", "read"} : Goto(m, w) /\
         \/ w = "check" /\ Carries[m] \subseteq disk
         \/ w = "names" /\ buf' = [buf EXCEPT ![m] = disk \union Carries[m]]
         \/ w = "read" /\ m \in Files
  BY DEF Post, StartIngest
<1>5. /\ Alone' /\ pc'[m] = w /\ \A u \in Tasks \ {m} : pc'[u] = pc[u] /\ TaskInv(u)'
      /\ Posted' = Posted \union {m}
  BY <1>1, <1>3, <1>4, TaskStep DEF AtWork
<1>6. OneStore' /\ StoreSet' = StoreSet
  BY <1>1 DEF QInv, OneStore, StoreSet
<1>7. Kept'
  BY <1>1, <1>5, <1>6 DEF QInv, Kept
<1>8. Settled'
  <2> SUFFICES ASSUME NEW n \in Owed', ~AtWork(n)'
               PROVE  Carries[n] \subseteq disk' \intersect StoreSet'
    BY DEF Settled
  <2>1. n # m
    BY <1>4, <1>5 DEF AtWork, AtRest
  <2>2. n \in Owed /\ n \in Tasks \ {m}
    BY <1>1, <1>5, <2>1 DEF Posted, Owed, Tasks
  <2>3. ~AtWork(n)
    BY <1>1, <2>2 DEF AtWork
  <2>4. Carries[n] \subseteq disk \intersect StoreSet
    BY <1>3, <2>2, <2>3 DEF QInv, Settled
  <2> QED BY <1>1, <1>6, <2>4
<1>9. TaskInv(m)'
  <2>1. w = "names" => buf'[m] = disk \union Carries[m]
    BY <1>1, <1>4 DEF TypeOK, LocalsOK
  <2> QED BY <1>1, <1>4, <1>5, <2>1
          DEF TaskInv, BootInv, SyncInv, PullInv, HandlerInv, SyncPcs
<1> QED BY <1>5, <1>6, <1>7, <1>8, <1>9 DEF QInv

\* While a handler works, the file and the store have the targets owed to all the others.
LEMMA HandlerAlone ==
  ASSUME QInv, NEW m \in Msgs, AtWork(m)
  PROVE  /\ m \in Tasks /\ m \in Posted /\ pc[Loop] = "idle" /\ pc[Ready] = "done"
         /\ \A n \in Owed \ {m} : Carries[n] \subseteq disk \intersect StoreSet
<1>1. m \in Tasks /\ m \in Posted /\ pc[Loop] = "idle" /\ pc[Ready] = "done"
  BY DEF QInv, Alone, AtWork, AtRest, Posted, Tasks
<1>2. \A n \in Posted \ {m} : ~AtWork(n)
  BY <1>1 DEF QInv, Alone, Posted, Tasks
<1> QED BY <1>1, <1>2 DEF QInv, Settled, Owed

\* The file was read: the handler goes on as for a text.
LEMMA QuietRead ==
  ASSUME TypeOK, QInv, faults = 0, faults' = 0, NEW m \in Msgs, Read(m)
  PROVE  QInv'
<1>1. /\ AtWork(m) /\ m \in Tasks /\ pc[m] = "read" /\ UNCHANGED <<disk, stores, open, mid, thread>>
  BY DEF Read, AtWork, AtRest, Tasks, file, chan
<1>2. PICK w \in {"check", "names"} : Goto(m, w) /\
         \/ w = "check" /\ Carries[m] \subseteq disk
         \/ w = "names" /\ buf' = [buf EXCEPT ![m] = disk \union Carries[m]]
  BY DEF Read, Fail, StartIngest
<1>3. m \in thread
  BY <1>1 DEF QInv, TaskInv, HandlerInv
<1>4. /\ Alone' /\ pc'[m] = w /\ \A u \in Tasks \ {m} : TaskInv(u)' /\ pc'[u] = pc[u]
      /\ Posted' = Posted
  BY <1>1, <1>2, AloneStep, HandlerAlone DEF QInv
<1>5. \A n \in Msgs : AtWork(n) => AtWork(n)'
  BY <1>1, <1>2, <1>4 DEF AtWork, AtRest, Tasks
<1>6. pc'[Loop] = pc[Loop]
  BY <1>4, ConstAssumption DEF Tasks
<1>7. OneStore' /\ Kept' /\ Settled'
  BY <1>1, <1>4, <1>5, <1>6, SameStore DEF QInv, OneStore
<1>8. TaskInv(m)'
  <2>1. w = "names" => buf'[m] = disk \union Carries[m]
    BY <1>1, <1>2 DEF TypeOK, LocalsOK
  <2> QED BY <1>1, <1>2, <1>3, <1>4, <2>1
          DEF TaskInv, BootInv, SyncInv, PullInv, HandlerInv, SyncPcs
<1> QED BY <1>4, <1>7, <1>8 DEF QInv

LEMMA QuietIngest ==
  ASSUME TypeOK, QInv, NEW m \in Msgs, Ingest(m)
  PROVE  QInv'
<1>1. /\ AtWork(m) /\ m \in Tasks /\ Goto(m, "enrich") /\ pc[m] = "names"
      /\ disk' = buf[m] /\ UNCHANGED <<stores, open, mid, thread, buf>>
  BY DEF Ingest, AtWork, AtRest, Tasks, chan, locals
<1>2. buf[m] = disk \union Carries[m] /\ m \in thread
  BY <1>1 DEF QInv, TaskInv, HandlerInv
<1>3. /\ Alone' /\ pc'[m] = "enrich" /\ \A u \in Tasks \ {m} : TaskInv(u)' /\ pc'[u] = pc[u]
      /\ Posted' = Posted
  BY <1>1, AloneStep, HandlerAlone DEF QInv
<1>4. \A n \in Msgs : AtWork(n) => AtWork(n)'
  BY <1>1, <1>3 DEF AtWork, AtRest, Tasks
<1>5. pc'[Loop] = pc[Loop]
  BY <1>3, ConstAssumption DEF Tasks
<1>6. OneStore' /\ Kept' /\ Settled'
  BY <1>1, <1>2, <1>3, <1>4, <1>5, SameStore DEF QInv, OneStore
<1>7. TaskInv(m)'
  BY <1>1, <1>2, <1>3 DEF TaskInv, BootInv, SyncInv, PullInv, HandlerInv, SyncPcs
<1> QED BY <1>3, <1>6, <1>7 DEF QInv

LEMMA QuietEnrich ==
  ASSUME TypeOK, QInv, NEW m \in Msgs, Enrich(m)
  PROVE  QInv'
<1>1. /\ AtWork(m) /\ m \in Tasks /\ Goto(m, "check") /\ pc[m] = "enrich"
      /\ disk' \in {buf[m], disk} /\ UNCHANGED <<stores, open, mid, thread>>
  BY ConstAssumption DEF Enrich, Leave, AtWork, AtRest, Tasks, chan
<1>2. buf[m] = disk /\ m \in thread /\ Carries[m] \subseteq disk
  BY <1>1 DEF QInv, TaskInv, HandlerInv
<1>3. /\ Alone' /\ pc'[m] = "check" /\ \A u \in Tasks \ {m} : TaskInv(u)' /\ pc'[u] = pc[u]
      /\ Posted' = Posted
  BY <1>1, AloneStep, HandlerAlone DEF QInv
<1>4. \A n \in Msgs : AtWork(n) => AtWork(n)'
  BY <1>1, <1>3 DEF AtWork, AtRest, Tasks
<1>5. pc'[Loop] = pc[Loop]
  BY <1>3, ConstAssumption DEF Tasks
<1>6. OneStore' /\ Kept' /\ Settled'
  BY <1>1, <1>2, <1>3, <1>4, <1>5, SameStore DEF QInv, OneStore
<1>7. TaskInv(m)'
  BY <1>1, <1>2, <1>3 DEF TaskInv, BootInv, SyncInv, PullInv, HandlerInv, SyncPcs
<1> QED BY <1>3, <1>6, <1>7 DEF QInv

LEMMA QuietSyncStart ==
  ASSUME TypeOK, QInv, faults = 0, faults' = 0, NEW m \in Msgs, SyncStart(m)
  PROVE  QInv'
<1>1. /\ AtWork(m) /\ m \in Tasks /\ Goto(m, "find") /\ pc[m] = "check"
      /\ buf' = [buf EXCEPT ![m] = disk] /\ UNCHANGED <<disk, stores, open, mid, thread>>
  BY DEF SyncStart, Fail, AtWork, AtRest, Tasks, file, chan
<1>2. m \in thread /\ Carries[m] \subseteq disk
  BY <1>1 DEF QInv, TaskInv, HandlerInv
<1>3. /\ Alone' /\ pc'[m] = "find" /\ \A u \in Tasks \ {m} : TaskInv(u)' /\ pc'[u] = pc[u]
      /\ Posted' = Posted
  BY <1>1, AloneStep, HandlerAlone DEF QInv
<1>4. \A n \in Msgs : AtWork(n) => AtWork(n)'
  BY <1>1, <1>3 DEF AtWork, AtRest, Tasks
<1>5. pc'[Loop] = pc[Loop]
  BY <1>3, ConstAssumption DEF Tasks
<1>6. OneStore' /\ Kept' /\ Settled'
  BY <1>1, <1>2, <1>3, <1>4, <1>5, SameStore DEF QInv, OneStore
<1>7. buf'[m] = disk' /\ \A n \in Owed' : Carries[n] \subseteq disk'
  <2>1. Owed' = Owed
    BY <1>1, <1>3 DEF Owed
  <2> QED BY <1>1, <1>2, <2>1, HandlerAlone DEF TypeOK, LocalsOK
<1>8. TaskInv(m)'
  BY <1>1, <1>2, <1>3, <1>7 DEF TaskInv, BootInv, SyncInv, PullInv, HandlerInv, SyncPcs
<1> QED BY <1>3, <1>6, <1>8 DEF QInv

\* A step within a sync.
LEMMA SyncAlone ==
  ASSUME TypeOK, QInv, NEW t \in Tasks, NEW w, w # "unposted", Goto(t, w), pc[t] \in SyncPcs
  PROVE  /\ Alone' /\ pc'[t] = w /\ \A u \in Tasks \ {t} : TaskInv(u)' /\ pc'[u] = pc[u]
         /\ Posted' = Posted /\ \A u \in Tasks \ {t} : ~AtWork(u) /\ ~AtWork(u)'
         /\ buf[t] = disk /\ \A m \in Owed : Carries[m] \subseteq disk
         /\ t \in Msgs => t \in thread /\ Carries[t] \subseteq disk
<1>1. AtWork(t) /\ (t \in Msgs => t \in Posted)
  BY DEF AtWork, AtRest, SyncPcs, Posted
<1>2. /\ Alone' /\ pc'[t] = w /\ \A u \in Tasks \ {t} : TaskInv(u)' /\ pc'[u] = pc[u]
      /\ Posted' = Posted /\ \A u \in Tasks \ {t} : ~AtWork(u)'
  BY <1>1, AloneStep DEF QInv
<1>3. \A u \in Tasks \ {t} : ~AtWork(u)
  BY <1>1 DEF QInv, Alone
<1>4. buf[t] = disk /\ \A m \in Owed : Carries[m] \subseteq disk
  BY DEF QInv, TaskInv, SyncInv
<1>5. t \in Msgs => t \in thread /\ Carries[t] \subseteq disk
  BY DEF QInv, TaskInv, HandlerInv
<1> QED BY <1>2, <1>3, <1>4, <1>5

LEMMA QuietFind ==
  ASSUME TypeOK, QInv, faults = 0, faults' = 0, NEW t \in Tasks, Find(t)
  PROVE  QInv'
<1>1. PICK i \in {Current, Newest, 0} :
        /\ IF i = Current THEN UNCHANGED faults ELSE Fail
        /\ at' = [at EXCEPT ![t] = i]
        /\ mid' = IF i = 0 THEN mid ELSE i
        /\ IF i = 0
           THEN Goto(t, "create") /\ seen' = [seen EXCEPT ![t] = disk]
           ELSE Goto(t, "load") /\ UNCHANGED seen
  BY DEF Find
<1>2. i = Len(stores) /\ i \in {0, 1}
  BY <1>1, QuietCurrent DEF Fail, QInv
<1>3. pc[t] \in SyncPcs /\ UNCHANGED <<disk, stores, open, thread, buf>>
  BY DEF Find, SyncPcs, file
<1>4. PICK w \in {"create", "load"} : Goto(t, w) /\ (w = "create" <=> i = 0)
  BY <1>1
<1>5. /\ Alone' /\ pc'[t] = w /\ \A u \in Tasks \ {t} : TaskInv(u)' /\ pc'[u] = pc[u]
      /\ Posted' = Posted /\ \A u \in Tasks \ {t} : ~AtWork(u) /\ ~AtWork(u)'
      /\ buf[t] = disk /\ \A m \in Owed : Carries[m] \subseteq disk
      /\ t \in Msgs => t \in thread /\ Carries[t] \subseteq disk
  BY <1>3, <1>4, SyncAlone
<1>6. mid' \in {0, Len(stores)}
  BY <1>1, <1>2 DEF QInv, OneStore
<1>7. /\ pc'[Loop] \in {"idle", "pull"} => pc[Loop] \in {"idle", "pull"}
      /\ \A m \in Msgs : AtWork(m) => AtWork(m)'
  BY <1>4, <1>5, ConstAssumption DEF Tasks, AtWork, AtRest
<1>8. OneStore' /\ Kept' /\ Settled'
  BY <1>3, <1>5, <1>6, <1>7, SameStore DEF QInv
<1>9. /\ w = "create" => seen'[t] = disk /\ Len(stores) = 0
      /\ w = "load" => at'[t] = 1 /\ Len(stores) = 1
  BY <1>1, <1>2, <1>4 DEF TypeOK, LocalsOK
<1>10. TaskInv(t)'
  <2>1. Owed' = Owed
    BY <1>3, <1>5 DEF Owed
  <2> QED BY <1>3, <1>4, <1>5, <1>9, <2>1
          DEF TaskInv, BootInv, SyncInv, PullInv, HandlerInv, SyncPcs
<1> QED BY <1>5, <1>8, <1>10 DEF QInv

LEMMA QuietLoad ==
  ASSUME TypeOK, QInv, faults = 0, faults' = 0, NEW t \in Tasks, Load(t)
  PROVE  QInv'
<1>1. /\ pc[t] = "load" /\ pc[t] \in SyncPcs /\ Fetch(t) /\ Goto(t, "edit")
      /\ UNCHANGED <<disk, stores, open, thread, buf, at>>
  BY DEF Load, SyncPcs, file
<1>2. /\ Alone' /\ pc'[t] = "edit" /\ \A u \in Tasks \ {t} : TaskInv(u)' /\ pc'[u] = pc[u]
      /\ Posted' = Posted /\ \A u \in Tasks \ {t} : ~AtWork(u) /\ ~AtWork(u)'
      /\ buf[t] = disk /\ \A m \in Owed : Carries[m] \subseteq disk
      /\ t \in Msgs => t \in thread /\ Carries[t] \subseteq disk
  BY <1>1, SyncAlone
<1>3. at[t] = 1 /\ Len(stores) = 1
  BY <1>1 DEF QInv, TaskInv, SyncInv
<1>4. mid' \in {0, Len(stores)} /\ seen'[t] = stores[1]
  BY <1>1, <1>3, QuietFetch, QuietCurrent DEF QInv
<1>5. /\ pc'[Loop] \in {"idle", "pull"} => pc[Loop] \in {"idle", "pull"}
      /\ \A m \in Msgs : AtWork(m) => AtWork(m)'
  BY <1>2, ConstAssumption DEF Tasks, AtWork, AtRest
<1>6. OneStore' /\ Kept' /\ Settled'
  BY <1>1, <1>2, <1>4, <1>5, SameStore DEF QInv
<1>7. TaskInv(t)'
  <2>1. Owed' = Owed
    BY <1>1, <1>2 DEF Owed
  <2> QED BY <1>1, <1>2, <1>3, <1>4, <2>1
          DEF TaskInv, BootInv, SyncInv, PullInv, HandlerInv, SyncPcs
<1> QED BY <1>2, <1>6, <1>7 DEF QInv

LEMMA QuietCreate ==
  ASSUME TypeOK, QInv, faults = 0, faults' = 0, NEW t \in Tasks, Create(t)
  PROVE  QInv'
<1>1. /\ pc[t] = "create" /\ pc[t] \in SyncPcs /\ Goto(t, "load") /\ Send(seen[t])
      /\ open' = open \union {mid'} /\ at' = [at EXCEPT ![t] = mid']
      /\ UNCHANGED <<disk, thread, buf>>
  BY DEF Create, Fail, SyncPcs, file
<1>2. /\ Alone' /\ pc'[t] = "load" /\ \A u \in Tasks \ {t} : TaskInv(u)' /\ pc'[u] = pc[u]
      /\ Posted' = Posted /\ \A u \in Tasks \ {t} : ~AtWork(u) /\ ~AtWork(u)'
      /\ buf[t] = disk /\ \A m \in Owed : Carries[m] \subseteq disk
      /\ t \in Msgs => t \in thread /\ Carries[t] \subseteq disk
  BY <1>1, SyncAlone
<1>3. seen[t] = disk /\ Len(stores) = 0
  BY <1>1 DEF QInv, TaskInv, SyncInv
<1>4. stores = <<>> /\ disk \in SUBSET Targets
  BY <1>3 DEF TypeOK, ChanOK, FileOK
<1>5. Len(stores') = 1 /\ stores'[1] = disk /\ mid' = 1
  BY <1>1, <1>3, <1>4 DEF Send
<1>6. open' = 1 .. 1
  BY <1>1, <1>3, <1>5 DEF QInv, OneStore
<1>7. OneStore' /\ StoreSet' = disk'
  BY <1>1, <1>5, <1>6 DEF OneStore, StoreSet
<1>8. Kept' /\ Settled'
  BY <1>1, <1>2, <1>7 DEF Kept, Settled, Owed
<1>9. at'[t] = 1
  BY <1>1, <1>5 DEF TypeOK, LocalsOK
<1>10. TaskInv(t)'
  <2>1. Owed' = Owed
    BY <1>1, <1>2 DEF Owed
  <2> QED BY <1>1, <1>2, <1>5, <1>9, <2>1
          DEF TaskInv, BootInv, SyncInv, PullInv, HandlerInv, SyncPcs
<1> QED BY <1>2, <1>7, <1>8, <1>10 DEF QInv

LEMMA QuietEdit ==
  ASSUME TypeOK, QInv, NEW t \in Tasks, Edit(t)
  PROVE  QInv'
<1>1. /\ pc[t] = "edit" /\ pc[t] \in SyncPcs /\ Goto(t, AfterSync(t))
      /\ stores' = (IF seen[t] = buf[t] THEN stores ELSE [stores EXCEPT ![at[t]] = buf[t]])
      /\ mid' = at[t] /\ open' = open \union {at[t]} /\ UNCHANGED <<disk, thread>>
  BY DEF Edit, SyncPcs, Leave, file
<1>2. AfterSync(t) # "unposted"
  BY DEF AfterSync
<1>3. /\ Alone' /\ pc'[t] = AfterSync(t)
      /\ \A u \in Tasks \ {t} : TaskInv(u)' /\ pc'[u] = pc[u]
      /\ Posted' = Posted /\ \A u \in Tasks \ {t} : ~AtWork(u) /\ ~AtWork(u)'
      /\ buf[t] = disk /\ \A m \in Owed : Carries[m] \subseteq disk
      /\ t \in Msgs => t \in thread /\ Carries[t] \subseteq disk
  BY <1>1, <1>2, SyncAlone
<1>4. at[t] = 1 /\ Len(stores) = 1 /\ seen[t] = stores[1]
  BY <1>1 DEF QInv, TaskInv, SyncInv
<1>5. Len(stores') = 1 /\ stores'[1] = disk /\ mid' = 1
  <2>1. stores \in Seq(SUBSET Targets)
    BY DEF TypeOK, ChanOK
  <2>2. CASE seen[t] = buf[t]
    BY <1>1, <1>3, <1>4, <2>2
  <2>3. CASE seen[t] # buf[t]
    <3>1. stores' = [stores EXCEPT ![1] = disk]
      BY <1>1, <1>3, <1>4, <2>3
    <3>2. 1 \in DOMAIN stores /\ Len(stores') = Len(stores)
      BY <1>4, <2>1, <3>1
    <3> QED BY <1>1, <1>4, <2>1, <3>1, <3>2
  <2> QED BY <2>2, <2>3
<1>6. open' = 1 .. 1 /\ UNCHANGED disk
  BY <1>1, <1>4 DEF QInv, OneStore
<1>7. OneStore' /\ StoreSet' = disk'
  BY <1>5, <1>6 DEF OneStore, StoreSet
<1>8. Kept' /\ Settled'
  BY <1>1, <1>3, <1>7 DEF Kept, Settled, Owed
<1>9. pc'[t] \in {"idle", "done"} \/ (t \in Msgs /\ pc'[t] = "clean" /\ t \in Posted')
  BY <1>1, <1>3, ConstAssumption DEF AfterSync, Tasks, Posted
<1>10. TaskInv(t)'
  BY <1>1, <1>3, <1>7, <1>9 DEF TaskInv, BootInv, SyncInv, PullInv, HandlerInv, SyncPcs
<1> QED BY <1>3, <1>7, <1>8, <1>10 DEF QInv

LEMMA QuietClean ==
  ASSUME TypeOK, QInv, NEW m \in Msgs, Clean(m) \/ Delete(m)
  PROVE  QInv'
<1>1. /\ AtWork(m) /\ m \in Tasks /\ pc[m] \in {"clean", "delete"} /\ thread' \subseteq thread
      /\ UNCHANGED <<disk, stores, open, mid>>
  BY DEF Clean, Delete, AtWork, AtRest, Tasks, file
<1>2. PICK w \in {"delete", "done"} : Goto(m, w)
  BY DEF Clean, Delete
<1>3. Carries[m] \subseteq disk \intersect StoreSet
  BY <1>1 DEF QInv, TaskInv, HandlerInv
<1>4. /\ Alone' /\ pc'[m] = w /\ \A u \in Tasks \ {m} : TaskInv(u)' /\ pc'[u] = pc[u]
      /\ Posted' = Posted
  BY <1>1, <1>2, AloneStep, HandlerAlone DEF QInv
<1>5. OneStore' /\ StoreSet' = StoreSet
  BY <1>1 DEF QInv, OneStore, StoreSet
<1>6. \A n \in Owed \union {m} : Carries[n] \subseteq disk \intersect StoreSet
  BY <1>1, <1>3, HandlerAlone
<1>9. Owed' \subseteq Owed \union {m}
  <2>1. (thread \intersect Files) \ {m} \subseteq thread'
    BY DEF Clean, Delete, Scanned
  <2> QED BY <1>4, <2>1 DEF Owed
<1>10. Posted' \ thread' \subseteq Owed'
  BY DEF Owed
<1>7. Kept' /\ Settled'
  BY <1>1, <1>5, <1>6, <1>9, <1>10 DEF Kept, Settled
<1>8. TaskInv(m)'
  BY <1>1, <1>2, <1>3, <1>4, <1>5
  DEF TaskInv, BootInv, SyncInv, PullInv, HandlerInv, SyncPcs
<1> QED BY <1>4, <1>5, <1>7, <1>8 DEF QInv

LEMMA QuietPull ==
  ASSUME TypeOK, QInv, faults = 0, faults' = 0, calm', Pull
  PROVE  QInv'
<1>1. /\ Goto(Loop, "pull") /\ Fetch(Loop) /\ \A u \in Tasks \ {Loop} : ~AtWork(u)
      /\ UNCHANGED <<disk, stores, open, thread>> /\ Loop \in Tasks /\ Loop \notin Msgs
      /\ pc[Loop] = "idle"
  BY ConstAssumption DEF Pull, Tasks, file
<1>2. /\ Alone' /\ pc'[Loop] = "pull" /\ \A u \in Tasks \ {Loop} : TaskInv(u)'
      /\ Posted' = Posted /\ \A m \in Msgs : ~AtWork(m)
  BY <1>1, AloneStep DEF QInv, Tasks
<1>3. mid' \in {0, Len(stores)} /\ seen'[Loop] = Content(Len(stores))
  BY <1>1, QuietFetch DEF QInv
<1>4. OneStore' /\ Kept' /\ Settled'
  BY <1>1, <1>2, <1>3, SameStore DEF QInv
<1>5. Content(Len(stores))' = Content(Len(stores))
  BY <1>1 DEF Content
<1>6. TaskInv(Loop)'
  BY <1>1, <1>2, <1>3, <1>5 DEF TaskInv, BootInv, SyncInv, PullInv, HandlerInv, SyncPcs
<1> QED BY <1>2, <1>4, <1>6 DEF QInv

LEMMA QuietPullWrite ==
  ASSUME TypeOK, QInv, PullWrite
  PROVE  QInv'
<1>1. /\ AtWork(Loop) /\ Loop \in Tasks /\ Loop \notin Msgs /\ Goto(Loop, "idle")
      /\ pc[Loop] = "pull" /\ disk' = Pulled /\ UNCHANGED <<stores, open, mid, thread>>
  BY ConstAssumption DEF PullWrite, Leave, AtWork, AtRest, Tasks, chan
<1>2. seen[Loop] = Content(Len(stores))
  BY <1>1 DEF QInv, TaskInv, PullInv
<1>3. /\ Alone' /\ pc'[Loop] = "idle" /\ \A u \in Tasks \ {Loop} : TaskInv(u)' /\ ~AtWork(u)'
      /\ Posted' = Posted
  BY <1>1, AloneStep DEF QInv
<1>4. \A m \in Msgs : ~AtWork(m)
  BY <1>1 DEF QInv, Alone
<1>5. OneStore' /\ StoreSet' = StoreSet
  BY <1>1 DEF QInv, OneStore, StoreSet
<1>6. \A m \in Owed : Carries[m] \subseteq disk \intersect StoreSet
  BY <1>1, <1>4 DEF QInv, Settled, Posted, Owed
<1>7. StoreSet \subseteq disk' \/ disk' = disk
  BY <1>1, <1>2, QuietCurrent DEF QInv, Pulled
<1>8. Kept' /\ Settled'
  BY <1>1, <1>3, <1>5, <1>6, <1>7 DEF QInv, Kept, Settled, Owed
<1>9. TaskInv(Loop)'
  BY <1>1, <1>3 DEF TaskInv, BootInv, SyncInv, PullInv, HandlerInv, SyncPcs
<1> QED BY <1>3, <1>5, <1>8, <1>9 DEF QInv

LEMMA QuietRestart ==
  ASSUME TypeOK, QInv, Restart
  PROVE  QInv'
<1>1. PICK S \in SUBSET Msgs :
        /\ thread' = thread \union S
        /\ pc' = [t \in Tasks |->
                    CASE t = Loop -> "merge" [] t = Ready -> "ready"
                      [] t \in Msgs /\ pc[t] = "unposted" /\ t \notin S -> "unposted"
                      [] OTHER -> "done"]
  BY DEF Restart
<1>2. /\ pc'[Loop] = "merge" /\ pc'[Ready] = "ready"
      /\ \A m \in Msgs : pc'[m] = IF pc[m] = "unposted" /\ m \notin S THEN "unposted" ELSE "done"
  BY <1>1, ConstAssumption DEF Tasks
<1>3. \A t \in Tasks : ~AtWork(t)'
  BY <1>2 DEF AtWork, AtRest, Tasks
<1>4. \A t \in Tasks : TaskInv(t)'
  <2>1. RestInv'
    BY AtRestInv, PTL
  <2> QED BY <1>3, <2>1 DEF RestInv
<1>5. Alone'
  <2>1. \A m \in Msgs : ~AtWork(m)'
    BY <1>3 DEF Tasks
  <2> QED BY <1>3, <2>1 DEF Alone
<1>6. Settled'
  BY <1>2 DEF Settled
<1>7. OneStore' /\ StoreSet' = StoreSet
  <2>1. UNCHANGED <<stores, open>> /\ mid' \in {mid, 0}
    BY DEF Restart
  <2> QED BY <2>1 DEF QInv, OneStore, StoreSet
<1>8. Posted' \subseteq Posted \union S
  BY <1>2 DEF Posted
<1>9. Kept'
  BY <1>1, <1>7, <1>8 DEF QInv, Kept
<1> QED BY <1>4, <1>5, <1>6, <1>7, <1>9 DEF QInv

LEMMA QuietSame ==
  ASSUME TypeOK, QInv, UNCHANGED <<disk, chan, pc, locals>>
  PROVE  QInv'
BY DEF QInv, OneStore, Alone, Kept, Settled, TaskInv, BootInv, SyncInv, PullInv, HandlerInv,
       StoreSet, Posted, Owed, Content, Scanned, InThread, AtWork, AtRest, chan, locals

\* Tasks that have overlapped, and requests that have failed, stay on the record.
LEMMA QuietBack ==
  ASSUME TypeOK, [Next]_vars, Quiet'
  PROVE  Quiet
<1> DEFINE Moves == (calm' => calm) /\ (faults' = faults \/ Fail)
<1>1. ASSUME NEW t \in Tasks, Find(t) \/ Create(t) \/ Edit(t) \/ Supersede(t)
      PROVE  Moves
  <2>1. CASE Find(t)
    BY <2>1 DEF Find
  <2>2. CASE Create(t)
    BY <2>2 DEF Create
  <2>3. CASE Edit(t) \/ Supersede(t)
    BY <2>3 DEF Edit, Supersede, hist
  <2> QED BY <1>1, <2>1, <2>2, <2>3
<1>2. ASSUME NEW t \in Tasks, Fetch(t)
      PROVE  faults' = faults \/ Fail
  BY <1>2 DEF Fetch
<1>3. ASSUME NEW t \in Tasks, Load(t) \/ BootLoad(t) \/ BootMerge(t) \/ BootScan(t)
      PROVE  Moves
  <2>1. CASE Load(t) \/ BootLoad(t)
    <3>1. CASE Load(t)
      BY <1>2, <3>1 DEF Load
    <3>2. CASE BootLoad(t)
      BY <1>2, <3>2 DEF BootLoad
    <3> QED BY <2>1, <3>1, <3>2
  <2>2. CASE BootMerge(t)
    <3>1. UNCHANGED <<calm, crashes>> /\ (UNCHANGED <<at, faults>> \/ Fail)
      BY <2>2 DEF BootMerge
    <3> QED BY <3>1
  <2>3. CASE BootScan(t)
    BY <2>3 DEF BootScan, hist
  <2> QED BY <1>3, <2>1, <2>2, <2>3
<1>4. ASSUME MergeLoad \/ Merge \/ Pull \/ PullWrite
      PROVE  Moves
  <2>1. CASE MergeLoad \/ Pull
    BY <1>2, <2>1, PcsFacts DEF MergeLoad, Pull
  <2>2. CASE Merge \/ PullWrite
    BY <2>2 DEF Merge, PullWrite, hist
  <2> QED BY <1>4, <2>1, <2>2
<1>5. ASSUME NEW t \in Tasks, Enrich(t)
      PROVE  Moves
  BY <1>5 DEF Enrich, hist
<1>6. ASSUME NEW m \in Msgs, Post(m) \/ Read(m) \/ Ingest(m) \/ SyncStart(m) \/ Clean(m) \/ Delete(m)
      PROVE  Moves
  <2>1. CASE Post(m)
    BY <2>1 DEF Post
  <2>5. CASE Read(m)
    BY <2>5 DEF Read
  <2>2. CASE Ingest(m)
    BY <2>2 DEF Ingest, hist
  <2>3. CASE SyncStart(m)
    BY <2>3 DEF SyncStart
  <2>4. CASE Clean(m) \/ Delete(m)
    BY <2>4 DEF Clean, Delete
  <2> QED BY <1>6, <2>1, <2>2, <2>3, <2>4, <2>5
<1>7. ASSUME DirtyOver \/ Restart \/ UNCHANGED vars
      PROVE  Moves
  BY <1>7 DEF DirtyOver, Restart, vars, hist
<1>8. Moves
  <2> HIDE DEF Moves
  <2>1. \A t \in Tasks : SyncStep(t) \/ BootStep(t) => Moves
    BY <1>1, <1>3 DEF SyncStep, BootStep
  <2>2. LoopStep => Moves
    BY <1>4, <1>5, <2>1, PcsFacts DEF LoopStep
  <2>3. \A m \in Msgs : Post(m) \/ Handler(m) => Moves
    BY <1>5, <1>6, <2>1, PcsFacts DEF Handler
  <2> QED BY <1>7, <2>1, <2>2, <2>3, PcsFacts DEF Next
<1> QED BY <1>8 DEF Quiet, Fail, TypeOK, HistOK

LEMMA QuietInit == Init => QuietInv
<1> SUFFICES ASSUME Init PROVE QInv
  BY DEF QuietInv
<1>1. /\ pc[Loop] = "merge" /\ pc[Ready] = "ready" /\ \A m \in Msgs : pc[m] = "unposted"
      /\ stores = <<>> /\ open = {} /\ mid = 0
  BY ConstAssumption DEF Init, Tasks
<1>2. \A t \in Tasks : ~AtWork(t)
  BY <1>1 DEF Tasks, AtWork, AtRest
<1>3. \A t \in Tasks : TaskInv(t)
  BY <1>2, AtRestInv DEF RestInv
<1>4. OneStore /\ Posted = {}
  BY <1>1 DEF OneStore, Posted
<1>5. Alone /\ Kept /\ Settled
  BY <1>2, <1>4 DEF Alone, Kept, Settled, Owed, Tasks
<1> QED BY <1>3, <1>4, <1>5 DEF QInv

LEMMA QuietStep == TypeOK /\ QuietInv /\ [Next]_vars => QuietInv'
<1> SUFFICES ASSUME TypeOK, QuietInv, [Next]_vars, Quiet' PROVE QInv'
  BY DEF QuietInv
<1>0. QInv /\ faults = 0 /\ faults' = 0 /\ calm'
  BY QuietBack DEF QuietInv, Quiet
<1>1. ASSUME NEW t \in Tasks, SyncStep(t)
      PROVE  QInv'
  <2>1. ~Supersede(t)
    BY <1>0 DEF Supersede, Fail
  <2> QED BY <1>0, <1>1, <2>1, QuietFind, QuietCreate, QuietLoad, QuietEdit DEF SyncStep
<1>2. ASSUME NEW t \in {Loop, Ready}, BootStep(t)
      PROVE  QInv'
  BY <1>0, <1>1, <1>2, PcsFacts, QuietBootLoad, QuietBootMerge, QuietBootScan DEF BootStep
<1>3. CASE LoopStep
  BY <1>0, <1>2, <1>3, QuietMergeLoad, QuietMerge, QuietEnrichLoop, QuietPull, QuietPullWrite
  DEF LoopStep
<1>4. ASSUME NEW m \in Msgs, Post(m) \/ Handler(m)
      PROVE  QInv'
  BY <1>0, <1>1, <1>4, PcsFacts, QuietPost, QuietRead, QuietIngest, QuietEnrich, QuietSyncStart, QuietClean
  DEF Handler
<1>5. CASE DirtyOver \/ UNCHANGED vars
  BY <1>0, <1>5, QuietSame DEF DirtyOver, vars, file
<1> QED BY <1>0, <1>2, <1>3, <1>4, <1>5, QuietRestart DEF Next

\* A message that was posted is in the thread until the newest store message has its
\* targets, and unless they are in an attached file a restart on a fresh disk reads them
\* from one of the two, at every step of the handling and of the bootstraps, as long as
\* tasks do not overlap and Discord answers.
THEOREM Survives == Spec => []SafeAlone
<1>1. TypeOK /\ QuietInv => SafeAlone
  <2> SUFFICES ASSUME TypeOK, QInv, NEW m \in Owed PROVE Carries[m] \subseteq Durable
    BY DEF QuietInv, SafeAlone, Quiet, Posted, Owed
  <2>1. OneStore /\ Kept
    BY DEF QInv
  <2>2. Durable = InThread \union StoreSet
    BY <2>1, QuietCurrent DEF Durable, StoreSet
  <2>3. CASE m \in thread
    BY <2>2, <2>3, OwedIsScanned
  <2>4. CASE m \notin thread
    BY <2>1, <2>2, <2>4 DEF Kept, Owed
  <2> QED BY <2>3, <2>4
<1> QED BY <1>1, TypeInit, TypeStep, QuietInit, QuietStep, PTL DEF Spec
=============================================================================
