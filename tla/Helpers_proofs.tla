--------------------------- MODULE Helpers_proofs ---------------------------
(***************************************************************************)
(* Theorems of the two helpers every guard calls.  Of SafeDelete for any   *)
(* messages, delays and bounds: the pace of the deletions.  Of OnceDedupe  *)
(* for any keys, times to live, caps and intervals: what is suppressed and *)
(* what is let through.  The two specifications share no variable; each    *)
(* theorem is about one of them.                                           *)
(***************************************************************************)
EXTENDS SafeDelete, OnceDedupe, FiniteSetTheorems, TLAPS

-----------------------------------------------------------------------------
\* Serialized deletion (SafeDelete).

\* The attempts of a deletion are counted from zero, and a back-off is entered only
\* while they last.
TriesInv ==
    /\ \A m \in Msgs : m \notin asked => act[m] = "off"
    /\ \A d \in Doers : act[d] \in {"off", "delay", "pace", "sleep"} => tries[d] = 0
    /\ \A d \in Doers : act[d] = "back" => tries[d] <= MaxTries

\* While the worker sleeps out the interval, what is left of the sleep and what has
\* passed since its last deletion make up the interval.
PaceInv == act[Worker] = "pace" => timer[Worker] + since >= MinInterval

IInv == TypeOK /\ TriesInv /\ PaceInv

LEMMA InitInv == Init => IInv
BY ConstAssumption DEF Init, IInv, TypeOK, TriesInv, PaceInv, Doers

LEMMA EnqueueInv ==
    ASSUME IInv, NEW m \in Msgs, NEW w \in Delays, Enqueue(m, w)
    PROVE  IInv'
<1>1. /\ asked' = asked \union {m} /\ m \notin asked
      /\ queue' = Append(queue, <<m, w>>) /\ Len(queue) < QMax
      /\ UNCHANGED <<holding, act, timer, tries, since, result>>
  BY DEF Enqueue
<1>2. queue \in Seq(Msgs \X Delays) /\ <<m, w>> \in Msgs \X Delays
  BY DEF IInv, TypeOK
<1>3. queue' \in Seq(Msgs \X Delays) /\ Len(queue') = Len(queue) + 1
  BY <1>1, <1>2
<1>4. TypeOK'
  BY <1>1, <1>3, ConstAssumption DEF IInv, TypeOK
<1>5. TriesInv' /\ PaceInv'
  BY <1>1 DEF IInv, TriesInv, PaceInv
<1> QED BY <1>4, <1>5 DEF IInv

LEMMA FallbackInv ==
    ASSUME IInv, NEW m \in Msgs, NEW w \in Delays, Fallback(m, w)
    PROVE  IInv'
<1>1. /\ m \in Doers /\ m # Worker /\ MinInterval + w \in Nat
      /\ tries[m] = 0
  BY ConstAssumption DEF Doers, Fallback, IInv, TypeOK, TriesInv
<1>2. TypeOK'
  BY <1>1 DEF Fallback, IInv, TypeOK
<1>3. TriesInv'
  BY <1>1 DEF Fallback, IInv, TypeOK, TriesInv
<1>4. PaceInv'
  BY <1>1 DEF Fallback, IInv, TypeOK, PaceInv, Doers
<1> QED BY <1>2, <1>3, <1>4 DEF IInv

LEMMA WorkerGetInv ==
    ASSUME IInv, WorkerGet
    PROVE  IInv'
<1>1. queue \in Seq(Msgs \X Delays) /\ queue # <<>> /\ Len(queue) <= QMax
  BY DEF IInv, TypeOK, WorkerGet
<1>2. /\ Head(queue) \in Msgs \X Delays
      /\ Tail(queue) \in Seq(Msgs \X Delays) /\ Len(Tail(queue)) = Len(queue) - 1
  BY <1>1
<1>3. Head(queue)[1] \in Msgs /\ Head(queue)[2] \in Nat
  BY <1>2, ConstAssumption
<1>4. TypeOK'
  <2>1. queue' \in Seq(Msgs \X Delays) /\ Len(queue') <= QMax
    BY <1>1, <1>2, ConstAssumption DEF WorkerGet
  <2> QED BY <2>1, <1>3 DEF WorkerGet, IInv, TypeOK, Doers
<1>5. TriesInv'
  BY ConstAssumption DEF WorkerGet, IInv, TypeOK, TriesInv, Doers
<1>6. PaceInv'
  BY DEF WorkerGet, IInv, TypeOK, PaceInv, Doers
<1> QED BY <1>4, <1>5, <1>6 DEF IInv

LEMMA PaceStep ==
    ASSUME IInv, Pace
    PROVE  IInv'
<1>1. MinInterval - since \in Nat
  BY ConstAssumption DEF IInv, TypeOK
<1>2. TypeOK'
  BY <1>1 DEF Pace, PaceWait, IInv, TypeOK, Doers
<1>3. TriesInv'
  BY DEF Pace, IInv, TypeOK, TriesInv, Doers
<1>4. PaceInv'
  BY ConstAssumption DEF Pace, PaceWait, IInv, TypeOK, PaceInv, Doers
<1> QED BY <1>2, <1>3, <1>4 DEF IInv

LEMMA CallInv ==
    ASSUME IInv, NEW d \in Doers, Call(d)
    PROVE  IInv'
<1>1. tries[d] <= MaxTries /\ tries[d] \in Nat
  BY ConstAssumption DEF Call, IInv, TypeOK, TriesInv
<1>2. TypeOK'
  BY <1>1, ConstAssumption DEF Call, IInv, TypeOK
<1>3. TriesInv'
  BY DEF Call, IInv, TypeOK, TriesInv, Doers
<1>4. PaceInv'
  BY DEF Call, IInv, TypeOK, PaceInv, Doers
<1> QED BY <1>2, <1>3, <1>4 DEF IInv

LEMMA FinishInv ==
    ASSUME IInv, NEW d \in Doers, Finish(d)
    PROVE  IInv'
<1> PICK how \in {"gone", "kept"} : Done(d, how)
  BY DEF Finish
<1>1. /\ act[d] = "call" /\ act' = [act EXCEPT ![d] = "off"]
      /\ tries' = [tries EXCEPT ![d] = 0]
      /\ IF d = Worker THEN since' = 0 /\ holding' = None
                       ELSE UNCHANGED <<since, holding>>
      /\ result' = [result EXCEPT ![MsgOf(d)] = how]
      /\ UNCHANGED <<queue, timer, asked>>
  BY DEF Done, GoOn
<1>2. TypeOK'
  <2>1. queue' \in Seq(Msgs \X Delays) /\ Len(queue') <= QMax
    BY <1>1 DEF IInv, TypeOK
  <2>2. holding' \in Msgs \union {None} /\ since' \in 0 .. MinInterval
    BY <1>1, ConstAssumption DEF IInv, TypeOK
  <2>3. result' \in [Msgs -> {"none", "gone", "kept"}]
    BY <1>1 DEF IInv, TypeOK
  <2>4. tries' \in [Doers -> 0 .. MaxTries + 1]
    BY <1>1, ConstAssumption DEF IInv, TypeOK
  <2>5. /\ act' \in [Doers -> {"off", "delay", "pace", "sleep", "call", "back"}]
        /\ timer' \in [Doers -> Nat] /\ asked' \subseteq Msgs
    BY <1>1 DEF IInv, TypeOK
  <2> QED BY <2>1, <2>2, <2>3, <2>4, <2>5 DEF TypeOK
<1>3. TriesInv'
  BY <1>1 DEF IInv, TypeOK, TriesInv, Doers
<1>4. PaceInv'
  BY <1>1 DEF IInv, TypeOK, PaceInv, Doers
<1> QED BY <1>2, <1>3, <1>4 DEF IInv

LEMMA RateLimitedInv ==
    ASSUME IInv, NEW d \in Doers, RateLimited(d)
    PROVE  IInv'
<1>1. TypeOK'
  BY ConstAssumption DEF RateLimited, IInv, TypeOK
<1>2. TriesInv'
  BY DEF RateLimited, MayRetry, IInv, TypeOK, TriesInv, Doers
<1>3. PaceInv'
  BY DEF RateLimited, IInv, TypeOK, PaceInv, Doers
<1> QED BY <1>1, <1>2, <1>3 DEF IInv

LEMMA TickInv ==
    ASSUME IInv, Tick
    PROVE  IInv'
<1>1. TypeOK'
  BY ConstAssumption DEF Tick, Step1, IInv, TypeOK
<1>2. TriesInv'
  BY DEF Tick, IInv, TypeOK, TriesInv
<1>3. PaceInv'
  BY ConstAssumption DEF Tick, Step1, IInv, TypeOK, PaceInv, Doers
<1> QED BY <1>1, <1>2, <1>3 DEF IInv

LEMMA StepInv == IInv /\ [Next]_vars => IInv'
<1> SUFFICES ASSUME IInv, [Next]_vars PROVE IInv'
  OBVIOUS
<1>1. CASE \E m \in Msgs, w \in Delays : Enqueue(m, w) \/ Fallback(m, w)
  BY <1>1, EnqueueInv, FallbackInv
<1>2. CASE WorkerGet \/ Pace
  BY <1>2, WorkerGetInv, PaceStep
<1>3. CASE \E d \in Doers : Call(d) \/ Finish(d) \/ RateLimited(d)
  BY <1>3, CallInv, FinishInv, RateLimitedInv
<1>4. CASE Tick
  BY <1>4, TickInv
<1>5. CASE UNCHANGED vars
  BY <1>5 DEF vars, IInv, TypeOK, TriesInv, PaceInv
<1> QED BY <1>1, <1>2, <1>3, <1>4, <1>5 DEF Next

\* Types, the bound of the queue and the bound on the attempts of _guarded_delete.
THEOREM TypeCorrect == Spec => []TypeOK
<1>1. IInv => TypeOK
  BY DEF IInv
<1> QED BY <1>1, InitInv, StepInv, PTL DEF Spec

\* _delete_worker starts the deletion of an item only when the interval since its last
\* deletion has passed, whatever happens on the callers' fallback path.
THEOREM Pacing == Spec => WorkerPaced
<1>1. ASSUME IInv, [Next]_vars
      PROVE  [act[Worker] = "pace" /\ act'[Worker] = "call" => since >= MinInterval]_vars
  <2> SUFFICES ASSUME Next, act[Worker] = "pace", act'[Worker] = "call"
               PROVE  since >= MinInterval
    BY <1>1
  <2>1. timer[Worker] + since >= MinInterval /\ since \in Nat
    BY <1>1, ConstAssumption DEF IInv, PaceInv, TypeOK
  <2>2. timer[Worker] = 0
    <3>1. act \in [Doers -> {"off", "delay", "pace", "sleep", "call", "back"}]
      BY <1>1 DEF IInv, TypeOK
    <3> QED
      BY <3>1, ConstAssumption DEF Next, Enqueue, Fallback, WorkerGet, Pace, Call,
         Finish, Done, GoOn, RateLimited, Tick, Doers
  <2> QED BY <2>1, <2>2, ConstAssumption
<1> QED BY <1>1, InitInv, StepInv, PTL DEF Spec, WorkerPaced

-----------------------------------------------------------------------------
\* Once per time to live (OnceDedupe).

\* Neither copy outlives the last grant, and a copy that was not lost is exact.
CopyInv ==
    \A k \in Keys :
        /\ seen[k] <= until[k] /\ exp[k] <= until[k] /\ until[k] <= now + Ttl[k]
        /\ until[k] > now => /\ "mem" \notin lost[k] => seen[k] = until[k]
                             /\ "db" \notin lost[k] => exp[k] = until[k]

OnceInv == OnceTypeOK /\ CopyInv /\ NoFalseSkip

LEMMA KeptKeeps ==
    ASSUME NEW f \in [Keys -> Nat], NEW rank \in [Keys -> Nat], NEW cap \in Nat \ {0},
           NEW S \in Kept(f, rank, cap),
           NEW k \in Live(f), k \notin Crowded(f, rank, cap)
    PROVE  k \in S
<1> SUFFICES ASSUME k \notin S PROVE FALSE
  OBVIOUS
<1> DEFINE T == {j \in Live(f) \ {k} : rank[j] >= rank[k]}
<1>1. /\ S \subseteq Live(f) /\ S # Live(f) /\ Cardinality(S) = cap
      /\ \A a \in Live(f) \ S, b \in S : rank[a] <= rank[b]
  BY DEF Kept
<1>2. S \subseteq T
  BY <1>1 DEF Live
<1>3. IsFiniteSet(T)
  BY OnceAssumption, FS_Subset DEF Live
<1>4. Cardinality(S) <= Cardinality(T)
  BY <1>2, <1>3, FS_Subset
<1>5. Cardinality(T) \in Nat
  BY <1>3, FS_CardinalityType
<1> QED BY <1>1, <1>4, <1>5 DEF Crowded

LEMMA MemKeeps ==
    ASSUME OnceTypeOK, NEW s \in [Keys -> Nat], MemGc(s)
    PROVE  /\ seen' \in [Keys -> Nat] /\ memGc' \in 0 .. now
           /\ \A j \in Keys : /\ seen'[j] <= s[j]
                              /\ j \in Live(s) \ Crowded(s, s, MemMax) => seen'[j] = s[j]
<1> USE DEF OnceTypeOK
<1>0. now \in Nat
  BY OnceAssumption
<1>1. CASE now - memGc < MemGcEvery
  BY <1>1, <1>0 DEF MemGc
<1>2. CASE ~(now - memGc < MemGcEvery)
  <2> PICK S \in Kept(s, s, MemMax) : seen' = Only(s, S)
    BY <1>2 DEF MemGc
  <2>1. \A j \in Live(s) \ Crowded(s, s, MemMax) : j \in S
    BY KeptKeeps, OnceAssumption
  <2>2. \A j \in Keys : seen'[j] = IF j \in S THEN s[j] ELSE 0
    BY DEF Only
  <2>3. seen' \in [Keys -> Nat] /\ memGc' = now
    BY <1>2, <1>0 DEF Only, MemGc
  <2> QED BY <2>1, <2>2, <2>3, <1>0
<1> QED BY <1>1, <1>2

LEMMA DbKeeps ==
    ASSUME OnceTypeOK, NEW e \in [Keys -> Nat], Live(e) = Live(exp), NEW x \in DbGc(e)
    PROVE  /\ x \in [Keys -> Nat]
           /\ \A j \in Keys : /\ x[j] <= e[j]
                              /\ j \in Live(e) \ Crowded(exp, ts, DbMax) => x[j] = e[j]
<1> USE DEF OnceTypeOK
<1>1. CASE ~(DbDue /\ store = "up")
  <2>1. x = e
    BY <1>1 DEF DbGc
  <2> QED BY <2>1
<1>2. CASE DbDue /\ store = "up"
  <2> PICK S \in Kept(e, ts, DbMax) : x = Only(e, S)
    BY <1>2 DEF DbGc
  <2>0. Crowded(e, ts, DbMax) = Crowded(exp, ts, DbMax)
    BY DEF Crowded
  <2>1. \A j \in Live(e) \ Crowded(exp, ts, DbMax) : j \in S
    BY <2>0, KeptKeeps, OnceAssumption
  <2>2. \A j \in Keys : x[j] = IF j \in S THEN e[j] ELSE 0
    BY DEF Only
  <2>3. x \in [Keys -> Nat]
    BY DEF Only
  <2> QED BY <2>1, <2>2, <2>3
<1> QED BY <1>1, <1>2

LEMMA LookupKeeps ==
    ASSUME OnceTypeOK, NEW k \in Keys
    PROVE  /\ AfterLookup(k) \in [Keys -> Nat] /\ Live(AfterLookup(k)) = Live(exp)
           /\ \A j \in Keys : /\ AfterLookup(k)[j] <= exp[j]
                              /\ j \in Live(exp) => AfterLookup(k)[j] = exp[j]
<1> USE DEF OnceTypeOK
<1>0. now \in Nat
  BY OnceAssumption
<1>1. CASE store # "up"
  BY <1>1 DEF AfterLookup
<1>2. CASE store = "up"
  <2>1. \A j \in Keys : AfterLookup(k)[j] = IF j # k \/ ~Expired(k) THEN exp[j] ELSE 0
    BY <1>2 DEF AfterLookup, Only
  <2>2. AfterLookup(k) \in [Keys -> Nat]
    BY <1>2 DEF AfterLookup, Only
  <2>3. \A j \in Keys : j \in Live(exp) => AfterLookup(k)[j] = exp[j]
    BY <2>1 DEF Expired
  <2>4. \A j \in Keys : j \in Live(AfterLookup(k)) <=> j \in Live(exp)
    BY <2>1, <2>3, <1>0 DEF Live
  <2>5. Live(AfterLookup(k)) = Live(exp)
    BY <2>4 DEF Live
  <2> QED BY <2>1, <2>2, <2>3, <2>5
<1> QED BY <1>1, <1>2

LEMMA NoneIsNoReply == \A k \in Keys, b \in BOOLEAN : NoCall # <<k, b>>
<1> SUFFICES ASSUME NEW k \in Keys, NEW b \in BOOLEAN PROVE <<k, b>> # NoCall
  OBVIOUS
<1>1. <<k, b>> \in Keys \X BOOLEAN
  OBVIOUS
<1> QED BY <1>1, OnceAssumption

LEMMA OnceInitInv == OnceInit => OnceInv
<1> SUFFICES ASSUME OnceInit PROVE OnceInv
  OBVIOUS
<1>1. OnceTypeOK
  BY OnceAssumption DEF OnceInit, OnceTypeOK
<1>2. CopyInv
  BY OnceAssumption DEF OnceInit, CopyInv
<1>3. NoFalseSkip
  BY NoneIsNoReply DEF OnceInit, NoFalseSkip
<1> QED BY <1>1, <1>2, <1>3 DEF OnceInv

\* A call of once_sync leaves lost[j] for j # k at least as large.
LEMMA LossesKept ==
    ASSUME OnceTypeOK, NEW k \in Keys, NEW base \in SUBSET {"mem", "db"}, NEW s, Losses(k, base, s)
    PROVE  /\ lost' \in [Keys -> SUBSET {"mem", "db"}]
           /\ \A j \in Keys :
                 /\ (IF j = k THEN base ELSE lost[j]) \subseteq lost'[j]
                 /\ j \in Crowded(s, s, MemMax) => "mem" \in lost'[j]
                 /\ j \in Crowded(exp, ts, DbMax) => "db" \in lost'[j]
BY DEF Losses, OnceTypeOK

LEMMA RememberedInv ==
    ASSUME OnceInv, NEW k \in Keys, Remembered(k)
    PROVE  OnceInv'
<1>1. seen[k] > now /\ seen[k] <= until[k] /\ now \in Nat /\ seen[k] \in Nat /\ until[k] \in Nat
  BY OnceAssumption DEF Remembered, OnceInv, OnceTypeOK, CopyInv, Live
<1>2. OnceTypeOK'
  BY DEF Remembered, OnceInv, OnceTypeOK
<1>3. CopyInv'
  BY DEF Remembered, OnceInv, CopyInv
<1>4. NoFalseSkip'
  BY <1>1 DEF Remembered, NoFalseSkip
<1> QED BY <1>2, <1>3, <1>4 DEF OnceInv

LEMMA RestoredInv ==
    ASSUME OnceInv, NEW k \in Keys, Restored(k)
    PROVE  OnceInv'
<1> DEFINE s == [seen EXCEPT ![k] = exp[k]]
           base == IF "db" \in lost[k] THEN lost[k] ELSE {}
<1>0. /\ OnceTypeOK /\ CopyInv /\ now \in Nat /\ UNCHANGED <<now, store, until>>
      /\ base \in SUBSET {"mem", "db"} /\ Losses(k, base, s) /\ reply' = <<k, FALSE>>
  BY OnceAssumption DEF OnceInv, Restored, OnceTypeOK
<1>1. s \in [Keys -> Nat] /\ MemGc(s)
  BY <1>0 DEF OnceTypeOK, Restored
<1>2. /\ seen' \in [Keys -> Nat] /\ memGc' \in 0 .. now
      /\ \A j \in Keys : /\ seen'[j] <= s[j]
                         /\ j \in Live(s) \ Crowded(s, s, MemMax) => seen'[j] = s[j]
  BY <1>0, <1>1, MemKeeps
<1>3. /\ exp' \in [Keys -> Nat]
      /\ \A j \in Keys : /\ exp'[j] <= exp[j]
                         /\ j \in Live(exp) \ Crowded(exp, ts, DbMax) => exp'[j] = exp[j]
  <2> PICK e \in DbGc(exp) : exp' = e
    BY DEF Restored
  <2> QED BY <1>0, DbKeeps DEF OnceTypeOK
<1>4. /\ lost' \in [Keys -> SUBSET {"mem", "db"}]
      /\ \A j \in Keys :
            /\ (IF j = k THEN base ELSE lost[j]) \subseteq lost'[j]
            /\ j \in Crowded(s, s, MemMax) => "mem" \in lost'[j]
            /\ j \in Crowded(exp, ts, DbMax) => "db" \in lost'[j]
  BY <1>0, LossesKept
<1>5. /\ until[k] \in Nat /\ exp[k] \in Nat /\ exp[k] > now /\ exp[k] <= until[k]
      /\ until[k] > now
  BY <1>0 DEF Restored, InTable, Live, OnceTypeOK, CopyInv
<1>6. OnceTypeOK'
  <2>1. ts' \in [Keys -> Nat]
    BY <1>0 DEF Restored, Only, OnceTypeOK
  <2>2. dbGc' \in 0 .. now
    BY <1>0 DEF Restored, LookupTime, OnceTypeOK
  <2> QED BY <1>0, <1>2, <1>3, <1>4, <2>1, <2>2 DEF OnceTypeOK
<1>7. CopyInv'
  <2> SUFFICES ASSUME NEW j \in Keys
               PROVE  /\ seen'[j] <= until[j] /\ exp'[j] <= until[j] /\ until[j] <= now + Ttl[j]
                      /\ until[j] > now => /\ "mem" \notin lost'[j] => seen'[j] = until[j]
                                           /\ "db" \notin lost'[j] => exp'[j] = until[j]
    BY <1>0 DEF CopyInv
  <2>1. /\ seen[j] \in Nat /\ exp[j] \in Nat /\ until[j] \in Nat /\ seen'[j] \in Nat
        /\ exp'[j] \in Nat /\ s[j] \in Nat
        /\ seen[j] <= until[j] /\ exp[j] <= until[j] /\ s[j] <= until[j]
    BY <1>0, <1>1, <1>2, <1>3 DEF OnceTypeOK, CopyInv
  <2>2. seen'[j] <= until[j] /\ exp'[j] <= until[j] /\ until[j] <= now + Ttl[j]
    BY <2>1, <1>2, <1>3, <1>0 DEF CopyInv
  <2>3. ASSUME until[j] > now, "db" \notin lost'[j]
        PROVE  exp'[j] = until[j]
    <3>1. "db" \notin lost[j]
      BY <2>3, <1>4
    <3>2. exp[j] = until[j]
      BY <3>1, <2>3, <1>0 DEF CopyInv
    <3> QED BY <3>2, <2>3, <1>3, <1>4 DEF Live
  <2>4. ASSUME until[j] > now, "mem" \notin lost'[j]
        PROVE  seen'[j] = until[j]
    <3>1. s[j] = until[j]
      <4>1. CASE j # k
        BY <4>1, <2>4, <1>0, <1>4 DEF CopyInv, OnceTypeOK
      <4>2. CASE j = k
        <5>1. "db" \notin lost[k] \/ "mem" \notin lost[k]
          BY <4>2, <2>4, <1>4
        <5>2. CASE "db" \notin lost[k]
          BY <5>2, <4>2, <2>4, <1>0 DEF CopyInv, OnceTypeOK
        <5>3. CASE "mem" \notin lost[k]
          BY <5>3, <4>2, <2>4, <1>0 DEF CopyInv, OnceTypeOK, Restored, Live
        <5> QED BY <5>1, <5>2, <5>3
      <4> QED BY <4>1, <4>2
    <3> QED BY <3>1, <2>4, <1>2, <1>4 DEF Live
  <2> QED BY <2>2, <2>3, <2>4
<1>8. NoFalseSkip'
  BY <1>0, <1>5 DEF NoFalseSkip
<1> QED BY <1>6, <1>7, <1>8 DEF OnceInv

LEMMA FirstInv ==
    ASSUME OnceInv, NEW k \in Keys, First(k)
    PROVE  OnceInv'
<1> DEFINE s == [seen EXCEPT ![k] = now + Ttl[k]]
           base == IF store = "up" THEN {} ELSE {"db"}
<1>0. /\ OnceTypeOK /\ CopyInv /\ now \in Nat /\ UNCHANGED <<now, store>> /\ Ttl[k] \in Nat \ {0}
      /\ until' = [until EXCEPT ![k] = now + Ttl[k]] /\ until' \in [Keys -> Nat]
      /\ base \in SUBSET {"mem", "db"} /\ Losses(k, base, s) /\ reply' = <<k, TRUE>>
  <2>1. OnceTypeOK /\ CopyInv /\ now \in Nat /\ Ttl[k] \in Nat \ {0}
    BY OnceAssumption DEF OnceInv, OnceTypeOK
  <2>2. /\ UNCHANGED <<now, store>> /\ until' = [until EXCEPT ![k] = now + Ttl[k]]
        /\ reply' = <<k, TRUE>> /\ Losses(k, base, s)
    BY DEF First
  <2>3. until' \in [Keys -> Nat]
    BY <2>1, <2>2 DEF OnceTypeOK
  <2> QED BY <2>1, <2>2, <2>3
<1>1. s \in [Keys -> Nat] /\ MemGc(s)
  BY <1>0 DEF OnceTypeOK, First
<1>2. /\ seen' \in [Keys -> Nat] /\ memGc' \in 0 .. now
      /\ \A j \in Keys : /\ seen'[j] <= s[j]
                         /\ j \in Live(s) \ Crowded(s, s, MemMax) => seen'[j] = s[j]
  BY <1>0, <1>1, MemKeeps
<1> PICK e \in DbGc(AfterLookup(k)) : exp' = Saved(k, e)
  BY DEF First
<1>3. /\ e \in [Keys -> Nat]
      /\ \A j \in Keys : /\ e[j] <= AfterLookup(k)[j]
                         /\ j \in Live(exp) \ Crowded(exp, ts, DbMax) => e[j] = AfterLookup(k)[j]
  BY <1>0, DbKeeps, LookupKeeps
<1>4. /\ exp' \in [Keys -> Nat]
      /\ \A j \in Keys : j # k => /\ exp'[j] <= exp[j]
                                  /\ j \in Live(exp) \ Crowded(exp, ts, DbMax) => exp'[j] = exp[j]
      /\ store = "up" => exp'[k] = now + Ttl[k]
      /\ store # "up" => exp'[k] <= exp[k]
  <2>1. \A j \in Keys : /\ AfterLookup(k)[j] <= exp[j] /\ AfterLookup(k)[j] \in Nat
                        /\ j \in Live(exp) => AfterLookup(k)[j] = exp[j]
    BY <1>0, LookupKeeps
  <2>2. exp' = IF store = "up" THEN [e EXCEPT ![k] = now + Ttl[k]] ELSE e
    BY DEF Saved
  <2>3. \A j \in Keys : exp[j] \in Nat /\ e[j] \in Nat
    BY <1>0, <1>3 DEF OnceTypeOK
  <2>4. exp' \in [Keys -> Nat] /\ (store = "up" => exp'[k] = now + Ttl[k])
    BY <2>2, <1>3, <1>0
  <2>5. \A j \in Keys : e[j] <= exp[j]
    BY <2>1, <2>3, <1>3
  <2>6. \A j \in Keys : j # k => exp'[j] = e[j]
    BY <2>2, <1>3
  <2>7. store # "up" => exp'[k] = e[k]
    BY <2>2
  <2> QED BY <1>3, <2>1, <2>4, <2>5, <2>6, <2>7
<1>5. /\ lost' \in [Keys -> SUBSET {"mem", "db"}]
      /\ \A j \in Keys :
            /\ (IF j = k THEN base ELSE lost[j]) \subseteq lost'[j]
            /\ j \in Crowded(s, s, MemMax) => "mem" \in lost'[j]
            /\ j \in Crowded(exp, ts, DbMax) => "db" \in lost'[j]
  <2>1. OnceTypeOK /\ base \in SUBSET {"mem", "db"} /\ Losses(k, base, s)
    BY <1>0
  <2> HIDE DEF base, s
  <2> QED BY <2>1, LossesKept
<1>6. OnceTypeOK'
  <2>1. ts' \in [Keys -> Nat]
    BY <1>0 DEF First, OnceTypeOK
  <2>2. dbGc' \in 0 .. now
    BY <1>0 DEF First, LookupTime, OnceTypeOK
  <2> QED BY <1>0, <1>2, <1>4, <1>5, <2>1, <2>2 DEF OnceTypeOK
<1>7. ASSUME NEW j \in Keys
      PROVE  /\ seen'[j] <= until'[j] /\ exp'[j] <= until'[j] /\ until'[j] <= now + Ttl[j]
             /\ until'[j] > now => /\ "mem" \notin lost'[j] => seen'[j] = until'[j]
                                   /\ "db" \notin lost'[j] => exp'[j] = until'[j]
  <2>1. /\ seen[j] \in Nat /\ exp[j] \in Nat /\ until[j] \in Nat /\ seen'[j] \in Nat
        /\ exp'[j] \in Nat /\ s[j] \in Nat /\ until'[j] \in Nat
        /\ Ttl[j] \in Nat /\ until[j] <= now + Ttl[j]
        /\ seen[j] <= until[j] /\ exp[j] <= until[j]
    BY <1>0, <1>1, <1>2, <1>4, OnceAssumption DEF OnceTypeOK, CopyInv
  <2>2. CASE j = k
    <3>1. until'[k] = now + Ttl[k] /\ s[k] = now + Ttl[k] /\ s[k] > now
      BY <1>0 DEF OnceTypeOK
    <3>2. seen'[k] <= until'[k] /\ ("mem" \notin lost'[k] => seen'[k] = until'[k])
      BY <3>1, <1>2, <1>5 DEF Live
    <3>3. store = "up" => exp'[k] = until'[k]
      BY <3>1, <1>4
    <3>4. store # "up" => "db" \in lost'[k]
      BY <1>5
    <3>5. store # "up" => exp'[k] <= until'[k]
      <4> SUFFICES ASSUME store # "up" PROVE exp'[k] <= until'[k]
        OBVIOUS
      <4>1. exp'[k] <= exp[k]
        BY <1>4
      <4> QED BY <4>1, <3>1, <2>1, <2>2, <1>0
    <3>6. exp'[k] <= until'[k]
      BY <3>3, <3>5, <2>1, <2>2
    <3> QED BY <2>2, <3>1, <3>2, <3>3, <3>4, <3>6, <2>1
  <2>3. CASE j # k
    <3>1. until'[j] = until[j] /\ s[j] = seen[j] /\ lost[j] \subseteq lost'[j]
      BY <2>3, <1>0, <1>5 DEF OnceTypeOK
    <3>2. seen'[j] <= until'[j] /\ exp'[j] <= until'[j]
      BY <3>1, <2>1, <2>3, <1>2, <1>4
    <3>3. ASSUME until[j] > now, "mem" \notin lost'[j]
          PROVE  seen'[j] = until[j]
      <4>1. s[j] = until[j]
        BY <3>3, <3>1, <1>0 DEF CopyInv
      <4> QED BY <4>1, <3>3, <1>2, <1>5 DEF Live
    <3>4. ASSUME until[j] > now, "db" \notin lost'[j]
          PROVE  exp'[j] = until[j]
      <4>1. exp[j] = until[j]
        BY <3>4, <3>1, <1>0 DEF CopyInv
      <4>2. j \in Live(exp) \ Crowded(exp, ts, DbMax)
        BY <4>1, <3>4, <1>5 DEF Live
      <4>3. j \in Live(exp) \ Crowded(exp, ts, DbMax) => exp'[j] = exp[j]
        BY <2>3, <1>4
      <4> QED BY <4>1, <4>2, <4>3
    <3> QED BY <2>1, <3>1, <3>2, <3>3, <3>4
  <2> QED BY <2>2, <2>3
<1>8. CopyInv'
  BY <1>7, <1>0 DEF CopyInv
<1>9. NoFalseSkip'
  BY <1>0 DEF NoFalseSkip
<1> QED BY <1>6, <1>8, <1>9 DEF OnceInv

LEMMA ForgetInv ==
    ASSUME OnceInv, purge_memory \/ Restart \/ Redeploy
    PROVE  OnceInv'
<1>0. /\ OnceTypeOK /\ CopyInv /\ now \in Nat /\ UNCHANGED <<now, until>> /\ reply' = NoCall
      /\ seen' = [k \in Keys |-> 0] /\ memGc' = 0
      /\ dbGc' \in {0, dbGc} /\ store' \in {store, "up"}
  BY OnceAssumption DEF OnceInv, OnceTypeOK, purge_memory, Restart, Redeploy
<1>1. /\ lost' \in [Keys -> SUBSET {"mem", "db"}]
      /\ \A k \in Keys : lost[k] \subseteq lost'[k] /\ "mem" \in lost'[k]
  BY <1>0 DEF purge_memory, Restart, Redeploy, LoseAll, OnceTypeOK
<1>2. \/ exp' = exp /\ ts' = ts
      \/ /\ exp' = [k \in Keys |-> 0] /\ ts' = [k \in Keys |-> 0]
         /\ \A k \in Keys : "db" \in lost'[k]
  BY <1>0 DEF purge_memory, Restart, Redeploy, LoseAll, OnceTypeOK
<1>3. OnceTypeOK'
  BY <1>0, <1>1, <1>2 DEF OnceTypeOK
<1>4. CopyInv'
  BY <1>0, <1>1, <1>2 DEF CopyInv, OnceTypeOK
<1>5. NoFalseSkip'
  BY <1>0, NoneIsNoReply DEF NoFalseSkip
<1> QED BY <1>3, <1>4, <1>5 DEF OnceInv

LEMMA OtherInv ==
    ASSUME OnceInv, StoreChanges \/ Second
    PROVE  OnceInv'
<1>0. /\ OnceTypeOK /\ CopyInv /\ now \in Nat /\ now' \in Nat /\ now' >= now
      /\ UNCHANGED <<seen, memGc, exp, ts, dbGc, until, lost>> /\ reply' = NoCall
  BY OnceAssumption DEF OnceInv, OnceTypeOK, StoreChanges, Second
<1>1. OnceTypeOK'
  BY <1>0, OnceAssumption DEF OnceTypeOK, StoreChanges, Second
<1>2. CopyInv'
  <2> SUFFICES ASSUME NEW k \in Keys
               PROVE  /\ seen[k] <= until[k] /\ exp[k] <= until[k] /\ until[k] <= now' + Ttl[k]
                      /\ until[k] > now' => /\ "mem" \notin lost[k] => seen[k] = until[k]
                                            /\ "db" \notin lost[k] => exp[k] = until[k]
    BY <1>0 DEF CopyInv
  <2>1. until[k] \in Nat /\ Ttl[k] \in Nat
    BY <1>0, OnceAssumption DEF OnceTypeOK
  <2>2. until[k] > now' => until[k] > now
    BY <2>1, <1>0
  <2> QED BY <2>1, <2>2, <1>0 DEF CopyInv
<1>3. NoFalseSkip'
  BY <1>0, NoneIsNoReply DEF NoFalseSkip
<1> QED BY <1>1, <1>2, <1>3 DEF OnceInv

LEMMA OnceStepInv == OnceInv /\ [OnceNext]_onceVars => OnceInv'
<1> SUFFICES ASSUME OnceInv, [OnceNext]_onceVars PROVE OnceInv'
  OBVIOUS
<1>1. CASE \E k \in Keys : once_sync(k)
  BY <1>1, RememberedInv, RestoredInv, FirstInv DEF once_sync
<1>2. CASE purge_memory \/ Restart \/ Redeploy
  BY <1>2, ForgetInv
<1>3. CASE StoreChanges \/ Second
  BY <1>3, OtherInv
<1>4. CASE UNCHANGED onceVars
  BY <1>4 DEF onceVars, OnceInv, OnceTypeOK, CopyInv, NoFalseSkip
<1> QED BY <1>1, <1>2, <1>3, <1>4 DEF OnceNext

\* Types, for any keys, times to live, caps and intervals.
THEOREM OnceTypeCorrect == OnceSpec => []OnceTypeOK
<1>1. OnceInv => OnceTypeOK
  BY DEF OnceInv
<1> QED BY <1>1, OnceInitInv, OnceStepInv, PTL DEF OnceSpec

\* once_sync never suppresses a key whose time to live is over.
THEOREM NeverSkipsWrongly == OnceSpec => []NoFalseSkip
<1>1. OnceInv => NoFalseSkip
  BY DEF OnceInv
<1> QED BY <1>1, OnceInitInv, OnceStepInv, PTL DEF OnceSpec

\* once_sync grants a key twice within its time to live only when both copies of the
\* first grant were lost (or the table cannot be read).
THEOREM TwoCopies == OnceSpec => OneLossIsSafe
<1>1. ASSUME OnceInv, [OnceNext]_onceVars
      PROVE  [\A k \in Keys : reply' = <<k, TRUE>> /\ until[k] > now =>
                 "mem" \in lost[k] /\ ("db" \in lost[k] \/ store = "down")]_onceVars
  <2> SUFFICES ASSUME OnceNext, NEW k \in Keys, reply' = <<k, TRUE>>, until[k] > now
               PROVE  "mem" \in lost[k] /\ ("db" \in lost[k] \/ store = "down")
    BY <1>1
  <2>1. First(k)
    <3>1. CASE \E j \in Keys : once_sync(j)
      BY <3>1 DEF once_sync, Remembered, Restored, First
    <3>2. CASE purge_memory \/ Restart \/ Redeploy \/ StoreChanges \/ Second
      <4>1. reply' = NoCall
        BY <3>2 DEF purge_memory, Restart, Redeploy, StoreChanges, Second
      <4> QED BY <4>1, NoneIsNoReply
    <3> QED BY <3>1, <3>2 DEF OnceNext
  <2>2. /\ ~(seen[k] > now) /\ (store = "down" \/ ~(exp[k] > now))
    BY <2>1 DEF First, InTable, Live
  <2>3. CopyInv
    BY <1>1 DEF OnceInv
  <2> QED BY <2>2, <2>3 DEF CopyInv
<1> QED BY <1>1, OnceInitInv, OnceStepInv, PTL DEF OnceSpec, OneLossIsSafe
=============================================================================
