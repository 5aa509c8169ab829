----------------------------- MODULE Lpg_proofs -----------------------------
(***************************************************************************)
(* Theorems of the Lucky Pull guard.  Of LpgGuard for any handlers,        *)
(* messages, keys, permits and durations: the gate in front of OCR         *)
(* requests, and the single deletion of a message.  Of LpgMemory for any   *)
(* posts, images, threads and faults: what is unlearned is left alone, and *)
(* the memory acts on what it is sure of.  The two specifications share no *)
(* variable; each theorem is about one of them.                            *)
(***************************************************************************)
EXTENDS LpgGuard, LpgMemory, SequenceTheorems, FiniteSetTheorems, TLAPS

-----------------------------------------------------------------------------
\* The thread bridge (LpgGuard).

Active(t) == pc[t] \notin {"new", "end"}

\* The handlers at work have granted messages of their own, and what they have not
\* deleted was not deleted before.
OwnInv ==
    /\ \A t \in Handlers : Active(t) => msg[t] \in granted
    /\ \A t, u \in Handlers : Active(t) /\ Active(u) /\ msg[t] = msg[u] => t = u
    /\ \A m \in Msgs : m \notin granted => acted[m] = 0
    /\ \A t \in Handlers : Active(t) /\ pc[t] # "notice" => acted[msg[t]] = 0

OnceInv == TypeOK /\ OwnInv /\ ActedOnce

-----------------------------------------------------------------------------
LEMMA TypeInit == Init => TypeOK
<1> SUFFICES ASSUME Init PROVE TypeOK
  OBVIOUS
<1>1. mixed \in BOOLEAN
  BY DEF Init
<1> QED BY <1>1, ConstAssumption DEF Init, TypeOK

LEMMA TypeStep == TypeOK /\ [Next]_vars => TypeOK'
<1> SUFFICES ASSUME TypeOK, [Next]_vars PROVE TypeOK'
  OBVIOUS
<1> USE ConstAssumption DEF TypeOK, OcrPcs, Goto
<1>1. ASSUME NEW t \in Handlers, NEW m \in Msgs, Deliver(t, m)
      PROVE  TypeOK'
  BY <1>1 DEF Deliver, ocr, cls, hist
<1>2. ASSUME NEW t \in Handlers, Read(t)
      PROVE  TypeOK'
  BY <1>2 DEF Read, ocr, cls, hist
<1>3. ASSUME NEW t \in Handlers, Acquire(t)
      PROVE  TypeOK'
  BY <1>3 DEF Acquire, cls, hist
<1>4. ASSUME NEW t \in Handlers, EnterLock(t)
      PROVE  TypeOK'
  BY <1>4 DEF EnterLock, Spacing, cls, hist
<1>5. ASSUME NEW t \in Handlers, Ask(t)
      PROVE  TypeOK'
  BY <1>5 DEF Ask, cls, hist
<1>6. ASSUME NEW t \in Handlers, NoVeto(t)
      PROVE  TypeOK'
  BY <1>6 DEF NoVeto, Release, AfterOcr, cls, hist
<1>7. ASSUME NEW t \in Handlers, Veto(t)
      PROVE  TypeOK'
  BY <1>7 DEF Veto, Release, cls, hist
<1>8. ASSUME NEW t \in Handlers, NextKey(t)
      PROVE  TypeOK'
  BY <1>8 DEF NextKey, Release, AfterOcr, MoreKeys, cls, hist
<1>9. ASSUME NEW t \in Handlers, Classify(t) \/ Answer(t) \/ Retry(t)
      PROVE  TypeOK'
  <2>1. mixed' \in BOOLEAN
    BY <1>9, Zenon DEF Classify, Classifying, Answer, Retry
  <2> QED BY <1>9, <2>1 DEF Classify, Classifying, Answer, Retry, Restored, ocr, hist
<1>10. ASSUME NEW t \in Handlers, Post(t) \/ Notice(t)
       PROVE  TypeOK'
  BY <1>10 DEF Post, Notice, ocr, cls, hist
<1>11. ASSUME NEW t \in Handlers, Delete(t)
       PROVE  TypeOK'
  <2>0. acted' = [acted EXCEPT ![msg[t]] = acted[msg[t]] + 1]
    BY <1>11 DEF Delete
  <2>1. acted' \in [Msgs -> Nat]
    <3>1. acted \in [Msgs -> Nat]
      OBVIOUS
    <3>2. CASE msg[t] \in Msgs
      BY <2>0, <3>1, <3>2
    <3>3. CASE msg[t] \notin Msgs
      BY <2>0, <3>1, <3>3
    <3> QED BY <3>2, <3>3
  <2>2. pc' = [pc EXCEPT ![t] = "notice"] /\ UNCHANGED <<ocrWhen, granted, msg, ocr, cls, crashes>>
    BY <1>11 DEF Delete
  <2> QED BY <2>1, <2>2 DEF ocr, cls
<1>12. CASE Restart
  <2>1. mixed' \in BOOLEAN
    BY <1>12 DEF Restart
  <2> QED BY <1>12, <2>1 DEF Restart
<1>13. CASE Tick
  BY <1>13 DEF Tick, Less, cls, hist
<1>14. CASE UNCHANGED vars
  BY <1>14 DEF vars, ocr, cls, hist
<1> QED BY <1>1, <1>2, <1>3, <1>4, <1>5, <1>6, <1>7, <1>8, <1>9, <1>10, <1>11, <1>12,
           <1>13, <1>14 DEF Next, Step

\* Types, for any handlers, messages, keys and durations.
THEOREM TypeCorrect == Spec => []TypeOK
BY TypeInit, TypeStep, PTL DEF Spec

-----------------------------------------------------------------------------
LEMMA OnceStep == OnceInv /\ [Next]_vars => OnceInv'
<1> SUFFICES ASSUME OnceInv, [Next]_vars PROVE OnceInv'
  OBVIOUS
<1>t. TypeOK /\ TypeOK'
  BY TypeStep DEF OnceInv
<1> USE DEF OnceInv, OwnInv, ActedOnce, Active, Goto
<1>1. ASSUME NEW t \in Handlers, NEW m \in Msgs, Deliver(t, m)
      PROVE  OwnInv' /\ ActedOnce'
  <2>1. CASE Fresh(m)
    <3>1. /\ pc' = [pc EXCEPT ![t] = "read"] /\ msg' = [msg EXCEPT ![t] = m]
          /\ granted' = granted \union {m} /\ UNCHANGED acted /\ m \notin granted
      BY <1>1, <2>1 DEF Deliver, Fresh, hist
    <3>2. acted[m] = 0
      BY <3>1
    <3> QED BY <3>1, <3>2, <1>t DEF TypeOK
  <2>2. CASE ~Fresh(m)
    <3>1. /\ pc' = [pc EXCEPT ![t] = "end"] /\ msg' = [msg EXCEPT ![t] = m]
          /\ granted' = granted /\ UNCHANGED acted
      BY <1>1, <2>2 DEF Deliver, Fresh, hist
    <3> QED BY <3>1, <1>t DEF TypeOK
  <2> QED BY <2>1, <2>2
<1>2. ASSUME NEW t \in Handlers, Delete(t)
      PROVE  OwnInv' /\ ActedOnce'
  <2>1. /\ pc[t] = "delete" /\ pc' = [pc EXCEPT ![t] = "notice"]
        /\ acted' = [acted EXCEPT ![msg[t]] = @ + 1] /\ UNCHANGED <<granted, msg>>
    BY <1>2 DEF Delete
  <2>2. msg[t] \in granted /\ msg[t] \in Msgs /\ acted[msg[t]] = 0
    BY <2>1, <1>t DEF TypeOK
  <2> QED BY <2>1, <2>2, <1>t DEF TypeOK
<1>3. ASSUME NEW t \in Handlers,
             \/ Read(t) \/ Acquire(t) \/ EnterLock(t) \/ Ask(t) \/ NoVeto(t) \/ Veto(t)
             \/ NextKey(t) \/ Classify(t) \/ Answer(t) \/ Retry(t) \/ Post(t) \/ Notice(t)
      PROVE  OwnInv' /\ ActedOnce'
  <2>1. UNCHANGED <<granted, msg, acted>> /\ Active(t)
    BY <1>3 DEF Read, Acquire, EnterLock, Ask, NoVeto, Veto, NextKey, Classify, Classifying, Answer,
       Retry, Post, Notice, hist
  <2>2. \A u \in Handlers : u # t => pc'[u] = pc[u]
    BY <1>3, <1>t DEF Read, Acquire, EnterLock, Ask, NoVeto, Veto, NextKey, Classify, Classifying, Answer,
       Retry, Post, Notice, TypeOK
  <2>3. pc'[t] = "end" \/ (pc[t] # "notice" /\ pc'[t] # "notice" /\ pc'[t] # "new")
    BY <1>3, <1>t DEF Read, Acquire, EnterLock, Ask, NoVeto, Veto, NextKey, Classify, Classifying, Answer,
       Retry, Post, Notice, AfterOcr, TypeOK
  <2>4. \A u \in Handlers : Active(u)' => Active(u)
    BY <2>1, <2>2
  <2>5. \A u \in Handlers : Active(u)' /\ pc'[u] # "notice" => pc[u] # "notice"
    BY <2>2, <2>3
  <2> QED BY <2>1, <2>4, <2>5, <1>t DEF TypeOK
<1>4. CASE Restart
  BY <1>4, <1>t DEF Restart, TypeOK
<1>5. CASE Tick \/ UNCHANGED vars
  <2>1. UNCHANGED <<pc, granted, msg, acted>>
    BY <1>5 DEF Tick, vars, hist
  <2> QED BY <2>1, <1>t
<1> QED BY <1>t, <1>1, <1>2, <1>3, <1>4, <1>5 DEF Next, Step

\* A message is deleted and announced at most once, whatever is delivered again and
\* whenever the process restarts.
THEOREM SingleAction == Spec => []ActedOnce
<1>1. Init => OnceInv
  BY TypeInit DEF Init, OnceInv, OwnInv, ActedOnce, Active
<1>2. OnceInv => ActedOnce
  BY DEF OnceInv
<1> QED BY <1>1, <1>2, OnceStep, PTL DEF Spec

-----------------------------------------------------------------------------
\* A handler is in the gate or waits for an answer exactly while it has a permit; there are
\* MaxConc permits, and one handler at a time is past the lock.
SemInv ==
    /\ holders = {t \in Handlers : pc[t] \in OcrPcs}
    /\ Cardinality(holders) <= MaxConc
    /\ \A t \in Handlers : pc[t] = "space" <=> lock = t

\* The handlers that looked for a cooldown before the last 429 came.
Stale == {t \in Handlers : pc[t] = "space" \/ (pc[t] = "cool" /\ timer[t] < cool)}

\* In a cooldown those, and the ones that went out meanwhile, are fewer than the permits;
\* who is past the lock sleeps out the interval.
GateInv ==
    /\ cool > 0 => late + Cardinality(Stale) < MaxConc
    /\ \A t \in Handlers : pc[t] = "space" => timer[t] + since >= Interval

ConcInv == TypeOK /\ SemInv /\ GateInv

LEMMA GateInit == Init => SemInv /\ GateInv
<1> SUFFICES ASSUME Init PROVE SemInv /\ GateInv
  OBVIOUS
<1>1. Cardinality(holders) = 0
  BY FS_EmptySet DEF Init
<1> QED BY <1>1, ConstAssumption DEF Init, SemInv, GateInv, OcrPcs

\* Counting: the sets of handlers are finite, and those that wait in vain have permits.
LEMMA Finite ==
    ASSUME NEW S, S \subseteq Handlers
    PROVE  IsFiniteSet(S) /\ Cardinality(S) \in Nat
BY ConstAssumption, FS_Subset, FS_CardinalityType

LEMMA StaleHold == TypeOK /\ SemInv => Stale \subseteq holders
BY DEF SemInv, Stale, OcrPcs

\* A step that lets nobody become stale, and sends nothing, keeps the count.
LEMMA StaleShrinks ==
    ASSUME TypeOK, TypeOK', GateInv, Stale' \subseteq Stale, late' <= late, cool' > 0 => cool > 0
    PROVE  cool' > 0 => late' + Cardinality(Stale') < MaxConc
<1>1. Stale \subseteq Handlers
  BY DEF Stale
<1>2. /\ Cardinality(Stale') <= Cardinality(Stale)
      /\ Cardinality(Stale) \in Nat /\ Cardinality(Stale') \in Nat
  BY <1>1, Finite, FS_Subset
<1> QED BY <1>2, ConstAssumption DEF GateInv, TypeOK

LEMMA GateStep ==
    ASSUME ConcInv, [Next]_vars
    PROVE  ConcInv'
<1>t. TypeOK /\ TypeOK'
  BY TypeStep DEF ConcInv
<1>c. /\ cool \in Nat /\ late \in Nat /\ since \in 0 .. Interval /\ timer \in [Handlers -> Nat]
      /\ Interval \in Nat /\ MaxConc \in Nat \ {0} /\ None \notin Handlers
      /\ holders \subseteq Handlers
      /\ pc \in [Handlers -> OcrPcs \union {"new", "end", "read", "ocr", "classify", "try1",
                                          "try2", "post", "delete", "notice"}]
  BY <1>t, ConstAssumption DEF TypeOK
<1>s. SemInv /\ GateInv /\ Stale \subseteq holders
  BY StaleHold DEF ConcInv
<1>1. ASSUME NEW t \in Handlers, Acquire(t)
      PROVE  SemInv' /\ GateInv'
  <2>1. /\ pc[t] = "ocr" /\ pc' = [pc EXCEPT ![t] = "cool"]
        /\ timer' = [timer EXCEPT ![t] = cool] /\ holders' = holders \union {t}
        /\ Cardinality(holders) < MaxConc /\ UNCHANGED <<lock, since, cool, late>>
    BY <1>1 DEF Acquire, Goto
  <2>2. Cardinality(holders') = Cardinality(holders) + 1
    <3>1. t \notin holders
      BY <2>1, <1>s DEF SemInv, OcrPcs
    <3>2. IsFiniteSet(holders)
      BY <1>c, Finite
    <3> QED BY <2>1, <3>1, <3>2, FS_AddElement
  <2>3. SemInv'
    BY <2>1, <2>2, <1>s, <1>c, Finite DEF SemInv, OcrPcs
  <2>4. Stale' \subseteq Stale
    BY <2>1, <1>c DEF Stale
  <2> QED BY <2>1, <2>3, <2>4, <1>s, <1>t, <1>c, StaleShrinks DEF GateInv
<1>2. ASSUME NEW t \in Handlers, EnterLock(t)
      PROVE  SemInv' /\ GateInv'
  <2>1. /\ pc[t] = "cool" /\ timer[t] = 0 /\ pc' = [pc EXCEPT ![t] = "space"]
        /\ lock = None /\ lock' = t /\ timer' = [timer EXCEPT ![t] = Interval - since]
        /\ UNCHANGED <<holders, since, cool, late>>
    BY <1>2 DEF EnterLock, Spacing, Goto
  <2>2. SemInv'
    BY <2>1, <1>s, <1>c DEF SemInv, OcrPcs
  <2>3. ASSUME cool > 0 PROVE Stale' \subseteq Stale
    BY <2>1, <2>3, <1>c DEF Stale
  <2>4. \A u \in Handlers : pc'[u] = "space" => timer'[u] + since' >= Interval
    BY <2>1, <1>s, <1>c DEF SemInv
  <2>5. cool' > 0 => late' + Cardinality(Stale') < MaxConc
    BY <2>1, <2>3, <1>s, <1>t, <1>c, StaleShrinks
  <2> QED BY <2>2, <2>4, <2>5 DEF GateInv
<1>3. ASSUME NEW t \in Handlers, Ask(t)
      PROVE  SemInv' /\ GateInv'
  <2>1. /\ pc[t] = "space" /\ pc' = [pc EXCEPT ![t] = "ask"]
        /\ lock' = None /\ late' = IF cool > 0 THEN late + 1 ELSE late
        /\ UNCHANGED <<holders, timer, cool>>
    BY <1>3 DEF Ask, Goto
  <2>2. SemInv'
    BY <2>1, <1>s, <1>c DEF SemInv, OcrPcs
  <2>3. t \in Stale /\ Stale' = Stale \ {t}
    BY <2>1, <1>c DEF Stale
  <2>4. Cardinality(Stale') = Cardinality(Stale) - 1 /\ Cardinality(Stale) \in Nat
    BY <2>3, <1>s, <1>c, Finite, FS_RemoveElement
  <2>5. \A u \in Handlers : pc'[u] # "space"
    BY <2>1, <1>s, <1>c DEF SemInv
  <2> QED BY <2>1, <2>2, <2>4, <2>5, <1>s, <1>c DEF GateInv
<1>4. ASSUME NEW t \in Handlers, NoVeto(t) \/ Veto(t) \/ NextKey(t)
      PROVE  SemInv' /\ GateInv'
  <2>1. /\ pc[t] = "ask" /\ t \in holders /\ holders' = holders \ {t}
        /\ UNCHANGED <<timer, lock, since>>
    BY <1>4, <1>s DEF NoVeto, Veto, NextKey, Release, SemInv, OcrPcs
  <2>2. pc'[t] \notin OcrPcs /\ \A u \in Handlers : u # t => pc'[u] = pc[u]
    BY <1>4, <1>t DEF NoVeto, Veto, NextKey, AfterOcr, Goto, OcrPcs, TypeOK
  <2>3. /\ Cardinality(holders') = Cardinality(holders) - 1
        /\ Cardinality(holders) \in Nat /\ Cardinality(holders') < MaxConc
    BY <2>1, <1>s, <1>c, Finite, FS_RemoveElement DEF SemInv
  <2>4. SemInv'
    BY <2>1, <2>2, <2>3, <1>s, <1>c DEF SemInv, OcrPcs
  <2>5. CASE UNCHANGED <<cool, late>>
    <3>1. Stale' \subseteq Stale
      BY <2>1, <2>2, <2>5 DEF Stale, OcrPcs
    <3> QED BY <2>1, <2>2, <2>4, <2>5, <3>1, <1>s, <1>t, <1>c, StaleShrinks DEF GateInv, OcrPcs
  <2>6. CASE cool' = Cooldown /\ late' = 0
    <3>1. Stale' \subseteq holders'
      BY <2>4, <1>t DEF Stale, SemInv, OcrPcs
    <3>2. Cardinality(Stale') <= Cardinality(holders') /\ Cardinality(Stale') \in Nat
      BY <2>1, <3>1, <1>c, Finite, FS_Subset
    <3> QED BY <2>1, <2>2, <2>3, <2>4, <2>6, <3>2, <1>s, <1>c DEF GateInv, OcrPcs
  <2>7. UNCHANGED <<cool, late>> \/ (cool' = Cooldown /\ late' = 0)
    BY <1>4 DEF NoVeto, Veto, NextKey
  <2> QED BY <2>5, <2>6, <2>7
<1>5. ASSUME NEW t \in Handlers,
             \/ \E m \in Msgs : Deliver(t, m)
             \/ Read(t) \/ Classify(t) \/ Answer(t) \/ Retry(t) \/ Post(t) \/ Delete(t)
             \/ Notice(t)
      PROVE  SemInv' /\ GateInv'
  <2>1. UNCHANGED <<holders, timer, lock, since, cool, late>>
    BY <1>5 DEF Deliver, Read, Classify, Classifying, Answer, Retry, Post, Delete, Notice, ocr
  <2>2. /\ pc[t] \notin OcrPcs /\ pc'[t] \notin OcrPcs
        /\ \A u \in Handlers : u # t => pc'[u] = pc[u]
    BY <1>5, <1>t DEF Deliver, Read, Classify, Classifying, Answer, Retry, Post, Delete, Notice,
       Goto, OcrPcs, TypeOK
  <2>3. SemInv'
    BY <2>1, <2>2, <1>s DEF SemInv, OcrPcs
  <2>4. Stale' = Stale
    BY <2>1, <2>2 DEF Stale, OcrPcs
  <2> QED BY <2>1, <2>2, <2>3, <2>4, <1>s DEF GateInv, OcrPcs
<1>6. CASE Restart
  <2>1. /\ holders' = {} /\ cool' = 0 /\ lock' = None
        /\ \A t \in Handlers : pc'[t] \in {"new", "end"}
    BY <1>6 DEF Restart
  <2>2. Cardinality(holders') = 0
    BY <2>1, FS_EmptySet
  <2>3. \A t \in Handlers : pc'[t] \notin OcrPcs
    BY <2>1 DEF OcrPcs
  <2>4. SemInv'
    BY <2>1, <2>2, <2>3, <1>c DEF SemInv, OcrPcs
  <2>5. GateInv'
    BY <2>1, <2>3 DEF GateInv, OcrPcs
  <2> QED BY <1>t, <2>4, <2>5 DEF ConcInv
<1>7. CASE Tick
  <2>1. /\ UNCHANGED <<pc, holders, lock>> /\ timer' = [t \in Handlers |-> Less(timer[t])]
        /\ cool' = Less(cool) /\ since' = IF since < Interval THEN since + 1 ELSE since
        /\ late' = IF cool' = 0 THEN 0 ELSE late
    BY <1>7 DEF Tick
  <2>2. Stale' \subseteq Stale
    BY <2>1, <1>c DEF Less, Stale
  <2>3. \A t \in Handlers : pc[t] = "space" => timer'[t] + since' >= Interval
    BY <2>1, <1>s, <1>c DEF Less, GateInv
  <2>4. late' <= late /\ (cool' > 0 => cool > 0)
    BY <2>1, <1>c DEF Less
  <2>5. cool' > 0 => late' + Cardinality(Stale') < MaxConc
    BY <2>2, <2>4, <1>s, <1>t, StaleShrinks
  <2>6. SemInv'
    <3>1. pc' = pc /\ holders' = holders /\ lock' = lock
      BY <2>1
    <3> QED BY <3>1, <1>s DEF SemInv
  <2>7. GateInv'
    <3>1. pc' = pc
      BY <2>1
    <3> QED BY <3>1, <2>3, <2>5 DEF GateInv
  <2> QED BY <1>t, <2>6, <2>7 DEF ConcInv
<1>8. CASE UNCHANGED vars
  <2>1. UNCHANGED <<pc, holders, timer, lock, since, cool, late>>
    BY <1>8 DEF vars, ocr
  <2>2. Stale' = Stale
    BY <2>1 DEF Stale
  <2>3. SemInv'
    BY <2>1, <1>s DEF SemInv
  <2>4. GateInv'
    BY <2>1, <2>2, <1>s DEF GateInv
  <2> QED BY <1>t, <2>3, <2>4 DEF ConcInv
<1> QED BY <1>t, <1>1, <1>2, <1>3, <1>4, <1>5, <1>6, <1>7, <1>8 DEF Next, Step, ConcInv

\* For any number of handlers, keys and permits and any durations: OCR requests are an
\* interval apart, and after a 429 fewer go out in its cooldown than there are permits.
THEOREM PermitsBoundRequests == Spec => Gated
<1>1. Init => ConcInv
  BY TypeInit, GateInit DEF ConcInv
<1>2. ConcInv /\ [Next]_vars => ConcInv'
  BY GateStep
<1>3. ASSUME ConcInv, [Next]_vars
      PROVE  [\A t \in Handlers : pc[t] # "ask" /\ pc'[t] = "ask" =>
                 since = Interval /\ (cool > 0 => late' < MaxConc)]_vars
  <2> SUFFICES ASSUME Next, NEW t \in Handlers, pc[t] # "ask", pc'[t] = "ask"
               PROVE  since = Interval /\ (cool > 0 => late' < MaxConc)
    BY <1>3
  <2>1. TypeOK /\ GateInv
    BY <1>3 DEF ConcInv
  <2>2. Ask(t)
    <3>1. ASSUME NEW u \in Handlers,
                 \/ \E m \in Msgs : Deliver(u, m)
                 \/ Read(u) \/ Acquire(u) \/ EnterLock(u) \/ NoVeto(u) \/ Veto(u) \/ NextKey(u)
                 \/ Classify(u) \/ Answer(u) \/ Retry(u) \/ Post(u) \/ Delete(u) \/ Notice(u)
          PROVE  FALSE
      BY <3>1, <2>1 DEF Deliver, Read, Acquire, EnterLock, NoVeto, Veto, NextKey, Classify,
         Answer, Retry, Post, Delete, Notice, AfterOcr, Goto, TypeOK
    <3>2. ASSUME NEW u \in Handlers, Ask(u)
          PROVE  u = t
      BY <3>2, <2>1 DEF Ask, Goto, TypeOK
    <3>3. ~Restart /\ ~Tick
      BY <2>1 DEF Restart, Tick, TypeOK
    <3> QED BY <3>1, <3>2, <3>3 DEF Next, Step
  <2>3. pc[t] = "space" /\ timer[t] = 0 /\ late' = IF cool > 0 THEN late + 1 ELSE late
    BY <2>2 DEF Ask
  <2>4. since = Interval
    BY <2>1, <2>3, ConstAssumption DEF GateInv, TypeOK
  <2>5. ConcInv'
    BY <1>2, <1>3
  <2>6. cool' = cool /\ late' \in Nat /\ Cardinality(Stale') \in Nat
    BY <2>2, <2>5, Finite DEF Ask, ConcInv, TypeOK, Stale
  <2> QED BY <2>4, <2>5, <2>6, ConstAssumption DEF ConcInv, GateInv
<1> QED BY <1>1, <1>2, <1>3, PTL DEF Spec, Gated
-----------------------------------------------------------------------------
\* EnvRestored is not inductive: the classification that runs alone must have
\* found "base" when it entered _temp_env.
EnvInv ==
    ~mixed =>
        /\ Classifying = {} => env = "base"
        /\ \A t \in Classifying : prev[t] = "base"
        /\ \A t, u \in Classifying : t = u

LEMMA EnvStep == TypeOK /\ EnvInv /\ [Next]_vars => EnvInv'
<1> SUFFICES ASSUME TypeOK, EnvInv, [Next]_vars PROVE EnvInv'
  OBVIOUS
<1>0. pc \in [Handlers -> OcrPcs \union {"new", "end", "read", "ocr", "classify", "try1",
                                        "try2", "post", "delete", "notice"}]
      /\ prev \in [Handlers -> {"base", "first", "second"}]
  BY DEF TypeOK
<1> USE <1>0 DEF EnvInv, Goto, OcrPcs
<1>1. ASSUME NEW t \in Handlers, Classify(t)
      PROVE  EnvInv'
  <2>1. CASE mixed'
    BY <2>1
  <2>2. CASE ~mixed'
    <3>1. ~mixed /\ Classifying = {}
      BY <1>1, <2>2 DEF Classify
    <3>2. Classifying' = {t}
      BY <1>1, <3>1 DEF Classify, Classifying
    <3>3. prev' = [prev EXCEPT ![t] = "base"]
      BY <1>1, <3>1 DEF Classify
    <3> QED BY <3>2, <3>3
  <2> QED BY <2>1, <2>2
<1>2. ASSUME NEW t \in Handlers, Answer(t)
      PROVE  EnvInv'
  <2>1. Classifying' = Classifying \ {t} /\ t \in Classifying
    BY <1>2 DEF Answer, Classifying
  <2>2. UNCHANGED mixed /\ env' = prev[t] /\ prev' = [prev EXCEPT ![t] = "base"]
    BY <1>2 DEF Answer, Restored
  <2> QED BY <2>1, <2>2 DEF Classifying
<1>3. ASSUME NEW t \in Handlers, Retry(t)
      PROVE  EnvInv'
  <2>1. Classifying' = Classifying /\ t \in Classifying
    BY <1>3 DEF Retry, Classifying
  <2>2. UNCHANGED <<prev, mixed>>
    BY <1>3 DEF Retry
  <2> QED BY <2>1, <2>2
<1>4. ASSUME NEW t \in Handlers,
             \/ \E m \in Msgs : Deliver(t, m)
             \/ Read(t) \/ Acquire(t) \/ EnterLock(t) \/ Ask(t) \/ NoVeto(t) \/ Veto(t)
             \/ NextKey(t) \/ Post(t) \/ Delete(t) \/ Notice(t)
      PROVE  EnvInv'
  <2>1. UNCHANGED cls
    BY <1>4 DEF Deliver, Read, Acquire, EnterLock, Ask, NoVeto, Veto, NextKey, Post, Delete, Notice
  <2>2. Classifying' = Classifying
    BY <1>4 DEF Deliver, Read, Acquire, EnterLock, Ask, NoVeto, Veto, NextKey, Post, Delete,
       Notice, AfterOcr, Classifying
  <2> QED BY <2>1, <2>2 DEF cls
<1>5. CASE Restart
  <2>1. Classifying' = {} /\ env' = "base"
    BY <1>5 DEF Restart, Classifying
  <2> QED BY <2>1
<1>6. CASE Tick \/ UNCHANGED vars
  <2>1. UNCHANGED <<pc, env, prev, mixed>>
    BY <1>6 DEF Tick, vars, cls
  <2> QED BY <2>1 DEF Classifying
<1> QED BY <1>1, <1>2, <1>3, <1>4, <1>5, <1>6 DEF Next, Step

\* While no two classifications have overlapped, every way out of the classification
\* puts the environment back, for any handlers, messages, retries and restarts.
THEOREM EnvPutBack == Spec => []EnvRestored
<1>1. Init => EnvInv
  BY DEF Init, EnvInv, Classifying
<1>2. TypeOK /\ EnvInv /\ [Next]_vars => EnvInv'
  BY EnvStep
<1>3. EnvInv => EnvRestored
  BY DEF EnvInv, EnvRestored
<1> QED BY <1>1, <1>2, <1>3, TypeCorrect, PTL DEF Spec

-----------------------------------------------------------------------------
\* The memory and the denylist (LpgMemory).

\* The worker holds an image while it looks for a thread and writes.
HoldInv ==
    ensure["worker"] \in {"find", "list", "create", "write"} => writing \in Images

\* A post times out twice at most.
RetryInv == \A p \in Posts : at[p] \in {"off", "check", "ask"} => tries[p] \in 0..1

MemTypes == MemTypeOK /\ HoldInv /\ RetryInv

\* What was unlearned, taken in and not lost.
Learned == wished \ (unseen \union lost)

\* It is denied, or can be read in some denylist thread.
KeptInv == \A x \in Learned : x \in deny \/ \E t \in threads : <<t, x>> \in entries

\* After a load that missed nothing it is denied.
LoadedInv == loaded /\ ~partial => Learned \subseteq deny

\* Of a post that came after its image was unlearned, the denylist let pass only what it
\* had not learned.
PassInv ==
    \A p \in Posts :
        /\ p \in after => Image[p] \in wished
        /\ p \in after /\ judged[p] = "full" /\ at[p] \in {"ask", "log", "act"} =>
               Image[p] \in unseen \union lost
        /\ at[p] \in {"log", "act"} => p \in sure
        /\ p \in removed => at[p] = "done"

MemInv == MemTypes /\ KeptInv /\ LoadedInv /\ PassInv /\ StaysDenied /\ OnlySure

\* What the invariant says of the denylist, and of the posts.
DenyPart == KeptInv /\ LoadedInv
PostPart == PassInv /\ StaysDenied /\ OnlySure

-----------------------------------------------------------------------------
LEMMA MemTypesInit == MemInit => MemTypes
<1> SUFFICES ASSUME MemInit PROVE MemTypes
  OBVIOUS
<1> USE MemAssumption
<1>1. queue \in Seq(Images)
  BY EmptySeq DEF MemInit
<1>2. ensure \in [{"ready", "worker"} ->
             {"off", "idle", "find", "list", "create", "load", "write", "done"}] /\ HoldInv
  BY DEF MemInit, NotReady, HoldInv
<1>3. RetryInv
  BY DEF MemInit, RetryInv
<1>4. up \in BOOLEAN /\ loaded \in BOOLEAN /\ partial \in BOOLEAN
  BY DEF MemInit
<1> QED BY <1>1, <1>2, <1>3, <1>4 DEF MemInit, MemTypes, MemTypeOK

\* What a spent fault leaves of the bound.
LEMMA SpendKeeps ==
  ASSUME MemTypeOK, NEW kind, Spend(kind)
  PROVE  faults' \in 0..MaxFaults
BY MemAssumption DEF MemTypeOK, Spend

\* A post's handler, from its arrival on.
LEMMA HandleTypes ==
  ASSUME MemTypes, NEW p \in Posts,
         \/ Arrive(p) /\ UNCHANGED <<up, boots>>
         \/ Handle(p)
  PROVE  MemTypes'
<1> USE MemAssumption DEF MemTypes, MemTypeOK, HoldInv, RetryInv, Await
<1> USE DEF discord, memory, manager, handler, history
<1>1. CASE Arrive(p) /\ UNCHANGED <<up, boots>>
  BY <1>1 DEF Arrive
<1>2. ASSUME Check(p), UNCHANGED <<up, boots>> PROVE MemTypes'
  BY <1>2 DEF Check
<1>3. ASSUME Judge(p), UNCHANGED <<up, boots>> PROVE MemTypes'
  <2>1. cache' \subseteq Images
    BY <1>3 DEF Judge, Cached
  <2>2. sure' \subseteq Posts
    BY <1>3 DEF Judge
  <2>3. /\ at' \in [Posts -> {"off", "check", "ask", "log", "act", "done"}]
        /\ tries' \in [Posts -> 0..2] /\ RetryInv'
    <3>1. CASE Await(p, "log") /\ UNCHANGED tries
      BY <3>1
    <3>2. CASE Await(p, "done") /\ UNCHANGED tries
      BY <3>2
    <3>3. CASE Await(p, AfterTimeout(p)) /\ tries' = [tries EXCEPT ![p] = @ + 1]
      BY <1>3, <3>3 DEF Judge, AfterTimeout
    <3> QED BY <1>3, <3>1, <3>2, <3>3 DEF Judge, AfterError
  <2> QED BY <1>3, <2>1, <2>2, <2>3 DEF Judge
<1>4. ASSUME Log(p), UNCHANGED <<up, boots>> PROVE MemTypes'
  <2>1. faults' \in 0..MaxFaults
    BY <1>4, SpendKeeps DEF Log
  <2> QED BY <1>4, <2>1 DEF Log, Cached
<1>5. ASSUME Act(p), UNCHANGED <<up, boots>> PROVE MemTypes'
  BY <1>5 DEF Act
<1> QED BY <1>1, <1>2, <1>3, <1>4, <1>5 DEF Handle

LEMMA UnlearnTypes ==
  ASSUME MemTypes, NEW p \in Posts, Unlearn(p)
  PROVE  MemTypes'
<1> USE MemAssumption DEF MemTypes, MemTypeOK, HoldInv, RetryInv, Unlearn, handler
<1>1. queue' \in Seq(Images)
  <2>1. queue' = queue \/ queue' = Append(queue, Image[p])
    BY DEF EnqueueDeny
  <2> QED BY <2>1, AppendProperties
<1> QED BY <1>1 DEF EnqueueDeny, Cached

LEMMA ScanTypes ==
  ASSUME MemTypes, Scan, UNCHANGED <<up, boots>>
  PROVE  MemTypes'
<1> USE MemAssumption DEF MemTypes, MemTypeOK, HoldInv, RetryInv
<1>1. faults' \in 0..MaxFaults
  BY SpendKeeps DEF Scan
<1> QED BY <1>1 DEF Scan, discord, manager, handler, history

LEMMA ManagerTypes ==
  ASSUME MemTypes, Manager, UNCHANGED <<up, boots>>
  PROVE  MemTypes'
<1> USE MemAssumption DEF MemTypes, MemTypeOK, HoldInv, RetryInv, Move
<1> USE DEF discord, memory, manager, handler, history
<1>1. CASE OnReady /\ UNCHANGED <<memory, handler, history>>
  BY <1>1 DEF OnReady
<1>2. CASE Load /\ UNCHANGED <<memory, handler, history>>
  <2>1. faults' \in 0..MaxFaults
    BY <1>2, SpendKeeps DEF Load
  <2>2. deny' \subseteq Images
    BY <1>2 DEF Load, Merged, In
  <2>3. partial' \in BOOLEAN
    <3>1. (Cardinality(threads) > 1) \in BOOLEAN
      OBVIOUS
    <3> QED BY <1>2, <3>1, Zenon DEF Load
  <2> QED BY <1>2, <2>1, <2>2, <2>3 DEF Load
<1>3. CASE Take /\ UNCHANGED <<memory, handler, history>>
  <2>1. queue' \in Seq(Images) /\ writing' \in Images
    BY <1>3, HeadTailProperties DEF Take
  <2> QED BY <1>3, <2>1 DEF Take
<1>4. CASE Write /\ UNCHANGED <<memory, handler, history>>
  <2>1. faults' \in 0..MaxFaults
    BY <1>4, SpendKeeps DEF Write
  <2>2. /\ entries' \subseteq threads \X Images /\ active' \subseteq threads
    <3>1. writing \in Images
      BY <1>4 DEF Write
    <3>2. CASE bound = Nothing
      BY <1>4, <3>2 DEF Write
    <3>3. CASE bound \in threads
      <4>1. /\ entries' = entries \/ entries' = entries \union {<<bound, writing>>}
            /\ active' = active \/ active' = active \union {bound}
        BY <1>4 DEF Write
      <4>2. <<bound, writing>> \in threads \X Images
        BY <3>1, <3>3
      <4> QED BY <3>3, <4>1, <4>2
    <3> QED BY <3>2, <3>3
  <2> QED BY <1>4, <2>1, <2>2 DEF Write
<1>5. ASSUME NEW a \in {"ready", "worker"}, EnsureThread(a), UNCHANGED <<memory, handler, history>>
      PROVE  MemTypes'
  <2>1. faults' \in 0..MaxFaults
    BY <1>5, SpendKeeps DEF EnsureThread, Find, List, Create
  <2>2. /\ threads' \subseteq Threads /\ active' \subseteq threads'
        /\ bound' \in threads' \union {Nothing} /\ threads \subseteq threads'
    BY <1>5 DEF EnsureThread, Find, List, Create
  <2>3. /\ ensure' \in [{"ready", "worker"} ->
               {"off", "idle", "find", "list", "create", "load", "write", "done"}]
        /\ HoldInv'
    BY <1>5 DEF EnsureThread, Find, List, Create, Ensured
  <2>4. UNCHANGED <<logged, entries, deny, queue, writing, loaded, partial>>
    BY <1>5 DEF EnsureThread, Find, List, Create
  <2> QED BY <1>5, <2>1, <2>2, <2>3, <2>4
<1> QED BY <1>1, <1>2, <1>3, <1>4, <1>5 DEF Manager

LEMMA OtherTypes ==
  ASSUME MemTypes, \/ \E t \in Threads : Archive(t)
                   \/ Crash \/ Boot \/ UNCHANGED memVars
  PROVE  MemTypes'
<1> USE MemAssumption DEF MemTypes, MemTypeOK, HoldInv, RetryInv
<1> USE DEF discord, memory, manager, handler, history
<1>1. CASE \E t \in Threads : Archive(t)
  BY <1>1 DEF Archive
<1>2. CASE Crash
  <2>1. queue' \in Seq(Images)
    BY <1>2, EmptySeq DEF Crash
  <2>2. at' \in [Posts -> {"off", "check", "ask", "log", "act", "done"}] /\ RetryInv'
    BY <1>2 DEF Crash
  <2>3. ensure' \in [{"ready", "worker"} ->
               {"off", "idle", "find", "list", "create", "load", "write", "done"}] /\ HoldInv'
    BY <1>2 DEF Crash, NotReady
  <2>4. lost' \subseteq Images /\ boots' \in 0..MaxBoots
    BY <1>2 DEF Crash
  <2>5. /\ deny' = {} /\ cache' = {} /\ fp' = {} /\ scan' = "off" /\ page' = {}
        /\ bound' = Nothing /\ writing' = Nothing /\ loaded' = FALSE /\ partial' = FALSE
        /\ up' = FALSE /\ UNCHANGED <<discord, tries, after, judged, sure, removed, wished, unseen, faults>>
    BY <1>2 DEF Crash
  <2> QED BY <2>1, <2>2, <2>3, <2>4, <2>5
<1>3. CASE Boot \/ UNCHANGED memVars
  BY <1>3 DEF Boot, memVars
<1> QED BY <1>1, <1>2, <1>3

LEMMA MemTypesStep == MemTypes /\ [MemNext]_memVars => MemTypes'
BY HandleTypes, UnlearnTypes, ScanTypes, ManagerTypes, OtherTypes DEF MemNext

LEMMA MemTypesHold == MemSpec => []MemTypes
BY MemTypesInit, MemTypesStep, PTL DEF MemSpec

\* Types, for any posts, images and threads.
THEOREM MemTypeCorrect == MemSpec => []MemTypeOK
<1>1. MemTypes => MemTypeOK
  BY DEF MemTypes
<1> QED BY <1>1, MemTypesHold, PTL

-----------------------------------------------------------------------------
LEMMA MemInvInit == MemInit => MemInv
<1> SUFFICES ASSUME MemInit PROVE MemInv
  OBVIOUS
<1> QED BY MemTypesInit DEF MemInit, MemInv, KeptInv, Learned, LoadedInv, PassInv, StaysDenied, OnlySure

\* The denylist part survives what does not touch it, but for threads and entries that
\* are added; the posts' part, what does not touch the posts.
LEMMA DenyFrame ==
  ASSUME DenyPart, threads \subseteq threads', entries \subseteq entries',
         UNCHANGED <<wished, unseen, lost, deny, loaded, partial>>
  PROVE  DenyPart'
BY DEF DenyPart, KeptInv, LoadedInv, Learned

LEMMA PostFrame ==
  ASSUME PostPart, UNCHANGED handler,
         wished \subseteq wished', unseen \subseteq unseen', lost \subseteq lost'
  PROVE  PostPart'
BY DEF PostPart, PassInv, StaysDenied, OnlySure, handler

\* Only Check asks the denylist: what it lets pass it has not learned.
LEMMA HandlePosts ==
  ASSUME MemInv, NEW p \in Posts,
         \/ Arrive(p) /\ UNCHANGED <<up, boots>>
         \/ Handle(p)
  PROVE  DenyPart' /\ PostPart'
<1> USE DEF history
<1>0. DenyPart'
  <2>1. UNCHANGED <<threads, entries, wished, unseen, lost, deny, loaded, partial>>
    BY DEF Arrive, Handle, Check, Judge, Log, Act, discord, manager
  <2> QED BY <2>1, DenyFrame DEF DenyPart, MemInv
<1>1. /\ \A q \in Posts \ {p} : at'[q] = at[q] /\ judged'[q] = judged[q]
      /\ at' \in [Posts -> {"off", "check", "ask", "log", "act", "done"}]
      /\ \A q \in Posts : q \in after' => q \in after \/ (q = p /\ Image[p] \in wished)
      /\ UNCHANGED <<wished, unseen, lost>>
  BY HandleTypes DEF Arrive, Handle, Check, Judge, Log, Act, Await, MemInv, MemTypes, MemTypeOK
<1>2. removed \subseteq Posts /\ removed' \subseteq Posts /\ after' \subseteq Posts
  BY HandleTypes DEF MemInv, MemTypes, MemTypeOK
<1> USE DEF PassInv, StaysDenied, OnlySure, MemInv
\* What p's step must show of p itself.
<1> DEFINE Passes ==
       /\ p \in after' /\ judged'[p] = "full" /\ at'[p] \in {"ask", "log", "act"} =>
              Image[p] \in unseen \union lost
       /\ at'[p] \in {"log", "act"} => p \in sure'
       /\ sure \subseteq sure' /\ removed' \subseteq removed \union {p}
       /\ p \in removed' => at'[p] = "done" /\ p \in sure'
       /\ p \in removed' /\ p \in after' /\ judged'[p] = "full" => Image[p] \in unseen \union lost
<1>3. ASSUME Passes PROVE PostPart'
  <2>1. PassInv'
    BY <1>1, <1>2, <1>3
  <2>2. StaysDenied' /\ OnlySure'
    BY <1>1, <1>2, <1>3
  <2> QED BY <2>1, <2>2 DEF PostPart
<1>4. at \in [Posts -> {"off", "check", "ask", "log", "act", "done"}]
      /\ judged \in [Posts -> {Nothing, "early", "partial", "full"}]
  BY DEF MemTypes, MemTypeOK
<1>5. CASE Arrive(p)
  <2>1. at[p] = "off" /\ at'[p] = "check" /\ UNCHANGED <<sure, removed>>
    BY <1>4, <1>5 DEF Arrive, Await
  <2> QED BY <1>0, <1>3, <2>1
<1>6. CASE Check(p)
  <2>1. /\ at[p] = "check" /\ at'[p] \in {"ask", "done"} /\ UNCHANGED <<after, sure, removed>>
        /\ at'[p] = "ask" => Image[p] \notin deny
        /\ judged'[p] = "full" => loaded /\ ~partial
    BY <1>4, <1>6 DEF Check, Await, Denied
  <2>2. p \in after /\ judged'[p] = "full" /\ at'[p] = "ask" => Image[p] \in unseen \union lost
    BY <2>1 DEF LoadedInv, Learned
  <2> QED BY <1>0, <1>3, <2>1, <2>2
<1>7. CASE Judge(p)
  <2>1. /\ at[p] = "ask" /\ UNCHANGED <<after, judged, removed>>
        /\ at'[p] \in {"log", "done", "check"} /\ sure \subseteq sure'
    BY <1>4, <1>7 DEF Judge, Await, AfterError, AfterTimeout
  <2>2. at'[p] = "log" => p \in sure'
    BY <1>4, <1>7 DEF Judge, Await, AfterError, AfterTimeout
  <2> QED BY <1>0, <1>3, <2>1, <2>2
<1>8. CASE Log(p)
  <2>1. at[p] = "log" /\ at'[p] = "act" /\ UNCHANGED <<after, judged, sure, removed>>
    BY <1>4, <1>8 DEF Log, Await
  <2> QED BY <1>0, <1>3, <2>1
<1>9. CASE Act(p)
  <2>1. /\ at[p] = "act" /\ at'[p] = "done" /\ UNCHANGED <<after, judged, sure>>
        /\ removed' = removed \union {p}
    BY <1>4, <1>9 DEF Act, Await
  <2> QED BY <1>0, <1>3, <2>1
<1> QED BY <1>0, <1>5, <1>6, <1>7, <1>8, <1>9 DEF Handle

\* A deletion that is taken in is denied at once.
LEMMA UnlearnPosts ==
  ASSUME MemInv, NEW p \in Posts, Unlearn(p)
  PROVE  DenyPart' /\ PostPart'
<1>1. PostPart'
  BY PostFrame DEF Unlearn, MemInv, PostPart
<1>2. DenyPart'
  <2>1. /\ wished' = wished \union {Image[p]}
        /\ UNCHANGED <<threads, entries, lost, loaded, partial>>
    BY DEF Unlearn
  <2>2. CASE deny' = deny \union {Image[p]} /\ UNCHANGED unseen
    BY <2>1, <2>2 DEF DenyPart, KeptInv, LoadedInv, Learned, MemInv
  <2>3. CASE unseen' = unseen \union {Image[p]} /\ UNCHANGED deny
    BY <2>1, <2>3 DEF DenyPart, KeptInv, LoadedInv, Learned, MemInv
  <2> QED BY <2>2, <2>3 DEF Unlearn, EnqueueDeny
<1> QED BY <1>1, <1>2

\* The load: one thread, wholly read, is all that was ever written.
LEMMA LoadPosts ==
  ASSUME MemInv, Load, UNCHANGED history
  PROVE  DenyPart'
<1> USE MemAssumption DEF MemInv, MemTypes, MemTypeOK
<1>1. UNCHANGED <<threads, entries, wished, unseen, lost>> /\ deny \subseteq deny'
  BY DEF Load, Merged, discord, history
<1>2. KeptInv'
  BY <1>1 DEF KeptInv, Learned
<1>3. ASSUME loaded', ~partial' PROVE (Learned \subseteq deny)'
  <2>1. /\ bound # Nothing /\ deny' = deny \union In(bound)
        /\ ~(Cardinality(threads) > 1)
    BY <1>3 DEF Load, Merged
  <2>2. IsFiniteSet(threads) /\ bound \in threads
    BY <2>1, FS_Subset
  <2>3. \A t \in threads : t = bound
    <3>1. Cardinality(threads) = 1
      BY <2>1, <2>2, FS_EmptySet, FS_CardinalityType
    <3> QED BY <2>2, <3>1, FS_Singleton
  <2>4. \A x \in Learned : x \in deny \/ x \in In(bound)
    BY <2>3 DEF KeptInv, In, Learned
  <2> QED BY <1>1, <2>1, <2>4 DEF Learned
<1> QED BY <1>2, <1>3 DEF DenyPart, LoadedInv

LEMMA ManagerPosts ==
  ASSUME MemInv, Manager
  PROVE  DenyPart' /\ PostPart'
<1>1. PostPart'
  BY PostFrame DEF Manager, MemInv, PostPart, history
<1>2. ASSUME Load PROVE DenyPart'
  BY <1>2, LoadPosts DEF Manager
<1>3. ASSUME OnReady \/ Take \/ Write \/ \E a \in {"ready", "worker"} : EnsureThread(a)
      PROVE  DenyPart'
  <2>1. threads \subseteq threads' /\ entries \subseteq entries'
    BY <1>3 DEF OnReady, Take, Write, EnsureThread, Find, List, Create, discord
  <2>2. UNCHANGED <<wished, unseen, lost, deny, loaded, partial>>
    BY <1>3 DEF Manager, OnReady, Take, Write, EnsureThread, history
  <2> QED BY <2>1, <2>2, DenyFrame DEF MemInv, DenyPart
<1> QED BY <1>1, <1>2, <1>3 DEF Manager

\* What a crash takes out of memory and is nowhere written is lost.
LEMMA CrashPosts ==
  ASSUME MemInv, Crash
  PROVE  DenyPart' /\ PostPart'
<1>1. /\ lost' = lost \union {x \in deny : \A t \in threads : <<t, x>> \notin entries}
      /\ deny' = {} /\ loaded' = FALSE
      /\ at' = [p \in Posts |-> IF at[p] = "off" THEN "off" ELSE "done"]
      /\ UNCHANGED <<threads, entries, wished, unseen, after, judged, sure, removed>>
  BY DEF Crash, discord
<1>2. DenyPart'
  BY <1>1 DEF DenyPart, KeptInv, LoadedInv, Learned, MemInv, MemTypes, MemTypeOK
<1>3. PostPart'
  BY <1>1 DEF PostPart, PassInv, StaysDenied, OnlySure, MemInv, MemTypes, MemTypeOK
<1> QED BY <1>2, <1>3

LEMMA MemInvStep == MemInv /\ [MemNext]_memVars => MemInv'
<1> SUFFICES ASSUME MemInv, [MemNext]_memVars PROVE MemInv'
  OBVIOUS
<1>0. MemTypes'
  BY MemTypesStep DEF MemInv
<1>1. CASE \E p \in Posts : (Arrive(p) /\ UNCHANGED <<up, boots>>) \/ Handle(p)
  BY <1>0, <1>1, HandlePosts DEF DenyPart, PostPart, MemInv
<1>2. CASE \E p \in Posts : Unlearn(p)
  BY <1>0, <1>2, UnlearnPosts DEF DenyPart, PostPart, MemInv
<1>3. CASE Manager
  BY <1>0, <1>3, ManagerPosts DEF DenyPart, PostPart, MemInv
<1>4. CASE Crash
  BY <1>0, <1>4, CrashPosts DEF DenyPart, PostPart, MemInv
<1>5. CASE Scan \/ (\E t \in Threads : Archive(t)) \/ Boot \/ UNCHANGED memVars
  <2>1. UNCHANGED <<threads, entries, deny, loaded, partial, handler, history>>
    BY <1>5 DEF Scan, Archive, Boot, memVars, discord, manager
  <2>2. DenyPart' /\ PostPart'
    BY <2>1, DenyFrame, PostFrame DEF history, MemInv, DenyPart, PostPart
  <2> QED BY <1>0, <2>2 DEF DenyPart, PostPart, MemInv
<1> QED BY <1>1, <1>2, <1>3, <1>4, <1>5 DEF MemNext

LEMMA MemInvHolds == MemSpec => []MemInv
BY MemInvInit, MemInvStep, PTL DEF MemSpec

\* For any posts, images and threads, and over restarts: a post that came after its image
\* was unlearned is deleted only if the process had not taken in the deletion, or died
\* before the denial was written, or asked a denylist that was not wholly read.
THEOREM UnlearnedIsLeft == MemSpec => []StaysDenied
<1>1. MemInv => StaysDenied
  BY DEF MemInv
<1> QED BY <1>1, MemInvHolds, PTL

\* The guard never deletes on the cache's word.
THEOREM CacheNeverActs == MemSpec => []OnlySure
<1>1. MemInv => OnlySure
  BY DEF MemInv
<1> QED BY <1>1, MemInvHolds, PTL
=============================================================================
