------------------------------ MODULE LpgGuard ------------------------------
(***************************************************************************)
(* nixe/cogs/a00_lpg_thread_bridge_guard.py, the Lucky Pull guard: each    *)
(* on_message handler takes an image of a guarded channel through an OCR   *)
(* veto and a classification, and deletes and redirects what is lucky.     *)
(* OCR requests of all handlers share a semaphore, a request interval and  *)
(* a cooldown after a 429; classifications share two environment variables *)
(* that each overrides while it runs.                                      *)
(* Durations are counted in ticks; a sleep or a request may take longer.   *)
(***************************************************************************)
EXTENDS Naturals, FiniteSets

CONSTANTS
    Handlers,   \* on_message tasks, one per delivered event
    Msgs,
    Events,     \* which handler may get an event of which message
    NKeys,      \* API keys the OCR tries in turn
    MaxConc,    \* LPG_GROQ_MAX_CONCURRENCY
    Interval,   \* 60 s / LPG_GROQ_MAX_RPM
    Cooldown,   \* LPG_GROQ_429_COOLDOWN_SEC
    MaxCrashes, \* bound on the restarts
    None

ASSUME ConstAssumption ==
    /\ IsFiniteSet(Handlers) /\ Events \subseteq Handlers \X Msgs
    /\ NKeys \in Nat \ {0} /\ MaxConc \in Nat \ {0}
    /\ Interval \in Nat \ {0} /\ Cooldown \in Nat \ {0} /\ MaxCrashes \in Nat
    /\ None \notin Handlers /\ None \notin Msgs

VARIABLES
    ocrWhen,  \* neg_tokens, neg_hard_veto: the OCR comes before the classifier if there are
              \* negative words, after it if there are none, never if its veto is off
    granted,  \* message ids once_sync has granted and remembers
    pc,       \* the await each handler is at
    msg,      \* the message it handles
    key,      \* the API key its OCR tries
    timer,    \* what is left of its sleep
    holders,  \* handlers inside _LPG_GROQ_SEM
    lock,     \* the handler inside _LPG_GROQ_LOCK
    since,    \* ticks since _LPG_GROQ_LAST_CALL, up to Interval
    cool,     \* ticks until _LPG_GROQ_COOLDOWN_UNTIL
    late,     \* history: requests since the last 429, while its cooldown lasts
    env,      \* the budget variables in os.environ: "base" or an attempt's
    prev,     \* what each handler's _temp_env found there
    mixed,    \* history: two classifications have overlapped in this process
    acted,    \* history: how often each message went to deletion
    crashes   \* how often the process was restarted

ocr  == <<key, timer, holders, lock, since, cool, late>>
cls  == <<env, prev, mixed>>
hist == <<ocrWhen, acted, crashes>>
vars == <<granted, pc, msg, ocr, cls, hist>>

Goto(t, where) == pc' = [pc EXCEPT ![t] = where]

Init ==
    /\ ocrWhen \in {"before", "after", "never"}
    /\ granted = {} /\ pc = [t \in Handlers |-> "new"] /\ msg = [t \in Handlers |-> None]
    /\ key = [t \in Handlers |-> 1] /\ timer = [t \in Handlers |-> 0]
    /\ holders = {} /\ lock = None /\ since = Interval /\ cool = 0 /\ late = 0
    /\ env = "base" /\ prev = [t \in Handlers |-> "base"] /\ mixed = FALSE
    /\ acted = [m \in Msgs |-> 0] /\ crashes = 0

-----------------------------------------------------------------------------
\* Discord delivers the event of m, for the first time or again while once_sync still
\* remembers it (LPG_SEEN_TTL_SEC).
GrantAll(m) == TRUE  \* faulty variant
Fresh(m) == m \notin granted

Deliver(t, m) ==
    /\ pc[t] = "new" /\ <<t, m>> \in Events
    /\ msg' = [msg EXCEPT ![t] = m]
    /\ granted' = granted \union {m}
    /\ Goto(t, IF Fresh(m) THEN "read" ELSE "end")
    /\ UNCHANGED <<ocr, cls, hist>>

\* The attachment is read and shrunk; if that fails, or it is no JPEG or PNG, the
\* message counts as not lucky.
Read(t) ==
    /\ pc[t] = "read"
    /\ \/ Goto(t, IF ocrWhen = "before" THEN "ocr" ELSE "classify")
       \/ Goto(t, "end")
    /\ UNCHANGED <<granted, msg, ocr, cls, hist>>

-----------------------------------------------------------------------------
\* _ocr_neg_text, for the key the handler is at.
Acquire(t) ==
    /\ pc[t] = "ocr" /\ Cardinality(holders) < MaxConc
    /\ holders' = holders \union {t}
    /\ Goto(t, "cool")
    /\ timer' = [timer EXCEPT ![t] = cool]
    /\ UNCHANGED <<granted, msg, key, lock, since, cool, late, cls, hist>>

NoSpacing == 0  \* faulty variant
Spacing == Interval - since

EnterLock(t) ==
    /\ pc[t] = "cool" /\ timer[t] = 0 /\ lock = None
    /\ lock' = t
    /\ Goto(t, "space")
    /\ timer' = [timer EXCEPT ![t] = Spacing]
    /\ UNCHANGED <<granted, msg, key, holders, since, cool, late, cls, hist>>

\* The gate is passed and the request goes out.
Ask(t) ==
    /\ pc[t] = "space" /\ timer[t] = 0
    /\ lock' = None /\ since' = 0
    /\ Goto(t, "ask")
    /\ late' = IF cool > 0 THEN late + 1 ELSE late
    /\ UNCHANGED <<granted, msg, key, timer, holders, cool, cls, hist>>

AfterOcr == IF ocrWhen = "before" THEN "classify" ELSE "post"

KeepSem(t) == holders  \* faulty variant
Release(t) == holders \ {t}

\* A text without a negative word, or a timeout of the request: no veto.
NoVeto(t) ==
    /\ pc[t] = "ask"
    /\ holders' = Release(t)
    /\ Goto(t, AfterOcr)
    /\ key' = [key EXCEPT ![t] = 1]
    /\ UNCHANGED <<granted, msg, timer, lock, since, cool, late, cls, hist>>

Veto(t) ==
    /\ pc[t] = "ask"
    /\ holders' = Release(t)
    /\ Goto(t, "end")
    /\ key' = [key EXCEPT ![t] = 1]
    /\ UNCHANGED <<granted, msg, timer, lock, since, cool, late, cls, hist>>

\* A 429, another status, an exception or an answer without text: the next key, and
\* after the last one no veto.
MoreKeys(t) == key[t] < NKeys

NextKey(t) ==
    /\ pc[t] = "ask"
    /\ holders' = Release(t)
    /\ \/ UNCHANGED <<cool, late>>
       \/ cool' = Cooldown /\ late' = 0
    /\ IF MoreKeys(t)
       THEN Goto(t, "ocr") /\ key' = [key EXCEPT ![t] = @ + 1]
       ELSE Goto(t, AfterOcr) /\ key' = [key EXCEPT ![t] = 1]
    /\ UNCHANGED <<granted, msg, timer, lock, since, cls, hist>>

-----------------------------------------------------------------------------
\* _classify runs the classifier inside _temp_env.
Classifying == {t \in Handlers : pc[t] \in {"try1", "try2"}}

Classify(t) ==
    /\ pc[t] = "classify"
    /\ prev' = [prev EXCEPT ![t] = env]
    /\ mixed' = (mixed \/ Classifying # {})
    /\ env' = "first"
    /\ Goto(t, "try1")
    /\ UNCHANGED <<granted, msg, ocr, hist>>

KeepBudget(t) == env  \* faulty variant

Restored(t) == prev[t]

\* It answers, or the last attempt times out or raises (not lucky).
Answer(t) ==
    /\ t \in Classifying
    /\ env' = Restored(t) /\ prev' = [prev EXCEPT ![t] = "base"]
    /\ \/ Goto(t, IF ocrWhen = "after" THEN "ocr" ELSE "post")
       \/ Goto(t, "end")
    /\ UNCHANGED <<granted, msg, ocr, mixed, hist>>

\* The first attempt times out: leave _temp_env, enter it again for the second one.
Retry(t) ==
    /\ pc[t] = "try1"
    /\ env' = "second"
    /\ Goto(t, "try2")
    /\ UNCHANGED <<granted, msg, ocr, prev, mixed, hist>>

\* Lucky: post to the memory thread, delete the message, send the notice.  Failures
\* of the three are swallowed.
Post(t) ==
    /\ pc[t] = "post"
    /\ Goto(t, "delete")
    /\ UNCHANGED <<granted, msg, ocr, cls, hist>>

Delete(t) ==
    /\ pc[t] = "delete"
    /\ acted' = [acted EXCEPT ![msg[t]] = @ + 1]
    /\ Goto(t, "notice")
    /\ UNCHANGED <<ocrWhen, granted, msg, ocr, cls, crashes>>

Notice(t) ==
    /\ pc[t] = "notice"
    /\ Goto(t, "end")
    /\ UNCHANGED <<granted, msg, ocr, cls, hist>>

-----------------------------------------------------------------------------
\* The process restarts: handlers and their shared state are gone; the dedupe table
\* of once_sync is not (see OnceDedupe).
Restart ==
    /\ crashes < MaxCrashes
    /\ crashes' = crashes + 1
    /\ pc' = [t \in Handlers |-> IF pc[t] = "new" THEN "new" ELSE "end"]
    /\ key' = [t \in Handlers |-> 1] /\ timer' = [t \in Handlers |-> 0]
    /\ holders' = {} /\ lock' = None /\ since' = Interval /\ cool' = 0 /\ late' = 0
    /\ env' = "base" /\ prev' = [t \in Handlers |-> "base"] /\ mixed' = FALSE
    /\ UNCHANGED <<ocrWhen, granted, msg, acted>>

Less(n) == IF n > 0 THEN n - 1 ELSE 0

Tick ==
    /\ timer' = [t \in Handlers |-> Less(timer[t])]
    /\ cool' = Less(cool) /\ late' = IF cool' = 0 THEN 0 ELSE late
    /\ since' = IF since < Interval THEN since + 1 ELSE since
    /\ UNCHANGED <<granted, pc, msg, key, holders, lock, cls, hist>>

Step(t) ==
    \/ Read(t)
    \/ Acquire(t) \/ EnterLock(t) \/ Ask(t) \/ NoVeto(t) \/ Veto(t) \/ NextKey(t)
    \/ Classify(t) \/ Answer(t) \/ Retry(t)
    \/ Post(t) \/ Delete(t) \/ Notice(t)

Next ==
    \/ \E t \in Handlers : Step(t) \/ \E m \in Msgs : Deliver(t, m)
    \/ Restart \/ Tick

Spec == Init /\ [][Next]_vars

\* Handlers that can go on do, requests are answered or time out, time passes.
Fairness == WF_vars(Tick) /\ \A t \in Handlers : WF_vars(Step(t))

FairSpec == Spec /\ Fairness
-----------------------------------------------------------------------------
OcrPcs == {"cool", "space", "ask"}

TypeOK ==
    /\ ocrWhen \in {"before", "after", "never"}
    /\ granted \subseteq Msgs /\ msg \in [Handlers -> Msgs \union {None}]
    /\ pc \in [Handlers -> OcrPcs \union {"new", "end", "read", "ocr", "classify", "try1",
                                          "try2", "post", "delete", "notice"}]
    /\ key \in [Handlers -> 1 .. NKeys] /\ timer \in [Handlers -> Nat]
    /\ holders \subseteq Handlers /\ lock \in Handlers \union {None}
    /\ since \in 0 .. Interval /\ cool \in 0 .. Cooldown /\ late \in Nat
    /\ env \in {"base", "first", "second"}
    /\ prev \in [Handlers -> {"base", "first", "second"}] /\ mixed \in BOOLEAN
    /\ acted \in [Msgs -> Nat] /\ crashes \in 0 .. MaxCrashes

\* _lpg_groq_gate "avoid[s] 429 storms" whatever the handlers and keys that queue for it:
\* two OCR requests are an interval apart, and after a 429 at most as many requests go out
\* before its cooldown is over as there are other permits (none, if there is one): those
\* of handlers that had passed the cooldown's check when the 429 came.
Gated ==
    [][\A t \in Handlers : pc[t] # "ask" /\ pc'[t] = "ask" =>
           since = Interval /\ (cool > 0 => late' < MaxConc)]_vars

\* A message is taken to deletion and notice at most once, however often its event is
\* delivered, while handlers overlap and across restarts.
ActedOnce == \A m \in Msgs : acted[m] <= 1

\* Every handler comes to its end: neither a 429, a failing key nor a timeout leaves
\* it, or the handlers behind it, waiting for a permit or the lock.  (A handler runs once
\* and there are finitely many: again and again none is at work.)
HandlerEnds == []<>(\A t \in Handlers : pc[t] \in {"new", "end"})

\* "Values are restored immediately after the call" (_temp_env): while no two
\* classifications have overlapped, the environment is as it was whenever none runs,
\* whether the last one answered, was retried, timed out or raised.
EnvRestored == ~mixed /\ Classifying = {} => env = "base"
=============================================================================
