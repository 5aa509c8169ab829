----------------------------- MODULE SafeDelete -----------------------------
(***************************************************************************)
(* nixe/helpers/safe_delete.py: message deletions go through one queue and *)
(* one worker that keeps an interval between DELETE calls and retries on   *)
(* 429.  A caller that meets a full queue deletes on its own.              *)
(* Durations are counted in ticks; a sleep may overshoot.                  *)
(***************************************************************************)
EXTENDS Naturals, Sequences

CONSTANTS
    Msgs,         \* messages, each handed to safe_delete once
    Delays,       \* values of the delay argument
    QMax,         \* _QUEUE_MAXSIZE
    MinInterval,  \* _MIN_INTERVAL_SEC
    MaxTries,     \* max(1, _MAX_RETRIES)
    Backoffs,     \* back-off times after a 429
    Worker, None

Doers == Msgs \union {Worker}

\* With the defaults a back-off (at least 1 s) is longer than the interval
\* (0.35 s, and 0.80 s on Render).
ASSUME ConstAssumption ==
    /\ Delays \subseteq Nat /\ QMax \in Nat \ {0} /\ MinInterval \in Nat
    /\ MaxTries \in Nat \ {0}
    /\ Backoffs \subseteq {b \in Nat : b >= MinInterval}
    /\ Worker \notin Msgs /\ None \notin Msgs

VARIABLES
    queue,    \* _queue: <<message, delay>> items
    holding,  \* the message the worker took from it
    act,      \* what the worker, or the caller of a message, is doing
    timer,    \* what is left of its sleep
    tries,    \* attempts of its _guarded_delete
    since,    \* ticks since _last_delete_ts, up to MinInterval
    asked,    \* messages handed to safe_delete
    result    \* history: how the deletion of a message ended

vars == <<queue, holding, act, timer, tries, since, asked, result>>

MsgOf(d) == IF d = Worker THEN holding ELSE d

Init ==
    /\ queue = <<>> /\ holding = None
    /\ act = [d \in Doers |-> "off"] /\ timer = [d \in Doers |-> 0]
    /\ tries = [d \in Doers |-> 0]
    /\ since = MinInterval
    /\ asked = {} /\ result = [m \in Msgs |-> "none"]

\* safe_delete(m, delay=w).
Enqueue(m, w) ==
    /\ m \notin asked /\ Len(queue) < QMax
    /\ asked' = asked \union {m}
    /\ queue' = Append(queue, <<m, w>>)
    /\ UNCHANGED <<holding, act, timer, tries, since, result>>

\* The fallback of a full queue: sleep, then delete in the caller's own task.
Fallback(m, w) ==
    /\ m \notin asked /\ Len(queue) >= QMax
    /\ asked' = asked \union {m}
    /\ act' = [act EXCEPT ![m] = "sleep"]
    /\ timer' = [timer EXCEPT ![m] = MinInterval + w]
    /\ UNCHANGED <<queue, holding, tries, since, result>>

WorkerGet ==
    /\ act[Worker] = "off" /\ queue # <<>>
    /\ queue' = Tail(queue)
    /\ holding' = Head(queue)[1]
    /\ act' = [act EXCEPT ![Worker] = "delay"]
    /\ timer' = [timer EXCEPT ![Worker] = Head(queue)[2]]
    /\ UNCHANGED <<tries, since, asked, result>>

\* The item's own delay is over: sleep out the interval since the last delete.
NoWait == 0  \* faulty variant
PaceWait == MinInterval - since

Pace ==
    /\ act[Worker] = "delay" /\ timer[Worker] = 0
    /\ act' = [act EXCEPT ![Worker] = "pace"]
    /\ timer' = [timer EXCEPT ![Worker] = PaceWait]
    /\ UNCHANGED <<queue, holding, tries, since, asked, result>>

\* A sleep is over: issue a DELETE call.
Call(d) ==
    /\ act[d] \in {"pace", "sleep", "back"} /\ timer[d] = 0
    /\ act' = [act EXCEPT ![d] = "call"]
    /\ tries' = [tries EXCEPT ![d] = @ + 1]
    /\ UNCHANGED <<queue, holding, timer, since, asked, result>>

\* The end of the deletion of d's message, whichever way; the worker notes the
\* time on the normal path and in its exception handler, and goes on.
WorkerDies(d) ==  \* faulty variant
    /\ act' = [act EXCEPT ![d] = "dead"]
    /\ since' = 0 /\ holding' = None

GoOn(d) ==
    /\ act' = [act EXCEPT ![d] = "off"]
    /\ IF d = Worker THEN since' = 0 /\ holding' = None
                     ELSE UNCHANGED <<since, holding>>

Done(d, how) ==
    /\ act[d] = "call"
    /\ GoOn(d)
    /\ tries' = [tries EXCEPT ![d] = 0]
    /\ result' = [result EXCEPT ![MsgOf(d)] = how]
    /\ UNCHANGED <<queue, timer, asked>>

\* 429: back off and retry while the attempts last.
MayRetry(d) == tries[d] <= MaxTries

RateLimited(d) ==
    /\ act[d] = "call" /\ MayRetry(d)
    /\ act' = [act EXCEPT ![d] = "back"]
    /\ \E b \in Backoffs : timer' = [timer EXCEPT ![d] = b]
    /\ UNCHANGED <<queue, holding, tries, since, asked, result>>

Step1(n) == IF n < MinInterval THEN n + 1 ELSE n

Tick ==
    /\ timer' = [d \in Doers |-> IF timer[d] > 0 THEN timer[d] - 1 ELSE 0]
    /\ since' = Step1(since)
    /\ UNCHANGED <<queue, holding, act, tries, asked, result>>

\* Success or NotFound ("gone"); Forbidden, another error, or a 429 when the
\* attempts are used up ("kept").
Finish(d) ==
    \/ Done(d, "gone")
    \/ Done(d, "kept")

Next ==
    \/ \E m \in Msgs, w \in Delays : Enqueue(m, w) \/ Fallback(m, w)
    \/ WorkerGet \/ Pace
    \/ \E d \in Doers : Call(d) \/ Finish(d) \/ RateLimited(d)
    \/ Tick

Spec == Init /\ [][Next]_vars

\* Tasks whose sleep is over run, every request is answered, time passes.
Fairness ==
    /\ WF_vars(WorkerGet) /\ WF_vars(Pace) /\ WF_vars(Tick)
    /\ \A d \in Doers : WF_vars(Call(d)) /\ WF_vars(Finish(d) \/ RateLimited(d))

FairSpec == Spec /\ Fairness
-----------------------------------------------------------------------------
TypeOK ==
    /\ queue \in Seq(Msgs \X Delays) /\ Len(queue) <= QMax
    /\ holding \in Msgs \union {None}
    /\ act \in [Doers -> {"off", "delay", "pace", "sleep", "call", "back"}]
    /\ timer \in [Doers -> Nat] /\ tries \in [Doers -> 0 .. MaxTries + 1]
    /\ since \in 0 .. MinInterval
    /\ asked \subseteq Msgs /\ result \in [Msgs -> {"none", "gone", "kept"}]

\* "Applies a minimum interval between DELETE calls" (the module's docstring) holds of
\* the worker's own deletions: it waits out the interval since its last one, whatever
\* delay its item carries and however the last one ended.  (A Fallback is not paced.)
WorkerPaced ==
    [][act[Worker] = "pace" /\ act'[Worker] = "call" => since >= MinInterval]_vars

\* Every message handed to safe_delete is dealt with in the end, in spite of
\* errors, rate limits, a full queue and other items' delays.
EveryMessageHandled ==
    \A m \in Msgs : m \in asked ~> result[m] # "none"
=============================================================================
