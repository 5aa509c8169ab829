---------------------------- MODULE MCPhashBoard ----------------------------
(***************************************************************************)
(* A learner, a rescan and a backfill write one thread's database.         *)
(***************************************************************************)
EXTENDS PhashBoard

CONSTANTS l, r, b, s, p, q, t1, t2, t3

MCBatches == {{l, b}, {r, s}, {p, q}}

MCKind ==
    [j \in Tasks |-> CASE j = l -> "learn" [] j = r -> "rescan" [] j = b -> "backfill"
                       [] j = s -> "status" [] j = p -> "port" [] j = q -> "reseed"]

MCFind ==
    [j \in Tasks |-> CASE j = l -> {t1} [] j = r -> {t2} [] j = b -> {t2, t3}
                       [] j = s -> {} [] j = p -> {t1} [] j = q -> {t2}]
=============================================================================
