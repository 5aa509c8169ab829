----------------------------- MODULE ChannelLog -----------------------------
(***************************************************************************)
(* What the readers of the announce channel are promised: messages appear  *)
(* at its end, and one is withdrawn only while an older message about the  *)
(* same video stays visible.                                               *)
(***************************************************************************)
EXTENDS Naturals, Sequences

CONSTANT Vids

VARIABLES
    log,    \* the videos of all messages posted so far; the index is the id
    shown   \* ids of the visible messages

Init == log = <<>> /\ shown = {}

Post(v) ==
    /\ log' = Append(log, v)
    /\ shown' = shown \union {Len(log) + 1}

Withdraw(i) ==
    /\ \E j \in shown : j < i /\ log[j] = log[i]
    /\ shown' = shown \ {i}
    /\ UNCHANGED log

Next ==
    \/ \E v \in Vids : Post(v)
    \/ \E i \in shown : Withdraw(i)

Spec == Init /\ [][Next]_<<log, shown>>

\* Every video ever posted has a visible message.
EveryPostVisible ==
    \A i \in 1 .. Len(log) : \E j \in shown : log[j] = log[i]
=============================================================================
