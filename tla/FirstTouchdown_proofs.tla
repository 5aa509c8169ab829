----------------------- MODULE FirstTouchdown_proofs -----------------------
(***************************************************************************)
(* Proofs about FirstTouchdown, for any detectors, messages, users, hits,  *)
(* settings and faults: the types, that the safety gate holds but for      *)
(* events judged blind, and that the overlay respects a FALSE.             *)
(***************************************************************************)
EXTENDS FirstTouchdown, FiniteSetTheorems, TLAPS

USE DEF MsgOf, UserOf, SigOf

EmbedPcs == {"none", "confirm", "delete", "delete, ban", "ban", "done"}

LEMMA EventType ==
    ASSUME NEW e \in Events
    PROVE  MsgOf(e) \in Msgs /\ UserOf(e) \in Users /\ SigOf(e) \in Sigs
BY ConstAssumption DEF Events

LEMMA TypeInit == Init => TypeOK
BY ConstAssumption DEF Init, TypeOK, Pcs

LEMMA SpendType ==
    ASSUME NEW kind, faults \in 0 .. MaxFaults, Spend(kind)
    PROVE  faults' \in 0 .. MaxFaults
BY ConstAssumption DEF Spend

LEMMA RecordType ==
    ASSUME NEW e \in Events, NEW Mark \in BOOLEAN, faults \in 0 .. MaxFaults,
           card \in [Events -> {"none", "open", "closed"}], Record(e, Mark)
    PROVE  /\ faults' \in 0 .. MaxFaults /\ card' \in [Events -> {"none", "open", "closed"}]
           /\ Mark \/ UNCHANGED <<memory, cleared>>
<1>1. PICK failed \in SUBSET ({"disk", "edit"} \intersect FaultKinds) :
         /\ faults' = faults + Cardinality(failed) /\ faults' <= MaxFaults
         /\ IF e \in byUrl \/ "disk" \in failed THEN UNCHANGED <<memory, cleared>> ELSE Mark
         /\ card' = [card EXCEPT ![e] = IF "edit" \in failed THEN "open" ELSE "closed"]
  BY DEF Record
<1>2. Cardinality(failed) \in Nat
  <2>1. IsFiniteSet({"disk", "edit"})
    <3>1. IsFiniteSet({"disk"}) /\ {"disk", "edit"} = {"disk"} \union {"edit"}
      BY FS_Singleton
    <3> QED BY <3>1, FS_AddElement
  <2>2. IsFiniteSet(failed)
    BY <2>1, FS_Subset
  <2> QED BY <2>2, FS_CardinalityType
<1>3. faults' \in 0 .. MaxFaults
  BY <1>1, <1>2, ConstAssumption
<1>4. card' \in [Events -> {"none", "open", "closed"}]
  BY <1>1
<1> QED BY <1>1, <1>3, <1>4

LEMMA TypeStep == TypeOK /\ [Next]_vars => TypeOK'
<1> SUFFICES ASSUME TypeOK, [Next]_vars PROVE TypeOK'
  OBVIOUS
<1> USE ConstAssumption DEF TypeOK, Pcs, Goto, discord, memory
<1>1. ASSUME NEW m \in Msgs, Post(m)
      PROVE  TypeOK'
  BY <1>1 DEF Post
<1>2. ASSUME NEW m \in Msgs, AuthorDeletes(m)
      PROVE  TypeOK'
  BY <1>2, SpendType DEF AuthorDeletes
<1>3. ASSUME NEW e \in Events, Emit(e)
      PROVE  TypeOK'
  BY <1>3 DEF Emit
<1>4. ASSUME NEW e \in Events, ScanFails(e)
      PROVE  TypeOK'
  BY <1>4, SpendType DEF ScanFails, Unread
<1>5. ASSUME NEW e \in Events, Fetch(e)
      PROVE  TypeOK'
  BY <1>5 DEF Fetch
<1>6. ASSUME NEW e \in Events, Sniff(e)
      PROVE  TypeOK'
  BY <1>6 DEF Sniff, AfterSniff
<1>7. ASSUME NEW e \in Events, Blind(e)
      PROVE  TypeOK'
  BY <1>7, SpendType DEF Blind, Unread
<1>8. ASSUME NEW e \in Events, Judge(e)
      PROVE  TypeOK'
  BY <1>8 DEF Judge, Verdict
<1>9. ASSUME NEW e \in Events, JudgeByUrl(e)
      PROVE  TypeOK'
  BY <1>9, SpendType DEF JudgeByUrl, Unread
<1>10. ASSUME NEW e \in Events, Hold(e)
      PROVE  TypeOK'
  BY <1>10, SpendType DEF Hold, Remove
<1>11. ASSUME NEW e \in Events, Review(e)
      PROVE  TypeOK'
  BY <1>11, SpendType DEF Review
<1>12. ASSUME NEW e \in Events, Ban(e)
      PROVE  TypeOK'
  BY <1>12, EventType, SpendType DEF Ban, TryBan, BanUser
<1>13. ASSUME NEW e \in Events, Purge(e)
      PROVE  TypeOK'
  BY <1>13, SpendType DEF Purge, Remove
<1>14. ASSUME NEW e \in Events, EmbedConfirm(e)
      PROVE  TypeOK'
  <2> PICK answer \in {"delete", "delete, ban"} : embed' = [embed EXCEPT ![e] = answer]
    BY <1>14 DEF EmbedConfirm
  <2> QED
    BY <1>14 DEF EmbedConfirm
<1>15. ASSUME NEW e \in Events, EmbedDelete(e)
      PROVE  TypeOK'
  BY <1>15, SpendType DEF EmbedDelete, Remove
<1>16. ASSUME NEW e \in Events, EmbedBan(e)
      PROVE  TypeOK'
  BY <1>16, EventType, SpendType DEF EmbedBan, TryBan, BanUser
<1>17. ASSUME NEW e \in Events, PressBan(e)
      PROVE  TypeOK'
  BY <1>17 DEF PressBan
<1>18. ASSUME NEW e \in Events, BanDone(e)
      PROVE  TypeOK'
  BY <1>18, EventType DEF BanDone, BanUser
<1>19. ASSUME NEW e \in Events, BanFails(e)
      PROVE  TypeOK'
  BY <1>19, SpendType DEF BanFails
<1>20. ASSUME NEW e \in Events, BanRecorded(e)
      PROVE  TypeOK'
  <2>1. /\ faults' \in 0 .. MaxFaults /\ card' \in [Events -> {"none", "open", "closed"}]
        /\ MarkBanned(SigOf(e)) \/ UNCHANGED <<memory, cleared>>
    BY <1>20, RecordType DEF BanRecorded, MarkBanned
  <2>2. /\ false' \subseteq Sigs /\ attack' \subseteq Sigs /\ false' \intersect attack' = {}
        /\ confirmed' \subseteq Sigs /\ cleared' \subseteq posted
    <3>1. SigOf(e) \in Sigs /\ UNCHANGED posted
      BY <1>20, EventType DEF BanRecorded
    <3>2. CASE MarkBanned(SigOf(e))
      BY <3>1, <3>2 DEF MarkBanned
    <3>3. CASE UNCHANGED <<memory, cleared>>
      BY <3>1, <3>3
    <3> QED BY <2>1, <3>2, <3>3
  <2> QED
    BY <1>20, <2>1, <2>2 DEF BanRecorded
<1>21. ASSUME NEW e \in Events, PressFalse(e)
      PROVE  TypeOK'
  <2>1. /\ faults' \in 0 .. MaxFaults /\ card' \in [Events -> {"none", "open", "closed"}]
        /\ MarkFalse(SigOf(e)) \/ UNCHANGED <<memory, cleared>>
    BY <1>21, RecordType DEF PressFalse, MarkFalse
  <2>2. /\ false' \subseteq Sigs /\ attack' \subseteq Sigs /\ false' \intersect attack' = {}
        /\ confirmed' \subseteq Sigs /\ cleared' \subseteq posted
    BY <1>21, <2>1, EventType DEF PressFalse, MarkFalse
  <2> QED
    BY <1>21, <2>1, <2>2 DEF PressFalse
<1>22. CASE Restart
  BY <1>22, SpendType DEF Restart
<1>23. CASE UNCHANGED vars
  BY <1>23 DEF vars
<1> QED
  BY <1>1, <1>2, <1>3, <1>4, <1>5, <1>6, <1>7, <1>8, <1>9, <1>10, <1>11, <1>12,
     <1>13, <1>14, <1>15, <1>16, <1>17, <1>18, <1>19, <1>20, <1>21, <1>22, <1>23
     DEF Next, Handle, Embed, Moderate, Answer

\* Every variable keeps its type and a signature has one verdict, for any detectors,
\* messages, users, hits, settings and faults.
THEOREM TypeCorrect == Spec => []TypeOK
BY TypeInit, TypeStep, PTL DEF Spec
-----------------------------------------------------------------------------
\* What is recorded as an attack, a moderator confirmed.
AttackInv == attack \subseteq confirmed

\* While the overlay has not deleted a gated message that is its alone, only a ban has.
FoundInv ==
    \A e \in Events :
        Gated(e) /\ Sole(e) /\ pc[e] \in {"scan", "fetch", "sniff", "sig", "hold"}
            => MsgOf(e) \in alive \/ UserOf(e) \in banned

\* The ban embed leaves what is not a confirmed hash alone.
EmbedInv == \A e \in Events : Hit[e] # "phash" => embed[e] \in {"none", "done"}

\* A message posted under a FALSE that stands is still under it, ...
ClearedInv == \A m \in cleared : Sig[m] \in false

\* ... and no handler is about to delete it.
SparedInv ==
    \A e \in Events :
        HashOnly(MsgOf(e)) /\ MsgOf(e) \in cleared \intersect alive
            => pc[e] \notin {"hold", "ban", "purge"}

Inv == AttackInv /\ GateHolds /\ FoundInv /\ EmbedInv /\ ClearedInv /\ SparedInv

IInv == TypeOK /\ Inv

\* What FalseIsSkipped asks of a step.
Kept ==
    \A m \in cleared \intersect alive :
        HashOnly(m) /\ m \notin alive' => Author[m] \in banned'

LEMMA GateInit == Init => Inv
BY DEF Init, Inv, AttackInv, GateHolds, FoundInv, EmbedInv, ClearedInv, SparedInv

\* Every step keeps the invariant and takes no spared message away, but by its author's ban.
LEMMA GateStep ==
    ASSUME TypeOK, Inv, [Next]_vars
    PROVE  Inv' /\ Kept
<1> USE DEF TypeOK, Inv, AttackInv, GateHolds, FoundInv, EmbedInv, ClearedInv, SparedInv, Kept,
            Gated, Goto, discord, memory
<1>1. ASSUME NEW m \in Msgs, Post(m)
      PROVE  Inv' /\ Kept
  BY <1>1, EventType DEF Post
<1>2. ASSUME NEW m \in Msgs, AuthorDeletes(m)
      PROVE  Inv' /\ Kept
  BY <1>2, EventType DEF AuthorDeletes, Sole, HashOnly, EmbedDeletes
<1>3. ASSUME NEW e \in Events, Emit(e)
      PROVE  Inv' /\ Kept
  BY <1>3, EventType DEF Emit
<1>4. ASSUME NEW e \in Events, ScanFails(e)
      PROVE  Inv' /\ Kept
  BY <1>4, EventType DEF ScanFails, Unread
<1>5. ASSUME NEW e \in Events, Fetch(e)
      PROVE  Inv' /\ Kept
  <2>1. AttackInv' /\ EmbedInv' /\ ClearedInv'
    BY <1>5, EventType DEF Fetch, Sole, HashOnly, EmbedDeletes
  <2>2. GateHolds'
    BY <1>5, EventType DEF Fetch, Sole, HashOnly, EmbedDeletes
  <2>3. FoundInv'
    BY <1>5, EventType DEF Fetch, Sole, HashOnly, EmbedDeletes
  <2>4. SparedInv'
    BY <1>5, EventType DEF Fetch, Sole, HashOnly, EmbedDeletes
  <2>5. Kept
    BY <1>5, EventType DEF Fetch, Sole, HashOnly, EmbedDeletes
  <2> QED BY <2>1, <2>2, <2>3, <2>4, <2>5
<1>6. ASSUME NEW e \in Events, Sniff(e)
      PROVE  Inv' /\ Kept
  <2>1. AttackInv' /\ EmbedInv' /\ ClearedInv'
    BY <1>6, EventType DEF Sniff, AfterSniff, Sole, HashOnly, EmbedDeletes
  <2>2. GateHolds'
    BY <1>6, EventType DEF Sniff, AfterSniff, Sole, HashOnly, EmbedDeletes
  <2>3. FoundInv'
    BY <1>6, EventType DEF Sniff, AfterSniff, Sole, HashOnly, EmbedDeletes
  <2>4. SparedInv'
    BY <1>6, EventType DEF Sniff, AfterSniff, Sole, HashOnly, EmbedDeletes
  <2>5. Kept
    BY <1>6, EventType DEF Sniff, AfterSniff, Sole, HashOnly, EmbedDeletes
  <2> QED BY <2>1, <2>2, <2>3, <2>4, <2>5
<1>7. ASSUME NEW e \in Events, Blind(e)
      PROVE  Inv' /\ Kept
  BY <1>7, EventType DEF Blind, Unread, Sole, HashOnly, EmbedDeletes
<1>8. ASSUME NEW e \in Events, Judge(e)
      PROVE  Inv' /\ Kept
  BY <1>8, EventType DEF Judge, Verdict
<1>9. ASSUME NEW e \in Events, JudgeByUrl(e)
      PROVE  Inv' /\ Kept
  BY <1>9, EventType DEF JudgeByUrl, Unread, Sole, HashOnly, EmbedDeletes
<1>10. ASSUME NEW e \in Events, Hold(e)
      PROVE  Inv' /\ Kept
  <2>1. AttackInv' /\ EmbedInv' /\ ClearedInv'
    BY <1>10, EventType DEF Hold, Remove, Sole, HashOnly, EmbedDeletes
  <2>2. GateHolds'
    BY <1>10, EventType DEF Hold, Remove, Sole, HashOnly, EmbedDeletes
  <2>3. FoundInv'
    BY <1>10, EventType DEF Hold, Remove, Sole, HashOnly, EmbedDeletes
  <2>4. SparedInv'
    <3>1. HashOnly(MsgOf(e)) => MsgOf(e) \notin cleared \intersect alive
      BY <1>10 DEF Hold
    <3>2. alive' \subseteq alive /\ UNCHANGED cleared
          /\ \A f \in Events : f # e => pc'[f] = pc[f]
      BY <1>10 DEF Hold, Remove
    <3> QED BY <3>1, <3>2 DEF HashOnly, EmbedDeletes
  <2>5. Kept
    <3>1. HashOnly(MsgOf(e)) => MsgOf(e) \notin cleared \intersect alive
      BY <1>10 DEF Hold
    <3>2. \A m \in alive : m # MsgOf(e) => m \in alive'
      BY <1>10 DEF Hold, Remove
    <3> QED BY <3>1, <3>2
  <2> QED BY <2>1, <2>2, <2>3, <2>4, <2>5
<1>11. ASSUME NEW e \in Events, Review(e)
      PROVE  Inv' /\ Kept
  BY <1>11, EventType DEF Review
<1>12. ASSUME NEW e \in Events, Ban(e)
      PROVE  Inv' /\ Kept
  BY <1>12, EventType DEF Ban, TryBan, BanUser
<1>13. ASSUME NEW e \in Events, Purge(e)
      PROVE  Inv' /\ Kept
  <2>1. AttackInv' /\ EmbedInv' /\ ClearedInv'
    BY <1>13, EventType DEF Purge, Remove, Sole, HashOnly, EmbedDeletes
  <2>2. GateHolds'
    BY <1>13, EventType DEF Purge, Remove, Sole, HashOnly, EmbedDeletes
  <2>3. FoundInv'
    BY <1>13, EventType DEF Purge, Remove, Sole, HashOnly, EmbedDeletes
  <2>4. SparedInv'
    <3>1. HashOnly(MsgOf(e)) => MsgOf(e) \notin cleared \intersect alive
      BY <1>13 DEF Purge
    <3>2. alive' \subseteq alive /\ UNCHANGED cleared
          /\ \A f \in Events : f # e => pc'[f] = pc[f]
      BY <1>13 DEF Purge, Remove
    <3> QED BY <3>1, <3>2 DEF HashOnly, EmbedDeletes
  <2>5. Kept
    <3>1. HashOnly(MsgOf(e)) => MsgOf(e) \notin cleared \intersect alive
      BY <1>13 DEF Purge
    <3>2. \A m \in alive : m # MsgOf(e) => m \in alive'
      BY <1>13 DEF Purge, Remove
    <3> QED BY <3>1, <3>2
  <2> QED BY <2>1, <2>2, <2>3, <2>4, <2>5
<1>14. ASSUME NEW e \in Events, EmbedConfirm(e)
      PROVE  Inv' /\ Kept
  BY <1>14, EventType DEF EmbedConfirm
<1>15. ASSUME NEW e \in Events, EmbedDelete(e)
      PROVE  Inv' /\ Kept
  <2>1. AttackInv' /\ EmbedInv' /\ ClearedInv'
    BY <1>15, EventType DEF EmbedDelete, Remove, Sole, HashOnly, EmbedDeletes
  <2>2. GateHolds'
    BY <1>15, EventType DEF EmbedDelete, Remove, Sole, HashOnly, EmbedDeletes
  <2>3. FoundInv'
    BY <1>15, EventType DEF EmbedDelete, Remove, Sole, HashOnly, EmbedDeletes
  <2>4. SparedInv'
    BY <1>15, EventType DEF EmbedDelete, Remove, Sole, HashOnly, EmbedDeletes
  <2>5. Kept
    BY <1>15, EventType DEF EmbedDelete, Remove, Sole, HashOnly, EmbedDeletes
  <2> QED BY <2>1, <2>2, <2>3, <2>4, <2>5
<1>16. ASSUME NEW e \in Events, EmbedBan(e)
      PROVE  Inv' /\ Kept
  BY <1>16, EventType DEF EmbedBan, TryBan, BanUser
<1>17. ASSUME NEW e \in Events, PressBan(e)
      PROVE  Inv' /\ Kept
  BY <1>17, EventType DEF PressBan
<1>18. ASSUME NEW e \in Events, BanDone(e)
      PROVE  Inv' /\ Kept
  BY <1>18, EventType DEF BanDone, BanUser
<1>19. ASSUME NEW e \in Events, BanFails(e)
      PROVE  Inv' /\ Kept
  BY <1>19, EventType DEF BanFails
<1>20. ASSUME NEW e \in Events, BanRecorded(e)
      PROVE  Inv' /\ Kept
  <2>1. MarkBanned(SigOf(e)) \/ UNCHANGED <<memory, cleared>>
    BY <1>20, RecordType DEF BanRecorded, MarkBanned
  <2>2. UNCHANGED <<discord, pc, embed, blind>>
    BY <1>20 DEF BanRecorded
  <2>3. FoundInv' /\ EmbedInv' /\ Kept
    BY <2>2 DEF Sole, EmbedDeletes
  <2>4. AttackInv' /\ GateHolds' /\ ClearedInv' /\ SparedInv'
    <3>1. CASE MarkBanned(SigOf(e))
      <4>1. AttackInv' /\ ClearedInv'
        BY <2>2, <3>1 DEF MarkBanned
      <4>2. confirmed \subseteq confirmed' /\ cleared' \subseteq cleared
        BY <3>1 DEF MarkBanned
      <4>3. GateHolds'
        BY <2>2, <4>2 DEF Sole, EmbedDeletes
      <4>4. SparedInv'
        BY <2>2, <4>2 DEF HashOnly, EmbedDeletes
      <4> QED BY <4>1, <4>3, <4>4
    <3>2. CASE UNCHANGED <<memory, cleared>>
      BY <2>2, <3>2 DEF Sole, HashOnly, EmbedDeletes
    <3> QED BY <2>1, <3>1, <3>2
  <2> QED BY <2>3, <2>4
<1>21. ASSUME NEW e \in Events, PressFalse(e)
      PROVE  Inv' /\ Kept
  <2>1. MarkFalse(SigOf(e)) \/ UNCHANGED <<memory, cleared>>
    BY <1>21, RecordType DEF PressFalse, MarkFalse
  <2>2. UNCHANGED <<discord, pc, embed, blind>>
    BY <1>21 DEF PressFalse
  <2>3. FoundInv' /\ EmbedInv' /\ Kept
    BY <2>2 DEF Sole, EmbedDeletes
  <2>4. AttackInv' /\ GateHolds' /\ ClearedInv' /\ SparedInv'
    <3>1. CASE MarkFalse(SigOf(e))
      <4>1. AttackInv' /\ ClearedInv'
        BY <2>2, <3>1 DEF MarkFalse
      <4>2. confirmed \subseteq confirmed' /\ cleared' \subseteq cleared
        BY <3>1 DEF MarkFalse
      <4>3. GateHolds'
        BY <2>2, <4>2 DEF Sole, EmbedDeletes
      <4>4. SparedInv'
        BY <2>2, <4>2 DEF HashOnly, EmbedDeletes
      <4> QED BY <4>1, <4>3, <4>4
    <3>2. CASE UNCHANGED <<memory, cleared>>
      BY <2>2, <3>2 DEF Sole, HashOnly, EmbedDeletes
    <3> QED BY <2>1, <3>1, <3>2
  <2> QED BY <2>3, <2>4
<1>22. CASE Restart
  BY <1>22 DEF Restart
<1>23. CASE UNCHANGED vars
  BY <1>23 DEF vars
<1> QED
  BY <1>1, <1>2, <1>3, <1>4, <1>5, <1>6, <1>7, <1>8, <1>9, <1>10, <1>11, <1>12,
     <1>13, <1>14, <1>15, <1>16, <1>17, <1>18, <1>19, <1>20, <1>21, <1>22, <1>23
     DEF Next, Handle, Embed, Moderate, Answer

LEMMA Inductive == Spec => []IInv
<1>1. Init => IInv
  BY TypeInit, GateInit DEF IInv
<1>2. IInv /\ [Next]_vars => IInv'
  BY TypeStep, GateStep DEF IInv
<1> QED
  BY <1>1, <1>2, PTL DEF Spec

\* "delete-only (avoid false-positive ban)", with any number of detectors: no handler goes to
\* ban the author of a gated message no moderator confirmed, unless it was judged without
\* the message or its bytes; and never where the message is that handler's alone.
THEOREM GateStands == Spec => []GateHolds
<1>1. IInv => GateHolds
  BY DEF IInv, Inv
<1> QED
  BY Inductive, <1>1, PTL

\* "Signature will be skipped next time": a message that learned hashes alone hit, posted
\* under a FALSE that stands, goes only with its banned author's others, however many
\* detectors and handlers it has.
THEOREM FalseRespected == Spec => FalseIsSkipped
<1>1. IInv /\ [Next]_vars => [Kept]_vars
  BY GateStep DEF IInv
<1> QED
  BY Inductive, <1>1, PTL DEF Spec, FalseIsSkipped, Kept
=============================================================================
