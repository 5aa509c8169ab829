---------------------------- MODULE Guards_proofs ----------------------------
(***************************************************************************)
(* Theorems of Guards for any messages, users, images and faults.          *)
(***************************************************************************)
EXTENDS Guards, FiniteSetTheorems, TLAPS

\* Each listener runs once, and a Groq guard holds images while it looks and asks.
PlaceInv ==
    /\ coming \intersect posted = {}
    /\ \A h \in Handlers : pc[h] # "off" =>
           h[2] \in posted /\ (h[1] = "regroq" => h[2] \in edited)
    /\ left \in [Handlers -> SUBSET Pics] /\ cand \in [Handlers -> SUBSET Pics]
    /\ at \in [Handlers -> Pics \union {None}]
    /\ \A h \in Handlers : pc[h] \in {"sniff", "gate", "ask"} => at[h] \in Pics

\* What the lists tell of a message.
ToldOf(e, m) == m \in e.links \/ ~Linked(m) \/ Full(e)

Waits(u, m) == evidence[u].last # None /\ ToldOf(evidence[u], m)

\* Evidence waits for its ban, and is there when the ban comes.
EvidenceInv ==
    /\ \A u \in Users : log[u] = "none" <=> u \notin banned
    /\ \A u \in Users : log[u] = "audit" /\ u \notin swept =>
           \A h \in by[u] : h[1] # "spam" => Waits(u, h[2])
    /\ \A h \in Handlers : pc[h] = "ban" /\ h[1] # "spam" =>
           Who(h) \in banned \union swept \/ Waits(Who(h), h[2])

\* What is recorded is of the user, and a cause.
RecordInv ==
    \A u \in Users : LET e == evidence[u] IN
        e.last # None => Author[e.last] = u /\ Cause(e.last) /\ ToldOf(e, e.last)

\* A guard that is about to ban has grounds, and the user whose mass mentions are counted
\* wrote them.
CauseInv ==
    /\ \A h \in Handlers : pc[h] = "ban" => Cause(h[2])
    /\ \A h \in Handlers : pc[h] = "delete" /\ h[1] = "attach" => Has(h, "sus")
    /\ \A u \in Users : \A m \in track[u] :
           m \in posted /\ Author[m] = u /\ "mass" \in Traits[m]

\* The handler will put p to Groq.
HoldsPic(h, p) == p \in cand[h] \/ (pc[h] \in {"gate", "ask"} /\ at[h] = p)

\* An image that was neither looked at by two at once nor forgotten is marked from the time
\* a handler holds it, and held by one handler and once, until it was asked about.
AskInv ==
    \A p \in Pics \ twice :
        /\ \A h \in Handlers : HoldsPic(h, p) => p \in seen /\ asked[p] = 0
        /\ \A h, g \in Handlers : HoldsPic(h, p) /\ HoldsPic(g, p) => h = g
        /\ \A h \in Handlers : ~(p \in cand[h] /\ pc[h] \in {"gate", "ask"} /\ at[h] = p)
        /\ asked[p] > 0 => p \in seen

GInv ==
    /\ TypeOK /\ PlaceInv /\ EvidenceInv /\ RecordInv /\ CauseInv /\ AskInv
    /\ EvidenceSettled /\ BannedForCause /\ AskedOnce

-----------------------------------------------------------------------------
\* A handler is a guard and a message.
LEMMA HandlerTypes ==
  ASSUME NEW h \in Handlers
  PROVE  h[1] \in Guard /\ h[2] \in Msgs /\ Who(h) \in Users /\ h # None
BY ConstAssumption DEF Handlers, Who

LEMMA SpendKeeps ==
  ASSUME TypeOK, NEW kind, Spend(kind)
  PROVE  faults' \in 0 .. MaxFaults
BY ConstAssumption DEF TypeOK, Spend

\* Grounds stay.
LEMMA GroundsStay ==
  ASSUME posted \subseteq posted', says \subseteq says', mute \subseteq mute'
  PROVE  \A m : Cause(m) => Cause(m)'
BY DEF Cause, Spray

LEMMA TellsStays ==
  ASSUME posted \subseteq posted', says \subseteq says', mute \subseteq mute', UNCHANGED shown,
         NEW u, NEW m, Tells(shown[u], m)
  PROVE  Tells(shown[u], m)'
BY GroundsStay DEF Tells, Full, Linked

\* What a step leaves of each part of the invariant that it does not touch.
LEMMA EvidenceFrame ==
  ASSUME GInv, UNCHANGED <<evidence, log, by, banned, swept, shown>>, spare \subseteq spare',
         posted \subseteq posted', says \subseteq says', mute \subseteq mute',
         \A h \in Handlers : pc'[h] = "ban" <=> pc[h] = "ban"
  PROVE  EvidenceInv' /\ RecordInv' /\ EvidenceSettled'
<1>1. EvidenceInv'
  BY DEF GInv, EvidenceInv, Waits, ToldOf, Full, Linked, Who
<1>2. RecordInv'
  BY GroundsStay DEF GInv, RecordInv, ToldOf, Full, Linked
<1>3. EvidenceSettled'
  BY TellsStays DEF GInv, EvidenceSettled, NoEvidence, Who
<1> QED BY <1>1, <1>2, <1>3

LEMMA CauseFrame ==
  ASSUME GInv, UNCHANGED by,
         posted \subseteq posted', says \subseteq says', mute \subseteq mute',
         \A u \in Users : track'[u] \subseteq track[u],
         \A h \in Handlers : /\ pc'[h] = "ban" => pc[h] = "ban"
                             /\ pc'[h] = "delete" => pc[h] = "delete"
  PROVE  CauseInv' /\ BannedForCause'
<1>1. \A h \in Handlers : Cause(h[2]) => Cause(h[2])'
  BY GroundsStay
<1>2. CauseInv'
  BY <1>1 DEF GInv, CauseInv, Has
<1>3. BannedForCause'
  <2>1. \A u \in Users : \A h \in by[u] : h \in Handlers /\ Who(h) = u /\ Cause(h[2])
    BY DEF GInv, TypeOK, BannedForCause, Cause, Who
  <2>2. \A u \in Users : \A h \in by'[u] : Who(h) = u /\ Cause(h[2])'
    BY <1>1, <2>1
  <2> QED BY <2>2 DEF BannedForCause, Cause, Who
<1> QED BY <1>2, <1>3

LEMMA AskFrame ==
  ASSUME GInv, UNCHANGED <<seen, cand, at, asked, twice>>,
         \A h \in Handlers : pc'[h] \in {"gate", "ask"} => pc[h] \in {"gate", "ask"}
  PROVE  AskInv' /\ AskedOnce'
BY DEF GInv, AskInv, HoldsPic, AskedOnce

\* The places of a handler while it judges.
Ahead == {"webp", "hash", "look", "read", "delete", "ban", "done"}

\* Where a guard goes on, and what it records.
Outcome(h) ==
    /\ UNCHANGED <<log, shown, by, spare, swept>>
    /\ \E w \in Ahead :
          /\ Goto(h, w)
          /\ w = "ban" => Cause(h[2])' /\ (h[1] = "spam" \/ Record(h))
          /\ w = "delete" /\ h[1] = "attach" => Has(h, "sus")
          /\ evidence' = evidence \/ (w = "ban" /\ Record(h))

\* A step of a guard other than Groq's, up to the ban.
Verdict(h) ==
    /\ UNCHANGED <<coming, posted, edited, banned, acted, groq>>
    /\ pc[h] \notin {"off", "ban", "gate", "ask"}
    /\ Outcome(h)
    /\ gone' \in {gone, gone \union {h[2]}} /\ stuck' \in {stuck, stuck \union {h[2]}}
    /\ says' \in {says, says \union {h[2]}} /\ mute' \in {mute, mute \union {h[2]}}
    /\ weak' = weak /\ queue' \in {queue, queue \union {h[2]}}
    /\ \/ track' = track
       \/ track' = [track EXCEPT ![Who(h)] = @ \union {h[2]}] /\ Has(h, "mass")
    /\ faults' \in 0 .. MaxFaults

\* The message recorded is named last, and its links find a place unless the lists are full;
\* what the lists name they go on to name.
LEMMA RecordMerges ==
  ASSUME TypeOK, NEW h \in Handlers, Record(h)
  PROVE  /\ evidence' \in [Users -> Evidence]
         /\ \A u \in Users \ {Who(h)} : evidence'[u] = evidence[u]
         /\ evidence'[Who(h)].last = h[2] /\ h[2] # None /\ ToldOf(evidence'[Who(h)], h[2])
         /\ \A m : ToldOf(evidence[Who(h)], m) => ToldOf(evidence'[Who(h)], m)
<1> DEFINE e == evidence[Who(h)]
<1>1. PICK links \in Merged(e, h[2]) : evidence' = [evidence EXCEPT ![Who(h)] = [last |-> h[2], links |-> links]]
  BY DEF Record
<1>2. Who(h) \in Users /\ h[2] \in Msgs /\ h[2] # None /\ e \in Evidence
  BY HandlerTypes, ConstAssumption DEF TypeOK
<1>3. links \in {e.links, e.links \union {h[2]}} /\ (h[2] \in links \/ ~Linked(h[2]) \/ Full(e))
  BY <1>1 DEF Merged
<1>4. links \in SUBSET Msgs
  BY <1>2, <1>3 DEF Evidence
<1>5. evidence'[Who(h)] = [last |-> h[2], links |-> links]
      /\ \A u \in Users \ {Who(h)} : evidence'[u] = evidence[u]
  BY <1>1, <1>2 DEF TypeOK
<1>6. evidence' \in [Users -> Evidence]
  BY <1>1, <1>2, <1>4 DEF TypeOK, Evidence
<1>7. \A m : ToldOf(e, m) => ToldOf(evidence'[Who(h)], m)
  BY <1>3, <1>5 DEF ToldOf, Full
<1>8. ToldOf(evidence'[Who(h)], h[2])
  BY <1>3, <1>5 DEF ToldOf, Full
<1> QED BY <1>2, <1>5, <1>6, <1>7, <1>8

LEMMA VerdictInv ==
  ASSUME GInv, NEW h \in Handlers, Verdict(h)
  PROVE  GInv'
<1> USE HandlerTypes
<1>1. PICK w \in Ahead :
          /\ pc' = [pc EXCEPT ![h] = w]
          /\ w = "ban" => Cause(h[2])' /\ (h[1] = "spam" \/ Record(h))
          /\ w = "delete" /\ h[1] = "attach" => Has(h, "sus")
          /\ evidence' = evidence \/ (w = "ban" /\ Record(h))
  BY DEF Verdict, Outcome, Goto
<1>2. /\ pc'[h] = w /\ \A g \in Handlers \ {h} : pc'[g] = pc[g]
      /\ pc' \in [Handlers -> {"off", "new", "webp", "hash", "look", "read", "delete", "scan",
                               "sniff", "want", "gate", "ask", "ban", "done"}]
  BY <1>1 DEF GInv, TypeOK, Ahead
<1>3. h[2] \in posted
  BY DEF GInv, PlaceInv, Verdict, Outcome
<1>4. TypeOK'
  <2>1. {g \in Handlers : pc'[g] \in {"gate", "ask"}} = {g \in Handlers : pc[g] \in {"gate", "ask"}}
    BY <1>2 DEF Verdict, Outcome, Ahead
  <2>2. permit' = permit
    BY DEF Verdict, Outcome, groq
  <2>3. (edited \union gone \union queue \union stuck \union says \union mute \union weak \subseteq posted)'
    BY <1>3 DEF GInv, TypeOK, Verdict, Outcome
  <2>4. track' \in [Users -> SUBSET Msgs] /\ evidence' \in [Users -> Evidence]
    BY <1>1, RecordMerges DEF GInv, TypeOK, Verdict, Outcome
  <2>5. UNCHANGED <<banned, acted, spare, swept, log, by, seen, twice, asked>>
    BY DEF Verdict, Outcome, groq
  <2> QED BY <1>2, <2>1, <2>2, <2>3, <2>4, <2>5 DEF GInv, TypeOK, Verdict, Outcome
<1>5. PlaceInv'
  <2>1. UNCHANGED <<coming, posted, edited, left, cand, at, shown>>
    BY DEF Verdict, Outcome, groq
  <2>2. pc[h] # "off" /\ w \notin {"sniff", "gate", "ask"}
    BY DEF Verdict, Outcome, Ahead
  <2> QED BY <1>2, <2>1, <2>2 DEF GInv, PlaceInv
<1>6. EvidenceInv' /\ RecordInv' /\ EvidenceSettled'
  <2>1. UNCHANGED <<log, by, banned, swept, shown, spare, posted>> /\ pc[h] # "ban"
        /\ says \subseteq says' /\ mute \subseteq mute'
    BY DEF Verdict, Outcome
  <2>2. \A u \in Users : \A m : Waits(u, m) => Waits(u, m)'
    BY <1>1, RecordMerges DEF GInv, Waits, ToldOf, Full, Linked
  <2>3. \A u \in Users : evidence'[u] # evidence[u] => Who(h) = u /\ pc'[h] = "ban"
    BY <1>1, <1>2, RecordMerges DEF GInv
  <2>4. pc'[h] = "ban" /\ h[1] # "spam" => Waits(Who(h), h[2])'
    BY <1>1, <1>2, RecordMerges DEF GInv, Waits, ToldOf, Full, Linked
  <2>5. EvidenceInv'
    BY <1>2, <2>1, <2>2, <2>4 DEF GInv, EvidenceInv, TypeOK, Who
  <2>6. RecordInv'
    <3>1. \A m : Cause(m) => Cause(m)'
      BY <2>1, GroundsStay
    <3>2. CASE evidence' = evidence
      BY <3>1, <3>2 DEF GInv, RecordInv, ToldOf, Full, Linked
    <3>3. CASE w = "ban" /\ Record(h)
      <4>1. Cause(h[2])' /\ Author[h[2]] = Who(h)
        BY <1>1, <3>3 DEF Who
      <4>2. \A u \in Users \ {Who(h)} : evidence'[u] = evidence[u]
        BY <3>3, RecordMerges DEF GInv
      <4>3. evidence'[Who(h)].last = h[2] /\ ToldOf(evidence'[Who(h)], h[2])
        BY <3>3, RecordMerges DEF GInv
      <4> QED BY <3>1, <4>1, <4>2, <4>3 DEF GInv, RecordInv, ToldOf, Full, Linked
    <3> QED BY <1>1, <3>2, <3>3
  <2>7. EvidenceSettled'
    <3>1. \A u \in Users : \A m : Tells(shown[u], m) => Tells(shown[u], m)'
      BY <2>1, TellsStays
    <3> QED BY <1>2, <2>1, <2>3, <3>1 DEF GInv, EvidenceSettled, NoEvidence, Who
  <2> QED BY <2>5, <2>6, <2>7
<1>7. CauseInv' /\ BannedForCause'
  <2>1. \A g \in Handlers : Cause(g[2]) => Cause(g[2])'
    BY GroundsStay DEF Verdict, Outcome
  <2>2. \A u \in Users : \A m \in track'[u] :
           m \in track[u] \/ (m = h[2] /\ u = Who(h) /\ Has(h, "mass"))
    BY DEF Verdict, Outcome, GInv, TypeOK
  <2>3. CauseInv'
    BY <1>1, <1>2, <1>3, <2>1, <2>2 DEF GInv, CauseInv, Verdict, Outcome, Has, Who
  <2>4. \A u \in Users : \A g \in by'[u] : g \in Handlers /\ Who(g) = u /\ Cause(g[2])'
    BY <2>1 DEF GInv, TypeOK, BannedForCause, Cause, Who, Verdict, Outcome
  <2> QED BY <2>3, <2>4 DEF BannedForCause, Cause, Who
<1>8. AskInv' /\ AskedOnce'
  BY <1>2, AskFrame DEF Verdict, Outcome, groq, Ahead
<1> QED BY <1>4, <1>5, <1>6, <1>7, <1>8 DEF GInv
\* The traits of a message that a guard convicts name its grounds.
LEMMA TraitGrounds ==
  ASSUME NEW h \in Handlers,
         \/ \E t \in {"nsfw", "domain", "black", "scam"} : Has(h, t)
         \/ Has(h, "mass") /\ (Has(h, "url") \/ Has(h, "file") \/ Has(h, "many"))
         \/ Has(h, "sus") /\ Has(h, "archive")
  PROVE  Cause(h[2])'
<1>1. Has(h, "many") => Has(h, "file")
  BY ConstAssumption, HandlerTypes DEF Has
<1> QED BY <1>1 DEF Cause, Has

\* A conviction is an outcome if it has grounds; to go on elsewhere needs none.
LEMMA Decides ==
  ASSUME TypeOK, NEW h \in Handlers
  PROVE  /\ Convict(h) /\ Cause(h[2])' => Outcome(h)
         /\ \A w \in Ahead \ {"ban"} :
               Goto(h, w) /\ NoBan /\ (w = "delete" /\ h[1] = "attach" => Has(h, "sus")) => Outcome(h)
<1>1. ASSUME Convict(h), Cause(h[2])'
      PROVE  Outcome(h)
  <2>1. "ban" \in Ahead
    BY DEF Ahead
  <2> QED BY <1>1, <2>1 DEF Convict, Outcome
<1>2. ASSUME NEW w \in Ahead \ {"ban"}, Goto(h, w), NoBan, w = "delete" /\ h[1] = "attach" => Has(h, "sus")
      PROVE  Outcome(h)
  <2>1. UNCHANGED <<evidence, log, shown, by, spare, swept>>
    BY <1>2 DEF NoBan, ban
  <2> QED BY <1>2, <2>1 DEF Outcome
<1> QED BY <1>1, <1>2

LEMMA FirewallStep ==
  ASSUME GInv, NEW h \in Handlers, Firewall(h)
  PROVE  Verdict(h)
<1>1. Rule(h) \in Ahead \ {"delete"} /\ (Rule(h) = "ban" => Cause(h[2])')
  BY TraitGrounds DEF Rule, Ahead
<1>2. AfterWebp(h) \in Ahead \ {"ban", "delete"}
  BY DEF AfterWebp, Ahead
<1>3. Has(h, "black") => Cause(h[2])'
  BY TraitGrounds
<1>4. \/ Convict(h) /\ Cause(h[2])'
      \/ \E w \in Ahead \ {"ban", "delete"} : Goto(h, w) /\ NoBan
  BY <1>1, <1>2, <1>3 DEF Firewall, Ahead
<1>5. Outcome(h)
  BY <1>4, Decides DEF GInv
<1>6. faults' \in 0 .. MaxFaults /\ pc[h] \notin {"off", "ban", "gate", "ask"}
  BY SpendKeeps DEF Firewall, GInv, TypeOK
<1>7. UNCHANGED <<discord, spam, cooling, stuck, groq, word>>
  BY DEF Firewall
<1> QED BY <1>5, <1>6, <1>7 DEF Verdict, discord, spam, word, groq

\* Two channels among the counted mass mentions, this one included, are a spray.
LEMMA SpreadIsSpray ==
  ASSUME GInv, NEW h \in Handlers, h[1] = "spam", pc[h] = "new", posted' = posted,
         track' = [track EXCEPT ![Who(h)] = @ \union {h[2]}], Spread(h)
  PROVE  Cause(h[2])'
<1> DEFINE mine == track'[Who(h)]
           channels == {Channel[m] : m \in mine}
<1>1. Who(h) \in Users /\ h[2] \in mine /\ Has(h, "mass") /\ h[2] \in posted
  BY HandlerTypes DEF GInv, TypeOK, PlaceInv, Handlers, Has
<1>2. \A m \in mine : m \in posted /\ Author[m] = Who(h) /\ "mass" \in Traits[m]
  BY <1>1 DEF GInv, TypeOK, CauseInv, Who, Has
<1>3. \E n \in mine : Channel[n] # Channel[h[2]]
  <2> SUFFICES ASSUME \A n \in mine : Channel[n] = Channel[h[2]]
               PROVE  FALSE
    OBVIOUS
  <2>1. channels = {Channel[h[2]]}
    BY <1>1
  <2>2. Cardinality(channels) = 1
    BY <2>1, FS_Singleton
  <2>3. Cardinality(channels) >= 2
    BY DEF Spread
  <2> QED BY <2>2, <2>3
<1>4. Spray(h[2])'
  BY <1>1, <1>2, <1>3 DEF Spray, Has, Who
<1> QED BY <1>4 DEF Cause

LEMMA SpamStep ==
  ASSUME GInv, NEW h \in Handlers, Spam(h)
  PROVE  Verdict(h)
<1>1. h[1] = "spam" /\ pc[h] = "new" /\ queue' = queue \union {h[2]} /\ Has(h, "mass")
  BY DEF Spam, Queued, Handlers, Has
<1>2. UNCHANGED <<discord, acted, cooling, ban, stuck, groq, word, faults>>
  BY DEF Spam
<1>3. CASE Who(h) \in acted
  <2>1. Goto(h, "done") /\ track' = track
    BY <1>3 DEF Spam
  <2>2. Outcome(h)
    BY <1>2, <2>1, Decides DEF GInv, Ahead, NoBan
  <2> QED BY <1>1, <1>2, <2>1, <2>2 DEF Verdict, discord, word, GInv, TypeOK
<1>4. CASE Who(h) \notin acted
  <2>1. track' = [track EXCEPT ![Who(h)] = @ \union {h[2]}]
    BY <1>4 DEF Spam
  <2>2. posted' = posted /\ UNCHANGED <<evidence, log, shown, by, spare, swept>>
    BY <1>2 DEF discord, ban
  <2>3. PICK w \in {"ban", "done"} : Goto(h, w) /\ (w = "ban" => Has(h, "url") \/ Has(h, "file") \/ Spread(h))
    BY <1>4 DEF Spam
  <2>4. w = "ban" => Cause(h[2])'
    BY <1>1, <2>1, <2>2, <2>3, SpreadIsSpray, TraitGrounds
  <2>5. Outcome(h)
    BY <1>1, <2>2, <2>3, <2>4 DEF Outcome, Ahead
  <2> QED BY <1>1, <1>2, <2>1, <2>5 DEF Verdict, discord, word, GInv, TypeOK
<1> QED BY <1>3, <1>4

\* A deletion fails or takes the message.
LEMMA Removal ==
  ASSUME TypeOK, NEW h \in Handlers, Remove(h)
  PROVE  /\ gone' \in {gone, gone \union {h[2]}} /\ stuck' \in {stuck, stuck \union {h[2]}}
         /\ faults' \in 0 .. MaxFaults /\ UNCHANGED <<coming, posted, edited, banned>>
<1>1. faults' \in 0 .. MaxFaults
  BY SpendKeeps DEF Remove, TypeOK
<1> QED BY <1>1 DEF Remove

LEMMA AttachStep ==
  ASSUME GInv, NEW h \in Handlers, Attach(h)
  PROVE  Verdict(h)
<1>1. h[1] = "attach" /\ UNCHANGED <<spam, cooling, groq>> /\ Has(h, "file")
  BY DEF Attach, Handlers, Has
<1>2. CASE pc[h] = "new" /\ Burst(h) /\ UNCHANGED <<discord, stuck, word, faults>>
  <2>1. Has(h, "mass") => Cause(h[2])'
    BY <1>1, TraitGrounds
  <2>2. \/ Convict(h) /\ Cause(h[2])'
        \/ \E w \in Ahead \ {"ban", "delete"} : Goto(h, w) /\ NoBan
    BY <1>2, <2>1 DEF Burst, Ahead
  <2>3. Outcome(h)
    BY <2>2, Decides DEF GInv
  <2> QED BY <1>1, <1>2, <2>3 DEF Verdict, discord, spam, word, GInv, TypeOK
<1>3. CASE pc[h] = "look" /\ Look(h) /\ UNCHANGED <<discord, stuck>>
  <2>1. \/ Convict(h) /\ h[2] \in (says \union mute)'
        \/ Goto(h, "read") /\ NoBan
    BY <1>3 DEF Look
  <2>2. h[2] \in (says \union mute)' => Cause(h[2])'
    BY DEF Cause
  <2>3. Outcome(h)
    BY <2>1, <2>2, Decides DEF GInv, Ahead
  <2>4. faults' \in 0 .. MaxFaults
    BY <1>3, SpendKeeps DEF Look, GInv, TypeOK
  <2>5. says' \in {says, says \union {h[2]}} /\ mute' \in {mute, mute \union {h[2]}} /\ weak' = weak
    BY <1>3 DEF Look, word
  <2> QED BY <1>1, <1>3, <2>3, <2>4, <2>5 DEF Verdict, discord, spam
<1>4. CASE /\ pc[h] = "read" /\ NoBan /\ UNCHANGED <<discord, stuck, word>>
           /\ \/ Goto(h, IF Has(h, "sus") THEN "delete" ELSE "done") /\ UNCHANGED faults
              \/ Spend("read") /\ Goto(h, "done")
  <2>1. \E w \in Ahead \ {"ban"} : Goto(h, w) /\ NoBan /\ (w = "delete" => Has(h, "sus"))
    BY <1>4 DEF Ahead
  <2>2. Outcome(h)
    BY <2>1, Decides DEF GInv
  <2>3. faults' \in 0 .. MaxFaults
    BY <1>4, SpendKeeps DEF GInv, TypeOK
  <2> QED BY <1>1, <1>4, <2>2, <2>3 DEF Verdict, discord, spam, word
<1>5. CASE /\ pc[h] = "delete" /\ Remove(h) /\ UNCHANGED word
           /\ IF Has(h, "archive") THEN Convict(h) ELSE (Goto(h, "done") /\ NoBan)
  <2>1. Has(h, "archive") => Cause(h[2])'
    BY <1>1, <1>5, TraitGrounds DEF GInv, CauseInv
  <2>2. \/ Convict(h) /\ Cause(h[2])'
        \/ Goto(h, "done") /\ NoBan
    BY <1>5, <2>1
  <2>3. Outcome(h)
    BY <2>2, Decides DEF GInv, Ahead
  <2> QED BY <1>1, <1>5, <2>3, Removal DEF Verdict, spam, word, GInv
<1> QED BY <1>2, <1>3, <1>4, <1>5 DEF Attach

LEMMA HardenStep ==
  ASSUME GInv, NEW h \in Handlers, Harden(h)
  PROVE  Verdict(h)
<1>1. h[1] = "harden" /\ NoBan /\ UNCHANGED <<spam, cooling, groq>>
  BY DEF Harden
<1>2. \E w \in Ahead \ {"ban"} : Goto(h, w)
  BY DEF Harden, Ahead
<1>3. Outcome(h)
  BY <1>1, <1>2, Decides DEF GInv
<1>4. /\ gone' \in {gone, gone \union {h[2]}} /\ stuck' \in {stuck, stuck \union {h[2]}}
      /\ UNCHANGED <<coming, posted, edited, banned>>
  BY Removal DEF Harden, GInv, discord
<1>5. faults' \in 0 .. MaxFaults
  BY Removal, SpendKeeps DEF Harden, GInv, TypeOK
<1>6. says' \in {says, says \union {h[2]}} /\ UNCHANGED <<mute, weak>>
  BY DEF Harden, word
<1>7. pc[h] \notin {"off", "ban", "gate", "ask"}
  BY DEF Harden
<1> QED BY <1>1, <1>3, <1>4, <1>5, <1>6, <1>7 DEF Verdict, spam

LEMMA CasinoStep ==
  ASSUME GInv, NEW h \in Handlers, Casino(h)
  PROVE  Verdict(h)
<1>1. h[1] = "casino" /\ UNCHANGED <<spam, groq, word>> /\ pc[h] \in {"new", "delete"}
  BY DEF Casino
<1>2. Has(h, "scam") => Cause(h[2])'
  BY TraitGrounds
<1>3. \/ Convict(h) /\ Cause(h[2])'
      \/ \E w \in Ahead \ {"ban"} : Goto(h, w) /\ NoBan
  BY <1>2 DEF Casino, Ahead
<1>4. Outcome(h)
  BY <1>1, <1>3, Decides DEF GInv
<1>5. /\ gone' \in {gone, gone \union {h[2]}} /\ stuck' \in {stuck, stuck \union {h[2]}}
      /\ faults' \in 0 .. MaxFaults /\ UNCHANGED <<coming, posted, edited, banned>>
  BY Removal DEF Casino, GInv, TypeOK, discord
<1> QED BY <1>1, <1>4, <1>5 DEF Verdict, spam, word

\* What is left to show of a step that touches neither the places of the Groq guards nor
\* their images.
LEMMA PlaceFrame ==
  ASSUME GInv, UNCHANGED <<coming, posted, edited, left, cand, at>>,
         \A h \in Handlers : /\ pc[h] = "off" => pc'[h] = "off"
                             /\ pc'[h] \in {"sniff", "gate", "ask"} => pc[h] = pc'[h]
  PROVE  PlaceInv'
BY DEF GInv, PlaceInv

LEMMA PermitFrame ==
  ASSUME TypeOK, permit' = permit,
         \A h \in Handlers : pc'[h] \in {"gate", "ask"} <=> pc[h] \in {"gate", "ask"}
  PROVE  {h \in Handlers : pc'[h] \in {"gate", "ask"}} = {permit'} \ {None}
<1>1. {h \in Handlers : pc'[h] \in {"gate", "ask"}} = {h \in Handlers : pc[h] \in {"gate", "ask"}}
  OBVIOUS
<1> QED BY <1>1 DEF TypeOK

\* A user is banned, by the handler or without one.
LEMMA BanishInv ==
  ASSUME GInv, NEW u \in Users, u \notin banned, NEW who, Banish(u, who),
         UNCHANGED <<posted, track, evidence, shown, swept, says, mute>>,
         spare' = spare,
         \A h \in Handlers : /\ pc'[h] \in {pc[h], "done"}
                             /\ pc'[h] # pc[h] => pc[h] = "ban" /\ Who(h) = u,
         \A h \in who : h \in Handlers /\ pc[h] = "ban" /\ Who(h) = u
  PROVE  EvidenceInv' /\ RecordInv' /\ EvidenceSettled' /\ CauseInv' /\ BannedForCause'
<1>1. /\ banned' = banned \union {u}
      /\ by'[u] = who /\ \A x \in Users \ {u} : by'[x] = by[x]
      /\ log'[u] = "audit" /\ \A x \in Users \ {u} : log'[x] = log[x]
  BY DEF Banish, GInv, TypeOK
<1>2. \A h \in Handlers : pc'[h] = "ban" => pc[h] = "ban"
  OBVIOUS
<1>3. EvidenceInv'
  <2>1. \A x \in Users : log'[x] = "none" <=> x \notin banned'
    BY <1>1 DEF GInv, EvidenceInv
  <2>2. \A x \in Users : log'[x] = "audit" /\ x \notin swept =>
            \A h \in by'[x] : h[1] # "spam" => Waits(x, h[2])
    BY <1>1 DEF GInv, EvidenceInv
  <2>3. \A h \in Handlers : pc'[h] = "ban" /\ h[1] # "spam" =>
            Who(h) \in banned' \union swept \/ Waits(Who(h), h[2])
    BY <1>1, <1>2 DEF GInv, EvidenceInv
  <2> QED BY <2>1, <2>2, <2>3 DEF EvidenceInv, Waits, ToldOf, Full, Linked, Who
<1>4. EvidenceSettled'
  <2>1. \A x \in Users \ {u} : \A h \in Handlers : Who(h) = x /\ pc[h] = "ban" => pc'[h] = "ban"
    OBVIOUS
  <2>2. \A x \in Users : \A m : Tells(shown[x], m) => Tells(shown[x], m)'
    BY TellsStays
  <2>3. \A x \in Users : log'[x] = "done" => log[x] = "done" /\ by'[x] = by[x]
    BY <1>1
  <2>4. \A x \in Users : evidence[x] # NoEvidence =>
            \/ \E h \in Handlers : Who(h) = x /\ pc'[h] = "ban"
            \/ log'[x] = "audit" \/ x \in spare
    BY <1>1, <2>1 DEF GInv, EvidenceSettled
  <2> QED BY <2>2, <2>3, <2>4 DEF GInv, EvidenceSettled, NoEvidence, Who
<1>5. \A h \in Handlers : Cause(h[2]) => Cause(h[2])'
  BY GroundsStay
<1>6. CauseInv'
  BY <1>5 DEF GInv, CauseInv, Has
<1>7. BannedForCause'
  <2>1. \A x \in Users : \A h \in by[x] : h \in Handlers /\ Who(h) = x /\ Cause(h[2])
    BY DEF GInv, TypeOK, BannedForCause, Cause, Who
  <2>2. \A h \in who : h \in Handlers /\ Who(h) = u /\ Cause(h[2])
    BY DEF GInv, CauseInv
  <2>3. \A x \in Users : \A h \in by'[x] : Who(h) = x /\ Cause(h[2])'
    BY <1>1, <1>5, <2>1, <2>2
  <2> QED BY <2>3 DEF BannedForCause, Cause, Who
<1>8. RecordInv'
  BY GroundsStay DEF GInv, RecordInv, ToldOf, Full, Linked
<1> QED BY <1>3, <1>4, <1>6, <1>7, <1>8

LEMMA BanStep ==
  ASSUME GInv, NEW h \in Handlers, Ban(h)
  PROVE  GInv'
<1> USE HandlerTypes
<1>1. /\ pc[h] = "ban" /\ pc'[h] = "done" /\ \A g \in Handlers \ {h} : pc'[g] = pc[g]
      /\ pc' \in [Handlers -> {"off", "new", "webp", "hash", "look", "read", "delete", "scan",
                               "sniff", "want", "gate", "ask", "ban", "done"}]
  BY DEF Ban, Goto, GInv, TypeOK
<1>2. UNCHANGED <<coming, posted, edited, queue, track, evidence, shown, swept, stuck, seen, permit,
                  left, cand, at, asked, twice, says, mute, weak>>
  BY DEF Ban, groq, word
<1>3. \/ Who(h) \notin banned /\ Banish(Who(h), {h}) /\ spare' = spare /\ faults' = faults
      \/ /\ spare' = spare \union {Who(h)} /\ UNCHANGED <<banned, by, log>>
         /\ faults' \in 0 .. MaxFaults
  BY SpendKeeps DEF Ban, GInv, TypeOK
<1>4. TypeOK'
  <2>1. {g \in Handlers : pc'[g] \in {"gate", "ask"}} = {permit'} \ {None}
    BY <1>1, <1>2, PermitFrame DEF GInv
  <2>2. acted' \subseteq Users
    BY DEF Ban, GInv, TypeOK
  <2>3. banned' \union spare' \subseteq Users /\ faults' \in 0 .. MaxFaults
    BY <1>3 DEF Banish, GInv, TypeOK
  <2>4. log' \in [Users -> {"none", "audit", "done"}]
    BY <1>3 DEF Banish, GInv, TypeOK
  <2>5. by' \in [Users -> SUBSET Handlers]
    BY <1>3 DEF Banish, GInv, TypeOK
  <2>6. gone' \subseteq posted
    BY DEF Ban, Banish, GInv, TypeOK
  <2> QED BY <1>1, <1>2, <2>1, <2>2, <2>3, <2>4, <2>5, <2>6 DEF GInv, TypeOK
<1>5. PlaceInv'
  BY <1>1, <1>2, PlaceFrame DEF GInv, PlaceInv
<1>6. AskInv' /\ AskedOnce'
  BY <1>1, <1>2, AskFrame
<1>7. EvidenceInv' /\ RecordInv' /\ EvidenceSettled' /\ CauseInv' /\ BannedForCause'
  <2>1. CASE Who(h) \notin banned /\ Banish(Who(h), {h}) /\ spare' = spare
    BY <1>1, <1>2, <2>1, BanishInv
  <2>2. CASE spare' = spare \union {Who(h)} /\ UNCHANGED <<banned, by, log>>
    <3>1. CauseInv' /\ BannedForCause'
      BY <1>1, <1>2, <2>2, CauseFrame
    <3>2. EvidenceInv'
      BY <1>1, <1>2, <2>2 DEF GInv, EvidenceInv, Waits, ToldOf, Full, Linked, Who
    <3>3. RecordInv'
      BY <1>2, GroundsStay DEF GInv, RecordInv, ToldOf, Full, Linked
    <3>4. EvidenceSettled'
      <4>1. \A x \in Users : \A m : Tells(shown[x], m) => Tells(shown[x], m)'
        BY <1>2, TellsStays
      <4> QED BY <1>1, <1>2, <2>2, <4>1 DEF GInv, EvidenceSettled, NoEvidence, Who
    <3> QED BY <3>1, <3>2, <3>3, <3>4
  <2> QED BY <1>3, <2>1, <2>2
<1> QED BY <1>4, <1>5, <1>6, <1>7 DEF GInv

LEMMA ModBanStep ==
  ASSUME GInv, NEW u \in Users, ModBan(u)
  PROVE  GInv'
<1>1. UNCHANGED <<coming, posted, edited, pc, queue, track, acted, evidence, shown, spare, swept, stuck,
                  seen, permit, left, cand, at, asked, twice, says, mute, weak>>
  BY DEF ModBan, spam, groq, word
<1>2. u \notin banned /\ Banish(u, {}) /\ faults' \in 0 .. MaxFaults
  BY SpendKeeps DEF ModBan, GInv
<1>3. TypeOK'
  <2>1. banned' \subseteq Users
    BY <1>2 DEF Banish, GInv, TypeOK
  <2>2. log' \in [Users -> {"none", "audit", "done"}]
    BY <1>2 DEF Banish, GInv, TypeOK
  <2>3. by' \in [Users -> SUBSET Handlers]
    BY <1>2 DEF Banish, GInv, TypeOK
  <2>4. {g \in Handlers : pc'[g] \in {"gate", "ask"}} = {permit'} \ {None}
    BY <1>1, <1>2, PermitFrame DEF GInv
  <2>5. gone' \subseteq posted
    BY <1>2 DEF Banish, GInv, TypeOK
  <2> QED BY <1>1, <1>2, <2>1, <2>2, <2>3, <2>4, <2>5 DEF GInv, TypeOK
<1>4. PlaceInv'
  BY <1>1, PlaceFrame DEF GInv, PlaceInv
<1>5. AskInv' /\ AskedOnce'
  BY <1>1, AskFrame
<1>6. EvidenceInv' /\ RecordInv' /\ EvidenceSettled' /\ CauseInv' /\ BannedForCause'
  BY <1>1, <1>2, BanishInv
<1> QED BY <1>3, <1>4, <1>5, <1>6 DEF GInv

LEMMA NothingIsEvidence == NoEvidence \in Evidence
BY DEF NoEvidence, Evidence

LEMMA LogStep ==
  ASSUME GInv, NEW u \in Users, Log(u)
  PROVE  GInv'
<1>1. UNCHANGED <<coming, posted, edited, gone, banned, pc, queue, track, acted, by, spare, swept, stuck,
                  seen, permit, left, cand, at, asked, twice, says, mute, weak, faults>>
  BY DEF Log, discord, spam, groq, word
<1>2. /\ log[u] = "audit" /\ log' = [log EXCEPT ![u] = "done"]
      /\ shown' = [shown EXCEPT ![u] = evidence[u]] /\ evidence' = [evidence EXCEPT ![u] = NoEvidence]
  BY DEF Log, Pop
<1>3. TypeOK'
  <2>1. log' \in [Users -> {"none", "audit", "done"}]
    BY <1>2 DEF GInv, TypeOK
  <2>2. evidence' \in [Users -> Evidence] /\ shown' \in [Users -> Evidence]
    BY <1>2, NothingIsEvidence DEF GInv, TypeOK
  <2>3. {g \in Handlers : pc'[g] \in {"gate", "ask"}} = {permit'} \ {None}
    BY <1>1, PermitFrame DEF GInv
  <2> QED BY <1>1, <2>1, <2>2, <2>3 DEF GInv, TypeOK
<1>4. PlaceInv'
  BY <1>1, <1>2, PlaceFrame DEF GInv, PlaceInv, TypeOK
<1>5. AskInv' /\ AskedOnce'
  BY <1>1, AskFrame
<1>6. CauseInv' /\ BannedForCause'
  BY <1>1, CauseFrame
<1>7. /\ log'[u] = "done" /\ shown'[u] = evidence[u] /\ evidence'[u] = NoEvidence
      /\ \A x \in Users \ {u} : log'[x] = log[x] /\ shown'[x] = shown[x] /\ evidence'[x] = evidence[x]
  BY <1>2 DEF GInv, TypeOK, PlaceInv
<1>8. EvidenceInv'
  <2>1. u \in banned
    BY <1>2 DEF GInv, EvidenceInv
  <2>2. \A x \in Users : log'[x] = "none" <=> x \notin banned'
    BY <1>1, <1>7, <2>1 DEF GInv, EvidenceInv
  <2>3. \A x \in Users : log'[x] = "audit" /\ x \notin swept =>
            \A h \in by'[x] : h[1] # "spam" => Waits(x, h[2])'
    BY <1>1, <1>7 DEF GInv, EvidenceInv, Waits, ToldOf, Full, Linked
  <2>4. \A h \in Handlers : pc'[h] = "ban" /\ h[1] # "spam" =>
            Who(h) \in banned' \union swept \/ Waits(Who(h), h[2])'
    BY <1>1, <1>7, <2>1, HandlerTypes DEF GInv, EvidenceInv, Waits, ToldOf, Full, Linked
  <2> QED BY <1>1, <2>2, <2>3, <2>4 DEF EvidenceInv, Who
<1>9. EvidenceSettled'
  <2>1. u \notin swept => \A h \in by[u] : h[1] # "spam" => Tells(evidence[u], h[2])
    <3> SUFFICES ASSUME u \notin swept, NEW h \in by[u], h[1] # "spam"
                 PROVE  Tells(evidence[u], h[2])
      OBVIOUS
    <3>1. Waits(u, h[2])
      BY <1>2 DEF GInv, EvidenceInv
    <3>2. Author[h[2]] = u
      BY DEF GInv, BannedForCause
    <3>3. Author[evidence[u].last] = u /\ Cause(evidence[u].last)
      BY <3>1 DEF GInv, RecordInv, Waits
    <3> QED BY <3>1, <3>2, <3>3 DEF Tells, Waits, ToldOf
  <2>2. \A x \in Users \ {u} : \A m : Tells(shown[x], m) => Tells(shown[x], m)'
    BY <1>1, <1>7, GroundsStay DEF Tells, Full, Linked
  <2>3. \A m : Tells(evidence[u], m) => Tells(shown[u], m)'
    BY <1>1, <1>7, GroundsStay DEF Tells, Full, Linked
  <2> QED BY <1>1, <1>7, <2>1, <2>2, <2>3 DEF GInv, EvidenceSettled, NoEvidence, Who
<1>10. RecordInv'
  BY <1>1, <1>7, GroundsStay DEF GInv, RecordInv, NoEvidence, ToldOf, Full, Linked
<1> QED BY <1>3, <1>4, <1>5, <1>6, <1>8, <1>9, <1>10 DEF GInv

LEMMA SweepStep ==
  ASSUME GInv, NEW u \in Users, Sweep(u)
  PROVE  GInv'
<1>1. UNCHANGED <<coming, posted, edited, gone, banned, pc, queue, track, acted, by, spare, log, shown, stuck,
                  seen, permit, left, cand, at, asked, twice, says, mute, weak>>
  BY DEF Sweep, discord, spam, groq, word
<1>2. /\ evidence' = [evidence EXCEPT ![u] = NoEvidence] /\ swept' = swept \union {u}
      /\ faults' \in 0 .. MaxFaults
  BY SpendKeeps DEF Sweep, GInv
<1>3. TypeOK'
  <2>1. evidence' \in [Users -> Evidence]
    BY <1>2, NothingIsEvidence DEF GInv, TypeOK
  <2>2. swept' \subseteq Users
    BY <1>2 DEF GInv, TypeOK
  <2>3. {g \in Handlers : pc'[g] \in {"gate", "ask"}} = {permit'} \ {None}
    BY <1>1, PermitFrame DEF GInv
  <2> QED BY <1>1, <1>2, <2>1, <2>2, <2>3 DEF GInv, TypeOK
<1>4. PlaceInv'
  BY <1>1, PlaceFrame DEF GInv, PlaceInv
<1>5. AskInv' /\ AskedOnce'
  BY <1>1, AskFrame
<1>6. CauseInv' /\ BannedForCause'
  BY <1>1, CauseFrame
<1>7. evidence'[u] = NoEvidence /\ \A x \in Users \ {u} : evidence'[x] = evidence[x]
  BY <1>2 DEF GInv, TypeOK
<1>8. EvidenceInv'
  BY <1>1, <1>2, <1>7 DEF GInv, EvidenceInv, Waits, ToldOf, Full, Linked, Who
<1>9. EvidenceSettled'
  <2>1. \A x \in Users : \A m : Tells(shown[x], m) => Tells(shown[x], m)'
    BY <1>1, TellsStays
  <2> QED BY <1>1, <1>2, <1>7, <2>1 DEF GInv, EvidenceSettled, Who
<1>10. RecordInv'
  BY <1>1, <1>7, GroundsStay DEF GInv, RecordInv, NoEvidence, ToldOf, Full, Linked
<1> QED BY <1>3, <1>4, <1>5, <1>6, <1>8, <1>9, <1>10 DEF GInv

\* A step that moves handlers between places other than the ban, a deletion and the permit's.
LEMMA QuietMove ==
  ASSUME GInv, UNCHANGED <<evidence, log, by, banned, swept, shown, track, spare>>,
         posted \subseteq posted', says \subseteq says', mute \subseteq mute',
         \A h \in Handlers : pc'[h] = pc[h] \/ (pc[h] # "ban" /\ pc'[h] \notin {"ban", "delete"})
  PROVE  EvidenceInv' /\ RecordInv' /\ EvidenceSettled' /\ CauseInv' /\ BannedForCause'
<1>1. EvidenceInv' /\ RecordInv' /\ EvidenceSettled'
  BY EvidenceFrame
<1>2. CauseInv' /\ BannedForCause'
  BY CauseFrame
<1> QED BY <1>1, <1>2

LEMMA PostStep ==
  ASSUME GInv, NEW m \in Msgs, Post(m)
  PROVE  GInv'
<1>1. /\ m \in coming /\ coming' = coming \ {m} /\ posted' = posted \union {m}
      /\ pc' = [h \in Handlers |-> IF h[2] = m /\ h[1] # "regroq" THEN "new" ELSE pc[h]]
      /\ UNCHANGED <<edited, gone, banned, queue, track, acted, stuck, seen, permit, left, cand, at, asked,
                     twice, says, mute, weak, faults, evidence, log, shown, by, spare, swept>>
  BY DEF Post, spam, ban, groq, word
<1>2. \A h \in Handlers : pc'[h] = pc[h] \/ (pc[h] = "off" /\ pc'[h] = "new" /\ h[2] = m /\ h[1] # "regroq")
  BY <1>1 DEF GInv, PlaceInv
<1>3. TypeOK'
  <2>1. {h \in Handlers : pc'[h] \in {"gate", "ask"}} = {permit'} \ {None}
    BY <1>1, <1>2, PermitFrame DEF GInv
  <2>2. pc' \in [Handlers -> {"off", "new", "webp", "hash", "look", "read", "delete", "scan", "sniff",
                             "want", "gate", "ask", "ban", "done"}]
    BY <1>1 DEF GInv, TypeOK
  <2>3. edited \union gone \union queue \union stuck \union says \union mute \union weak \subseteq posted'
    BY <1>1 DEF GInv, TypeOK
  <2> QED BY <1>1, <2>1, <2>2, <2>3 DEF GInv, TypeOK
<1>4. PlaceInv'
  BY <1>1, <1>2 DEF GInv, PlaceInv
<1>5. AskInv' /\ AskedOnce'
  BY <1>1, <1>2, AskFrame
<1>6. EvidenceInv' /\ RecordInv' /\ EvidenceSettled' /\ CauseInv' /\ BannedForCause'
  BY <1>1, <1>2, QuietMove
<1> QED BY <1>3, <1>4, <1>5, <1>6 DEF GInv

LEMMA EditStep ==
  ASSUME GInv, NEW m \in Msgs, Edit(m)
  PROVE  GInv'
<1> DEFINE r == <<"regroq", m>>
<1>1. /\ r \in Handlers /\ m \in posted \ edited /\ edited' = edited \union {m}
      /\ pc' = [pc EXCEPT ![r] = "new"]
      /\ UNCHANGED <<coming, posted, gone, banned, queue, track, acted, stuck, seen, permit, left, cand, at,
                     asked, twice, says, mute, weak, faults, evidence, log, shown, by, spare, swept>>
  BY DEF Edit, Goto, spam, ban, groq, word
<1>2. pc[r] = "off" /\ pc'[r] = "new" /\ \A h \in Handlers \ {r} : pc'[h] = pc[h]
  BY <1>1 DEF GInv, PlaceInv, TypeOK
<1>3. TypeOK'
  <2>1. {h \in Handlers : pc'[h] \in {"gate", "ask"}} = {permit'} \ {None}
    BY <1>1, <1>2, PermitFrame DEF GInv
  <2>2. pc' \in [Handlers -> {"off", "new", "webp", "hash", "look", "read", "delete", "scan", "sniff",
                             "want", "gate", "ask", "ban", "done"}]
    BY <1>1 DEF GInv, TypeOK
  <2>3. edited' \union gone \union queue \union stuck \union says \union mute \union weak \subseteq posted
    BY <1>1 DEF GInv, TypeOK
  <2> QED BY <1>1, <2>1, <2>2, <2>3 DEF GInv, TypeOK
<1>4. PlaceInv'
  BY <1>1, <1>2 DEF GInv, PlaceInv
<1>5. AskInv' /\ AskedOnce'
  BY <1>1, <1>2, AskFrame
<1>6. EvidenceInv' /\ RecordInv' /\ EvidenceSettled' /\ CauseInv' /\ BannedForCause'
  BY <1>1, <1>2, QuietMove
<1> QED BY <1>3, <1>4, <1>5, <1>6 DEF GInv

\* Steps that leave the handlers, the evidence and the images where they are.
LEMMA Calm ==
  ASSUME GInv, UNCHANGED <<coming, posted, edited, banned, pc, evidence, log, shown, by, spare, swept, seen,
                           permit, left, cand, at, asked, twice, says, mute, weak>>,
         gone' \subseteq posted, queue' \subseteq posted, stuck' \subseteq posted,
         acted' \subseteq Users, faults' \in 0 .. MaxFaults,
         track' \in [Users -> SUBSET Msgs], \A u \in Users : track'[u] \subseteq track[u]
  PROVE  GInv'
<1>1. TypeOK'
  <2>1. {h \in Handlers : pc'[h] \in {"gate", "ask"}} = {permit'} \ {None}
    BY PermitFrame DEF GInv
  <2> QED BY <2>1 DEF GInv, TypeOK
<1>2. PlaceInv'
  BY PlaceFrame DEF GInv, PlaceInv
<1>3. AskInv' /\ AskedOnce'
  BY AskFrame
<1>4. EvidenceInv' /\ RecordInv' /\ EvidenceSettled'
  BY EvidenceFrame
<1>5. CauseInv' /\ BannedForCause'
  BY CauseFrame
<1> QED BY <1>1, <1>2, <1>3, <1>4, <1>5 DEF GInv

LEMMA CalmSteps ==
  ASSUME GInv,
         \/ \E m \in Msgs : SafeDelete(m)
         \/ \E u \in Users : Pass(u)
         \/ CoolOver
         \/ UNCHANGED vars
  PROVE  GInv'
<1>1. /\ gone \union queue \union stuck \subseteq posted /\ acted \subseteq Users /\ faults \in 0 .. MaxFaults
      /\ track \in [Users -> SUBSET Msgs]
  BY DEF GInv, TypeOK
<1>2. CASE \E m \in Msgs : SafeDelete(m)
  <2>1. PICK m \in Msgs : SafeDelete(m)
    BY <1>2
  <2>2. m \in posted /\ queue' = queue \ {m} /\ Remove(<<"spam", m>>)
    BY <1>1, <2>1 DEF SafeDelete
  <2>3. gone' \subseteq posted /\ stuck' \subseteq posted /\ faults' \in 0 .. MaxFaults
    BY <1>1, <2>2, SpendKeeps DEF Remove, GInv
  <2>4. UNCHANGED <<coming, posted, edited, banned, pc, track, acted, evidence, log, shown, by, spare, swept,
                    seen, permit, left, cand, at, asked, twice, says, mute, weak>>
    BY <2>1, <2>2 DEF SafeDelete, Remove, ban, groq, word
  <2> QED BY <1>1, <2>2, <2>3, <2>4, Calm
<1>3. CASE \E u \in Users : Pass(u)
  <2>1. PICK u \in Users : Pass(u)
    BY <1>3
  <2>2. acted' \subseteq Users /\ track' \in [Users -> SUBSET Msgs]
        /\ \A x \in Users : track'[x] \subseteq track[x]
    BY <1>1, <2>1 DEF Pass
  <2>3. UNCHANGED <<coming, posted, edited, gone, banned, pc, queue, evidence, log, shown, by, spare, swept,
                    stuck, seen, permit, left, cand, at, asked, twice, says, mute, weak, faults>>
    BY <2>1 DEF Pass, discord, ban, groq, word
  <2> QED BY <1>1, <2>2, <2>3, Calm
<1>4. CASE CoolOver
  BY <1>1, <1>4, Calm DEF CoolOver, discord, spam, ban, word
<1>5. CASE UNCHANGED vars
  BY <1>1, <1>5, Calm DEF vars, discord, spam, ban, groq, word
<1> QED BY <1>2, <1>3, <1>4, <1>5

-----------------------------------------------------------------------------
\* The Groq guards.  What their steps leave alone.
LEMMA GroqFrame ==
  ASSUME GInv, NEW h \in Handlers, UNCHANGED <<discord, spam, ban, stuck>>,
         NEW w \in {"scan", "sniff", "want", "gate", "ask", "done"}, Goto(h, w),
         pc[h] \notin {"off", "ban"},
         says' \in {says, says \union {h[2]}}, mute' = mute, weak' \in {weak, weak \union {h[2]}},
         seen' \union twice' \subseteq Pics, asked' \in [Pics -> Nat], faults' \in 0 .. MaxFaults,
         permit' \in Handlers \union {None},
         {g \in Handlers : pc'[g] \in {"gate", "ask"}} = {permit'} \ {None},
         left' \in [Handlers -> SUBSET Pics], cand' \in [Handlers -> SUBSET Pics],
         at' \in [Handlers -> Pics \union {None}],
         w \in {"sniff", "gate", "ask"} => at'[h] \in Pics,
         \A g \in Handlers \ {h} : at'[g] = at[g],
         AskInv' /\ AskedOnce'
  PROVE  GInv'
<1>1. /\ UNCHANGED <<coming, posted, edited, gone, banned, queue, track, acted, evidence, log, shown, by,
                     spare, swept, stuck>>
      /\ pc'[h] = w /\ \A g \in Handlers \ {h} : pc'[g] = pc[g]
      /\ pc' \in [Handlers -> {"off", "new", "webp", "hash", "look", "read", "delete", "scan", "sniff",
                               "want", "gate", "ask", "ban", "done"}]
      /\ h[2] \in posted
  BY DEF discord, spam, ban, Goto, GInv, TypeOK, PlaceInv
<1>2. TypeOK'
  <2>1. edited \union gone \union queue \union stuck \union says' \union mute' \union weak' \subseteq posted
    BY <1>1 DEF GInv, TypeOK
  <2> QED BY <1>1, <2>1 DEF GInv, TypeOK
<1>3. PlaceInv'
  BY <1>1 DEF GInv, PlaceInv
<1>4. EvidenceInv' /\ RecordInv' /\ EvidenceSettled' /\ CauseInv' /\ BannedForCause'
  BY <1>1, QuietMove
<1> QED BY <1>2, <1>3, <1>4 DEF GInv

\* A handler takes images as candidates; one that was marked is one two handlers looked at.
LEMMA GrabInv ==
  ASSUME GInv, NEW h \in Handlers, NEW N \in SUBSET Pics,
         cand'[h] \subseteq cand[h] \union N, \A g \in Handlers \ {h} : cand'[g] = cand[g],
         seen' = seen \union N,
         twice' = twice \union (N \intersect seen), asked' = asked,
         \A g \in Handlers \ {h} : pc'[g] = pc[g] /\ at'[g] = at[g],
         pc[h] \notin {"gate", "ask"}, pc'[h] \notin {"gate", "ask"}
  PROVE  AskInv' /\ AskedOnce'
<1>1. \A p \in Pics \ twice' : p \in N => p \notin seen /\ asked[p] = 0 /\ \A g \in Handlers : ~HoldsPic(g, p)
  BY DEF GInv, TypeOK, AskInv
<1>2. \A g \in Handlers : \A p \in Pics : HoldsPic(g, p)' => HoldsPic(g, p) \/ (g = h /\ p \in N)
  BY DEF HoldsPic
<1>3. AskInv'
  <2> SUFFICES ASSUME NEW p \in Pics \ twice'
               PROVE  /\ \A g \in Handlers : HoldsPic(g, p)' => p \in seen' /\ asked'[p] = 0
                      /\ \A g, k \in Handlers : HoldsPic(g, p)' /\ HoldsPic(k, p)' => g = k
                      /\ \A g \in Handlers : ~(p \in cand'[g] /\ pc'[g] \in {"gate", "ask"} /\ at'[g] = p)
                      /\ asked'[p] > 0 => p \in seen'
    BY DEF AskInv
  <2>1. p \notin twice
    OBVIOUS
  <2>2. \A g \in Handlers : HoldsPic(g, p)' => p \in seen' /\ asked'[p] = 0
    BY <1>1, <1>2, <2>1 DEF GInv, AskInv
  <2>3. \A g, k \in Handlers : HoldsPic(g, p)' /\ HoldsPic(k, p)' => g = k
    BY <1>1, <1>2, <2>1 DEF GInv, AskInv
  <2>4. \A g \in Handlers : ~(p \in cand'[g] /\ pc'[g] \in {"gate", "ask"} /\ at'[g] = p)
    BY <2>1 DEF GInv, AskInv
  <2>5. asked'[p] > 0 => p \in seen'
    BY <2>1 DEF GInv, AskInv
  <2> QED BY <2>2, <2>3, <2>4, <2>5
<1>4. AskedOnce'
  BY DEF GInv, AskedOnce
<1> QED BY <1>3, <1>4

LEMMA ScanStep ==
  ASSUME GInv, NEW h \in Handlers, Scan(h)
  PROVE  GInv'
<1> DEFINE todo == IF pc[h] = "new" THEN Holds[h[2]] ELSE left[h]
<1>1. PICK S \in SUBSET (todo \intersect (Named \union seen)) :
         /\ seen' = seen \union (S \ seen)
         /\ \/ \E p \in todo \ (S \union Named \union seen) :
                 /\ cand' = [cand EXCEPT ![h] = @ \union (S \ seen)]
                 /\ left' = [left EXCEPT ![h] = todo \ (S \union {p})]
                 /\ at' = [at EXCEPT ![h] = p] /\ Goto(h, "sniff")
            \/ \E K \in Largest(cand[h] \union (S \ seen)) :
                 /\ todo = S /\ left' = [left EXCEPT ![h] = {}] /\ UNCHANGED at
                 /\ cand' = [cand EXCEPT ![h] = K] /\ Goto(h, AfterImage(h, K))
  BY DEF Scan, Mark
<1>2. /\ UNCHANGED <<discord, spam, cooling, ban, stuck, word, cool, permit, asked, twice, faults>>
      /\ pc[h] \in {"new", "scan"}
  BY DEF Scan
<1>3. todo \in SUBSET Pics
  BY HandlerTypes, ConstAssumption DEF GInv, PlaceInv
<1>4. PICK w \in {"sniff", "want", "done"} :
         Goto(h, w) /\ (w = "sniff" => \E p \in Pics : at' = [at EXCEPT ![h] = p])
                    /\ (w # "sniff" => at' = at)
  BY <1>1, <1>3 DEF AfterImage
<1>5. /\ pc'[h] = w /\ \A g \in Handlers \ {h} : pc'[g] = pc[g]
      /\ \A g \in Handlers \ {h} : at'[g] = at[g]
      /\ w = "sniff" => at'[h] \in Pics
      /\ at' \in [Handlers -> Pics \union {None}]
  BY <1>4 DEF Goto, GInv, TypeOK, PlaceInv
<1>6. /\ left' \in [Handlers -> SUBSET Pics] /\ cand' \in [Handlers -> SUBSET Pics] /\ seen' \subseteq Pics
      /\ cand'[h] \subseteq cand[h] \union (S \ seen) /\ \A g \in Handlers \ {h} : cand'[g] = cand[g]
  BY <1>1, <1>3 DEF Largest, GInv, TypeOK, PlaceInv
<1>7. {g \in Handlers : pc'[g] \in {"gate", "ask"}} = {permit'} \ {None}
  BY <1>2, <1>5, PermitFrame DEF GInv
<1>8. AskInv' /\ AskedOnce'
  <2>1. S \ seen \in SUBSET Pics /\ twice' = twice \union ((S \ seen) \intersect seen)
    BY <1>2, <1>3
  <2> QED BY <1>1, <1>2, <1>5, <1>6, <2>1, GrabInv
<1> QED BY <1>2, <1>4, <1>5, <1>6, <1>7, <1>8, GroqFrame DEF GInv, TypeOK, word

LEMMA SniffedStep ==
  ASSUME GInv, NEW h \in Handlers, Sniffed(h)
  PROVE  GInv'
<1> DEFINE a == at[h]
<1>1. /\ pc[h] = "sniff" /\ Goto(h, "scan") /\ a \in Pics
      /\ cand' = [cand EXCEPT ![h] = @ \union {a}] /\ seen' = seen \union {a}
      /\ twice' = twice \union ({a} \intersect seen)
      /\ UNCHANGED <<discord, spam, cooling, ban, stuck, word, cool, permit, left, at, asked, faults>>
  BY DEF Sniffed, Mark, GInv, PlaceInv
<1>2. pc'[h] = "scan" /\ \A g \in Handlers \ {h} : pc'[g] = pc[g]
  BY <1>1 DEF Goto, GInv, TypeOK
<1>3. /\ cand'[h] = cand[h] \union {a} /\ \A g \in Handlers \ {h} : cand'[g] = cand[g]
      /\ cand' \in [Handlers -> SUBSET Pics] /\ seen' \union twice' \subseteq Pics
  BY <1>1 DEF GInv, TypeOK, PlaceInv
<1>4. {g \in Handlers : pc'[g] \in {"gate", "ask"}} = {permit'} \ {None}
  BY <1>1, <1>2, PermitFrame DEF GInv
<1>5. AskInv' /\ AskedOnce'
  BY <1>1, <1>2, <1>3, GrabInv
<1> QED BY <1>1, <1>2, <1>3, <1>4, <1>5, GroqFrame DEF GInv, TypeOK, PlaceInv, word

LEMMA AcquireStep ==
  ASSUME GInv, NEW h \in Handlers, Acquire(h)
  PROVE  GInv'
<1>1. PICK p \in cand[h] : at' = [at EXCEPT ![h] = p] /\ cand' = [cand EXCEPT ![h] = @ \ {p}]
  BY DEF Acquire
<1>2. /\ pc[h] = "want" /\ permit = None /\ permit' = h /\ Goto(h, "gate")
      /\ UNCHANGED <<discord, spam, cooling, ban, stuck, word, seen, cool, left, asked, twice, faults>>
  BY DEF Acquire
<1>3. /\ pc'[h] = "gate" /\ \A g \in Handlers \ {h} : pc'[g] = pc[g] /\ at'[g] = at[g] /\ cand'[g] = cand[g]
      /\ at'[h] = p /\ cand'[h] = cand[h] \ {p} /\ p \in Pics
      /\ at' \in [Handlers -> Pics \union {None}] /\ cand' \in [Handlers -> SUBSET Pics]
  BY <1>1, <1>2 DEF Goto, GInv, TypeOK, PlaceInv
<1>4. {g \in Handlers : pc'[g] \in {"gate", "ask"}} = {permit'} \ {None}
  <2>1. \A g \in Handlers : pc[g] \notin {"gate", "ask"}
    BY <1>2 DEF GInv, TypeOK
  <2> QED BY <1>2, <1>3, <2>1, HandlerTypes
<1>5. AskInv' /\ AskedOnce'
  <2>1. \A g \in Handlers : \A q \in Pics : HoldsPic(g, q)' <=> HoldsPic(g, q)
    BY <1>2, <1>3 DEF HoldsPic
  <2>2. AskInv'
    BY <1>2, <1>3, <2>1 DEF GInv, AskInv
  <2>3. AskedOnce'
    BY <1>2 DEF GInv, AskedOnce
  <2> QED BY <2>2, <2>3
<1> QED BY <1>2, <1>3, <1>4, <1>5, GroqFrame DEF GInv, TypeOK, PlaceInv, word

LEMMA GateStep ==
  ASSUME GInv, NEW h \in Handlers, Gate(h)
  PROVE  GInv'
<1>1. /\ pc[h] = "gate" /\ Goto(h, "ask")
      /\ UNCHANGED <<discord, spam, cooling, ban, stuck, groq, word, faults>>
  BY DEF Gate
<1>2. pc'[h] = "ask" /\ \A g \in Handlers \ {h} : pc'[g] = pc[g]
  BY <1>1 DEF Goto, GInv, TypeOK
<1>3. UNCHANGED <<seen, permit, left, cand, at, asked, twice>>
  BY <1>1 DEF groq
<1>4. {g \in Handlers : pc'[g] \in {"gate", "ask"}} = {permit'} \ {None}
  BY <1>1, <1>2, <1>3, PermitFrame DEF GInv
<1>5. AskInv' /\ AskedOnce'
  BY <1>1, <1>2, <1>3, AskFrame
<1>6. at[h] \in Pics
  BY <1>1 DEF GInv, PlaceInv
<1> QED BY <1>1, <1>3, <1>4, <1>5, <1>6, GroqFrame DEF GInv, TypeOK, PlaceInv, word

LEMMA AnswerStep ==
  ASSUME GInv, NEW h \in Handlers, Answer(h)
  PROVE  GInv'
<1> DEFINE a == at[h]
<1>1. /\ pc[h] = "ask" /\ a \in Pics /\ asked' = [asked EXCEPT ![a] = @ + 1] /\ permit' = None
      /\ UNCHANGED <<discord, spam, cooling, ban, stuck, seen, left, at, twice>>
  BY DEF Answer, Released, GInv, PlaceInv
<1>2. PICK w \in {"want", "done"} : Goto(h, w)
  BY DEF Answer, AfterImage
<1>3. cand' \in {cand, [cand EXCEPT ![h] = {}]}
  BY DEF Answer
<1>4. /\ pc'[h] = w /\ \A g \in Handlers \ {h} : pc'[g] = pc[g]
      /\ cand' \in [Handlers -> SUBSET Pics] /\ \A g \in Handlers : cand'[g] \subseteq cand[g]
  BY <1>2, <1>3 DEF Goto, GInv, TypeOK, PlaceInv
<1>5. {g \in Handlers : pc'[g] \in {"gate", "ask"}} = {permit'} \ {None}
  <2>1. {g \in Handlers : pc[g] \in {"gate", "ask"}} = {permit} \ {None}
    BY DEF GInv, TypeOK
  <2>2. \A g \in Handlers : pc[g] \in {"gate", "ask"} => g = h
    BY <1>1, <2>1
  <2>3. \A g \in Handlers : pc'[g] \notin {"gate", "ask"}
    BY <1>4, <2>2
  <2> QED BY <1>1, <2>3
<1>6. /\ asked'[a] = asked[a] + 1 /\ \A p \in Pics \ {a} : asked'[p] = asked[p]
      /\ asked' \in [Pics -> Nat]
  BY <1>1 DEF GInv, TypeOK
<1>7. a \notin twice => /\ asked[a] = 0 /\ a \in seen /\ a \notin cand[h]
                       /\ \A g \in Handlers \ {h} : ~HoldsPic(g, a)
  BY <1>1 DEF GInv, AskInv, HoldsPic
<1>8. AskInv' /\ AskedOnce'
  <2>1. \A g \in Handlers : \A p \in Pics : HoldsPic(g, p)' => HoldsPic(g, p)
    BY <1>1, <1>4 DEF HoldsPic
  <2>2. a \notin twice => \A g \in Handlers : ~HoldsPic(g, a)'
    BY <1>1, <1>4, <1>7 DEF HoldsPic
  <2>3. AskInv'
    <3> SUFFICES ASSUME NEW p \in Pics \ twice
                 PROVE  /\ \A g \in Handlers : HoldsPic(g, p)' => p \in seen' /\ asked'[p] = 0
                        /\ \A g, k \in Handlers : HoldsPic(g, p)' /\ HoldsPic(k, p)' => g = k
                        /\ \A g \in Handlers : ~(p \in cand'[g] /\ pc'[g] \in {"gate", "ask"} /\ at'[g] = p)
                        /\ asked'[p] > 0 => p \in seen'
      BY <1>1 DEF AskInv
    <3>1. \A g \in Handlers : HoldsPic(g, p)' => p \in seen' /\ asked'[p] = 0
      BY <1>1, <1>6, <2>1, <2>2 DEF GInv, AskInv
    <3>2. \A g, k \in Handlers : HoldsPic(g, p)' /\ HoldsPic(k, p)' => g = k
      BY <2>1 DEF GInv, AskInv
    <3>3. \A g \in Handlers : ~(p \in cand'[g] /\ pc'[g] \in {"gate", "ask"} /\ at'[g] = p)
      BY <1>1, <1>4 DEF GInv, AskInv
    <3>4. asked'[p] > 0 => p \in seen'
      BY <1>1, <1>6, <1>7 DEF GInv, AskInv
    <3> QED BY <3>1, <3>2, <3>3, <3>4
  <2>4. AskedOnce'
    BY <1>1, <1>6, <1>7 DEF GInv, AskedOnce
  <2> QED BY <2>3, <2>4
<1>9. /\ says' \in {says, says \union {h[2]}} /\ mute' = mute /\ weak' \in {weak, weak \union {h[2]}}
      /\ faults' \in 0 .. MaxFaults
  BY SpendKeeps DEF Answer, word, GInv, TypeOK
<1> QED BY <1>1, <1>2, <1>4, <1>5, <1>6, <1>8, <1>9, GroqFrame DEF GInv, TypeOK, PlaceInv

LEMMA ForgetStep ==
  ASSUME GInv, NEW p \in Pics, Forget(p)
  PROVE  GInv'
<1>1. /\ seen' = seen \ {p} /\ twice' = twice \union {p} /\ faults' \in 0 .. MaxFaults
      /\ UNCHANGED <<coming, posted, edited, gone, banned, pc, queue, track, acted, evidence, log, shown, by,
                     spare, swept, stuck, says, mute, weak, permit, left, cand, at, asked>>
  BY SpendKeeps DEF Forget, GInv, discord, spam, ban, word
<1>2. TypeOK'
  <2>1. {g \in Handlers : pc'[g] \in {"gate", "ask"}} = {permit'} \ {None}
    BY <1>1, PermitFrame DEF GInv
  <2>2. seen' \union twice' \subseteq Pics
    BY <1>1 DEF GInv, TypeOK
  <2> QED BY <1>1, <2>1, <2>2 DEF GInv, TypeOK
<1>3. PlaceInv'
  BY <1>1, PlaceFrame DEF GInv, PlaceInv
<1>4. EvidenceInv' /\ RecordInv' /\ EvidenceSettled' /\ CauseInv' /\ BannedForCause'
  BY <1>1, QuietMove
<1>5. AskInv' /\ AskedOnce'
  <2>1. \A g \in Handlers : \A q \in Pics : HoldsPic(g, q)' <=> HoldsPic(g, q)
    BY <1>1 DEF HoldsPic
  <2>2. AskInv'
    BY <1>1, <2>1 DEF GInv, AskInv
  <2>3. AskedOnce'
    BY <1>1 DEF GInv, AskedOnce
  <2> QED BY <2>2, <2>3
<1> QED BY <1>2, <1>3, <1>4, <1>5 DEF GInv

-----------------------------------------------------------------------------
LEMMA GInit == Init => GInv
<1> SUFFICES ASSUME Init
             PROVE  GInv
  OBVIOUS
<1>1. \A h \in Handlers : pc[h] = "off"
  BY DEF Init
<1>2. TypeOK
  <2>1. {h \in Handlers : pc[h] \in {"gate", "ask"}} = {permit} \ {None}
    BY <1>1 DEF Init
  <2> QED BY <2>1, ConstAssumption, NothingIsEvidence DEF Init, TypeOK
<1>3. PlaceInv
  BY <1>1 DEF Init, PlaceInv
<1>4. EvidenceInv /\ RecordInv /\ EvidenceSettled
  BY <1>1 DEF Init, NoEvidence, EvidenceInv, RecordInv, EvidenceSettled
<1>5. CauseInv /\ BannedForCause
  BY <1>1 DEF Init, CauseInv, BannedForCause
<1>6. AskInv /\ AskedOnce
  BY <1>1 DEF Init, AskInv, AskedOnce, HoldsPic
<1> QED BY <1>2, <1>3, <1>4, <1>5, <1>6 DEF GInv

LEMMA GNext == GInv /\ [Next]_vars => GInv'
<1> SUFFICES ASSUME GInv, [Next]_vars
             PROVE  GInv'
  OBVIOUS
<1>1. ASSUME NEW h \in Handlers, Step(h)
      PROVE  GInv'
  <2>1. CASE Firewall(h) \/ Spam(h) \/ Attach(h) \/ Harden(h) \/ Casino(h)
    BY <2>1, FirewallStep, SpamStep, AttachStep, HardenStep, CasinoStep, VerdictInv
  <2>2. CASE Groq(h)
    BY <2>2, ScanStep, SniffedStep, AcquireStep, GateStep, AnswerStep DEF Groq
  <2>3. CASE Ban(h)
    BY <2>3, BanStep
  <2> QED BY <1>1, <2>1, <2>2, <2>3 DEF Step
<1>2. ASSUME NEW m \in Msgs, Post(m) \/ Edit(m) \/ SafeDelete(m)
      PROVE  GInv'
  BY <1>2, PostStep, EditStep, CalmSteps
<1>3. ASSUME NEW u \in Users, Pass(u) \/ Log(u) \/ Sweep(u) \/ ModBan(u)
      PROVE  GInv'
  BY <1>3, CalmSteps, LogStep, SweepStep, ModBanStep
<1>4. CASE CoolOver \/ \E p \in Pics : Forget(p)
  BY <1>4, CalmSteps, ForgetStep
<1>5. CASE UNCHANGED vars
  BY <1>5, CalmSteps
<1> QED BY <1>1, <1>2, <1>3, <1>4, <1>5 DEF Next

LEMMA GAlways == Spec => []GInv
BY GInit, GNext, PTL DEF Spec

\* Whatever listeners, faults and moderators do in whatever order, the state stays one the
\* code can give, and at most one handler is between the acquisition of Groq's permit and
\* the answer, the one that holds it (phish_groq_guard.py, async with _GROQ_SEM).
THEOREM TypeCorrect == Spec => []TypeOK
<1>1. GInv => TypeOK
  BY DEF GInv
<1> QED BY <1>1, GAlways, PTL

\* For any messages and guards, evidence waits for a ban or a log only, and the log of a
\* guard's ban names a message of the user with cause for it and tells of the links and files
\* of the message it was sent for, also when other handlers recorded and banned meanwhile
\* (phish_evidence_cache.record merges the lists and overwrites the rest, pop).
THEOREM LogShowsCause == Spec => []EvidenceSettled
<1>1. GInv => EvidenceSettled
  BY DEF GInv
<1> QED BY <1>1, GAlways, PTL

\* For any messages, nobody is banned by these guards without one of the grounds they name,
\* found in a message he wrote (the verdicts of the five listeners).
THEOREM CauseOfBans == Spec => []BannedForCause
<1>1. GInv => BannedForCause
  BY DEF GInv
<1> QED BY <1>1, GAlways, PTL

\* However many handlers hold the same images, one is put to Groq once, but for images that
\* two looked at at once or whose mark ran out (phish_groq_guard.py, _mark_seen).
THEOREM SentToGroqOnce == Spec => []AskedOnce
<1>1. GInv => AskedOnce
  BY DEF GInv
<1> QED BY <1>1, GAlways, PTL
=============================================================================
