------------------------- MODULE PhashBoard_proofs -------------------------
(***************************************************************************)
(* Proofs about PhashBoard: the types, that the matcher knows after a      *)
(* restart every hash acknowledged before and not lost, and that only an   *)
(* edit that overlaps another, or a deletion, takes a hash away.           *)
(***************************************************************************)
EXTENDS PhashBoard, TLAPS

ViewSet == [board : 0..posted, tokens : SUBSET Tokens]

LEMMA ProgramType ==
    ASSUME NEW j \in Tasks
    PROVE  /\ Program[Kind[j]] \in Seq(Stages) /\ Program[Kind[j]] # <<>>
           /\ Head(Program[Kind[j]]) # "put"
<1> DEFINE Good(s) == s \in Seq(Stages) /\ s # <<>> /\ Head(s) # "put"
<1>1. Kind[j] \in DOMAIN Program
  BY ConstAssumption
<1>2. Kind[j] \in {"learn", "rescan", "backfill", "status", "port", "reseed"}
  BY <1>1 DEF Program, Learn, Rescan, Backfill, Status, Port, Reseed
<1>3. Good(<<"read", "merge", "put">>) /\ Good(<<"look">>)
  BY DEF Stages
<1>4. Good(<<"read", "look", "again", "merge", "put">>)
  BY DEF Stages
<1>5. Good(<<"look", "read", "merge", "put">>)
  BY DEF Stages
<1>6. Good(<<"read", "find", "put">>) /\ Good(<<"find", "read", "put">>)
  BY DEF Stages
<1> HIDE DEF Good
<1>7. \A k \in {"learn", "rescan", "backfill", "status", "port", "reseed"} : Good(Program[k])
  BY <1>3, <1>4, <1>5, <1>6
     DEF Program, Learn, Rescan, Backfill, Status, Port, Reseed
<1>8. Good(Program[Kind[j]])
  BY <1>2, <1>7
<1> QED
  BY <1>8 DEF Good

LEMMA TypeInit == Init => TypeOK
<1> SUFFICES ASSUME Init PROVE TypeOK
  OBVIOUS
<1>1. config \in 0..MaxBoards /\ config \in {0, 1}
  BY ConstAssumption DEF Init
<1>2. \A j \in Tasks : pc[j] \in Requesting \union {"idle", "done"}
  BY DEF Init
<1> QED
  BY <1>1, <1>2, ProgramType, ConstAssumption DEF Init, TypeOK, Boards, NoView, Requesting

LEMMA SpendType ==
    ASSUME NEW kind, faults \in 0..MaxFaults, Spend(kind)
    PROVE  faults' \in 0..MaxFaults
BY ConstAssumption DEF Spend

LEMMA EnterType ==
    ASSUME NEW rest, NEW v, rest \in Seq(Stages)
    PROVE  /\ Enter(rest, v) \in Requesting \union {"done"}
           /\ Enter(rest, v) \in Requesting => rest # <<>>
BY DEF Enter, Requesting

\* The part of the type that a task's step changes.
TaskOK ==
    /\ todo \in [Tasks -> Seq(Stages)]
    /\ pc \in [Tasks -> Requesting \union {"idle", "done"}]
    /\ base \in [Tasks -> SUBSET Boards]
    /\ \A j \in Tasks : pc[j] \in Requesting => todo[j] # <<>>

LEMMA ProceedType ==
    ASSUME TypeOK, NEW j \in Tasks, NEW rest \in Seq(Stages), NEW v, Proceed(j, rest, v)
    PROVE  TaskOK'
<1>1. alive \subseteq Boards
  BY ConstAssumption DEF TypeOK, Boards
<1> QED
  BY <1>1, EnterType DEF Proceed, TypeOK, TaskOK

LEMMA GotoType ==
    ASSUME TypeOK, NEW j \in Tasks, NEW where \in Requesting, Goto(j, where), pc[j] \in Requesting
    PROVE  TaskOK'
BY DEF Goto, TypeOK, TaskOK

LEMMA TailType ==
    ASSUME TypeOK, NEW j \in Tasks, pc[j] \in Requesting
    PROVE  Tail(todo[j]) \in Seq(Stages) /\ todo[j] # <<>>
BY DEF TypeOK
LEMMA LeftType ==
    ASSUME TypeOK, NEW j \in Tasks, pc[j] \in Requesting, NEW v
    PROVE  Left(j, v) \in Seq(Stages)
<1>1. <<>> \in Seq(Stages) /\ <<"merge", "put">> \in Seq(Stages)
  BY DEF Stages
<1> QED
  BY <1>1, TailType DEF Left

\* What a step of a task leaves of the type when it changes nothing outside the tasks.
LEMMA ReturnType ==
    ASSUME TypeOK, NEW j \in Tasks, pc[j] \in Requesting, NEW v \in ViewSet, Return(j, v)
    PROVE  TaskOK' /\ view' \in [Tasks -> ViewSet] /\ old' \in [Tasks -> SUBSET Tokens]
<1>1. TaskOK'
  BY LeftType, ProceedType DEF Return
<1>2. view' \in [Tasks -> ViewSet] /\ old' \in [Tasks -> SUBSET Tokens]
  BY DEF Return, TypeOK, ViewSet
<1> QED
  BY <1>1, <1>2

LEMMA ViewType ==
    ASSUME TypeOK, NEW b \in alive
    PROVE  ViewOf(b) \in ViewSet /\ b \in Boards
BY ConstAssumption DEF TypeOK, ViewOf, ViewSet, Boards

LEMMA NoViewType == TypeOK => NoView \in ViewSet
BY ConstAssumption DEF TypeOK, NoView, ViewSet

LEMMA FoundType ==
    ASSUME TypeOK, NEW j \in Tasks, pc[j] \in Requesting, NEW v \in ViewSet, Found(j, v)
    PROVE  TaskOK' /\ view' \in [Tasks -> ViewSet]
<1>1. CASE Home(j) = "parent"
  BY <1>1, TailType, ProceedType DEF Found, TypeOK, ViewSet
<1>2. CASE Home(j) # "parent"
  BY <1>2, GotoType DEF Found, TypeOK, ViewSet, Requesting
<1> QED
  BY <1>1, <1>2

\* A board is posted.
LEMMA PostType ==
    ASSUME TypeOK, NEW j \in Tasks, Post(j)
    PROVE  /\ posted' \in 0..MaxBoards /\ posted' = posted + 1
           /\ home' \in [Boards -> {"thread", "parent"}]
           /\ alive' \subseteq 1..posted' /\ content' \in [Boards -> SUBSET Tokens]
           /\ \A b \in 0..posted : b \in 0..posted'
<1>1. posted' \in Boards /\ posted' \in 0..MaxBoards
  BY ConstAssumption DEF TypeOK, Post, Boards
<1>2. Home(j) \in {"thread", "parent"} /\ Find[j] \in SUBSET Tokens
  BY ConstAssumption DEF Home
<1> QED
  BY <1>1, <1>2, ConstAssumption DEF TypeOK, Post

LEMMA TypeStep == TypeOK /\ [Next]_vars => TypeOK'
<1> SUFFICES ASSUME TypeOK, [Next]_vars PROVE TypeOK'
  OBVIOUS
<1> USE ConstAssumption DEF discord, tasks, load, past
<1>1. ASSUME NEW j \in Tasks, Start(j)
      PROVE  TypeOK'
  <2>1. todo[j] \in Seq(Stages)
    BY DEF TypeOK
  <2>2. TaskOK'
    BY <1>1, <2>1, ProceedType DEF Start
  <2> QED
    BY <1>1, <2>2 DEF Start, TypeOK, TaskOK
<1>2. ASSUME NEW j \in Tasks, Read(j)
      PROVE  TypeOK'
  <2>1. pc[j] \in Requesting /\ <<>> \in Seq(Stages)
    BY <1>2 DEF Read, Requesting
  <2>2. TaskOK' /\ faults' \in 0..MaxFaults
    BY <1>2, <2>1, TailType, ProceedType, SpendType DEF Read, TypeOK
  <2> QED
    BY <1>2, <2>2 DEF Read, TypeOK, TaskOK
<1>3. ASSUME NEW j \in Tasks, Fetch(j)
      PROVE  TypeOK'
  <2>1. pc[j] \in Requesting
    BY <1>3 DEF Fetch, Requesting
  <2>2. /\ TaskOK' /\ view' \in [Tasks -> ViewSet] /\ old' \in [Tasks -> SUBSET Tokens]
        /\ faults' \in 0..MaxFaults
    <3>1. CASE known \in alive /\ Return(j, ViewOf(known)) /\ UNCHANGED faults
      BY <2>1, <3>1, ViewType, ReturnType DEF TypeOK
    <3>2. CASE Miss(j, "pins") /\ (UNCHANGED faults \/ Spend("fetch"))
      BY <2>1, <3>2, GotoType, SpendType DEF Miss, TypeOK, ViewSet, Requesting
    <3>3. CASE Spend("outage") /\ view' = [view EXCEPT ![j] = NoView] /\ Goto(j, "send") /\ UNCHANGED old
      BY <2>1, <3>3, GotoType, SpendType, NoViewType DEF TypeOK, ViewSet, Requesting
    <3>4. CASE Spend("channel") /\ Return(j, NoView)
      BY <2>1, <3>4, NoViewType, ReturnType, SpendType DEF TypeOK
    <3> QED
      BY <1>3, <3>1, <3>2, <3>3, <3>4 DEF Fetch
  <2> QED
    BY <1>3, <2>2 DEF Fetch, TypeOK, TaskOK, ViewSet
<1>4. ASSUME NEW j \in Tasks, Pins(j)
      PROVE  TypeOK'
  <2>1. pc[j] \in Requesting
    BY <1>4 DEF Pins, Requesting
  <2>2. /\ TaskOK' /\ view' \in [Tasks -> ViewSet] /\ old' \in [Tasks -> SUBSET Tokens]
        /\ faults' \in 0..MaxFaults /\ known' \in 0..posted
    <3>1. ASSUME NEW b \in Newest(pins), known' = b, Return(j, ViewOf(b)), UNCHANGED faults
          PROVE  /\ TaskOK' /\ view' \in [Tasks -> ViewSet] /\ old' \in [Tasks -> SUBSET Tokens]
                 /\ faults' \in 0..MaxFaults /\ known' \in 0..posted
      <4>1. b \in alive /\ b \in 0..posted
        BY <3>1 DEF Newest, TypeOK
      <4> QED
        BY <2>1, <3>1, <4>1, ViewType, ReturnType DEF TypeOK
    <3>2. CASE Miss(j, "history") /\ UNCHANGED known /\ (UNCHANGED faults \/ Spend("pins"))
      BY <2>1, <3>2, GotoType, SpendType DEF Miss, TypeOK, ViewSet, Requesting
    <3> QED
      BY <1>4, <3>1, <3>2 DEF Pins
  <2> QED
    BY <1>4, <2>2 DEF Pins, TypeOK, TaskOK, ViewSet
<1>5. ASSUME NEW j \in Tasks, History(j)
      PROVE  TypeOK'
  <2>1. pc[j] \in Requesting
    BY <1>5 DEF History, Requesting
  <2>2. \A b \in Newest(Recent(j)) : ViewOf(b) \in ViewSet
    BY ViewType DEF Newest, Recent, In
  <2>3. TaskOK' /\ view' \in [Tasks -> ViewSet] /\ faults' \in 0..MaxFaults
    BY <1>5, <2>1, <2>2, NoViewType, FoundType, SpendType DEF History, TypeOK
  <2> QED
    BY <1>5, <2>3 DEF History, TypeOK, TaskOK, ViewSet
<1>6. ASSUME NEW j \in Tasks, Send(j)
      PROVE  TypeOK'
  <2>1. pc[j] \in Requesting /\ <<>> \in Seq(Stages)
    BY <1>6 DEF Send, Requesting
  <2> DEFINE Grown == [board : 0..posted', tokens : SUBSET Tokens]
             Placed == /\ posted' \in 0..MaxBoards /\ posted' >= posted
                       /\ home' \in [Boards -> {"thread", "parent"}]
                       /\ alive' \subseteq 1..posted'
                       /\ content' \in [Boards -> SUBSET Tokens]
                       /\ pins \subseteq alive'
  <2>2. Placed
    <3>1. CASE Post(j)
      <4>1. pins \subseteq alive'
        BY <3>1 DEF Post, TypeOK
      <4> QED
        BY <3>1, <4>1, PostType DEF TypeOK
    <3>2. CASE UNCHANGED <<posted, home, alive, content>>
      BY <3>2 DEF TypeOK
    <3> QED
      BY <1>6, <3>1, <3>2 DEF Send
  <2>3. ViewSet \subseteq Grown
    BY <2>2 DEF ViewSet, TypeOK
  <2>4. TaskOK' /\ view' \in [Tasks -> Grown] /\ old' \in [Tasks -> SUBSET Tokens]
    <3>1. CASE Return(j, NoView)
      BY <2>1, <2>3, <3>1, NoViewType, ReturnType
    <3>2. CASE Proceed(j, <<>>, NoView) /\ UNCHANGED <<view, old>>
      BY <2>1, <2>3, <3>2, ProceedType DEF TypeOK, ViewSet
    <3>3. CASE /\ view' = [view EXCEPT ![j] = [board |-> posted', tokens |-> {}]]
               /\ Goto(j, "pin") /\ UNCHANGED old
      <4>1. [board |-> posted', tokens |-> {}] \in Grown
        BY <2>2
      <4> QED
        BY <2>1, <2>3, <3>3, <4>1, GotoType DEF TypeOK, ViewSet, Requesting
    <3> QED
      BY <1>6, <3>1, <3>2, <3>3 DEF Send
  <2>5. faults' \in 0..MaxFaults
    BY <1>6, SpendType DEF Send, TypeOK
  <2> QED
    BY <1>6, <2>2, <2>4, <2>5 DEF Send, TypeOK, TaskOK
<1>7. ASSUME NEW j \in Tasks, Pin(j)
      PROVE  TypeOK'
  <2>1. pc[j] \in Requesting /\ view[j] \in ViewSet
    BY <1>7 DEF Pin, Requesting, TypeOK, ViewSet
  <2>2. TaskOK' /\ view' \in [Tasks -> ViewSet] /\ old' \in [Tasks -> SUBSET Tokens]
    BY <1>7, <2>1, ReturnType DEF Pin
  <2>3. pins' \subseteq alive /\ faults' \in 0..MaxFaults /\ known' \in 0..posted
    BY <1>7, <2>1, SpendType DEF Pin, TypeOK, ViewSet
  <2> QED
    BY <1>7, <2>2, <2>3 DEF Pin, TypeOK, TaskOK, ViewSet
<1>8. ASSUME NEW j \in Tasks, Write(j)
      PROVE  TypeOK'
  <2>1. TaskOK'
    <3>1. <<>> \in Seq(Stages)
      OBVIOUS
    <3> QED
      BY <1>8, <3>1, ProceedType DEF Write
  <2>2. Added(j) \subseteq Tokens /\ Merged(j) \subseteq Tokens
    BY DEF Added, Merged, TypeOK
  <2>3. /\ content' \in [Boards -> SUBSET Tokens] /\ lost' \subseteq Tokens
        /\ acked' \subseteq Tokens /\ known' \in 0..posted /\ faults' \in 0..MaxFaults
    <3>1. content' \in [Boards -> SUBSET Tokens]
      BY <1>8, <2>2 DEF Write, Edit, TypeOK
    <3>2. Held \subseteq Tokens
      BY DEF Held, HeldBy, TypeOK, Boards
    <3>3. lost' \subseteq Tokens
      BY <1>8, <3>2 DEF Write, Forget, TypeOK
    <3>4. acked' \subseteq Tokens /\ known' \in 0..posted
      BY <1>8, <2>2 DEF Write, TypeOK
    <3>5. faults' \in 0..MaxFaults
      BY <1>8, SpendType DEF Write, TypeOK
    <3> QED
      BY <3>1, <3>3, <3>4, <3>5
  <2> QED
    BY <1>8, <2>1, <2>3 DEF Write, TypeOK, TaskOK
<1>9. ASSUME NEW from, NEW to \in {"pins", "history", "done"}, NEW S, S \subseteq Boards,
             LoadStep(from, to, S)
      PROVE  TypeOK'
  <2>1. Texts(S) \subseteq Tokens
    BY <1>9 DEF Texts, TypeOK
  <2> QED
    BY <1>9, <2>1, SpendType DEF LoadStep, TypeOK
<1>10. CASE Load
  <2>1. alive \subseteq Boards
    BY DEF TypeOK, Boards
  <2> QED
    <3>1. CASE GuardFetch
      BY <1>9, <2>1, <3>1 DEF GuardFetch
    <3>2. CASE GuardPins
      BY <1>9, <2>1, <3>2 DEF GuardPins, TypeOK
    <3>3. CASE GuardHistory
      BY <1>9, <2>1, <3>3 DEF GuardHistory, In
    <3> QED
      BY <1>10, <3>1, <3>2, <3>3 DEF Load
<1>11. ASSUME NEW b \in Boards, Delete(b)
       PROVE  TypeOK'
  <2>1. Held \subseteq Tokens
    BY DEF Held, HeldBy, TypeOK, Boards
  <2> QED
    BY <1>11, <2>1, SpendType DEF Delete, Forget, TypeOK
<1>12. CASE Restart
  <2>1. \A j \in Tasks : Program[Kind[j]] \in Seq(Stages) /\ Program[Kind[j]] # <<>>
    BY ProgramType
  <2>2. TaskOK'
    BY <1>12, <2>1 DEF Restart, TypeOK, TaskOK, Requesting
  <2>3. view' \in [Tasks -> ViewSet] /\ old' \in [Tasks -> SUBSET Tokens]
    BY <1>12, NoViewType DEF Restart
  <2>4. known' \in 0..posted /\ boots' \in 0..MaxBoots /\ due' \subseteq Tokens
    BY <1>12 DEF Restart, TypeOK
  <2> QED
    BY <1>12, <2>2, <2>3, <2>4 DEF Restart, TypeOK, TaskOK, ViewSet
<1>13. CASE UNCHANGED vars
  BY <1>13 DEF vars, TypeOK
<1> QED
  BY <1>1, <1>2, <1>3, <1>4, <1>5, <1>6, <1>7, <1>8, <1>10, <1>11, <1>12, <1>13
     DEF Next, Requests

\* Every variable has its type.
THEOREM TypeCorrect == Spec => []TypeOK
<1>1. Init => TypeOK
  BY TypeInit
<1>2. TypeOK /\ [Next]_vars => TypeOK'
  BY TypeStep
<1> QED
  BY <1>1, <1>2, PTL DEF Spec

-----------------------------------------------------------------------------
\* Boards of the thread stay apart from the inboxes' one: what a task of the thread looked
\* up, what is pinned and what the process knows are boards of the thread.
Apart ==
    /\ config = 1 => home[1] = "thread"
    /\ known # 0 => home[known] = "thread"
    /\ \A b \in pins : home[b] = "thread"
    /\ \A j \in Tasks : Home(j) = "thread" /\ view[j].board # 0 => home[view[j].board] = "thread"
    /\ \A j \in Tasks : pc[j] = "pin" => Home(j) = "thread"

\* What was acknowledged is held or lost, so a load that saw every board knows it.
Kept ==
    /\ acked \subseteq Held \union lost
    /\ due \subseteq acked
    /\ Remembered

LEMMA ApartInit == Init => Apart
BY ConstAssumption DEF Init, Apart, Boards, NoView

LEMMA ApartReturn ==
    ASSUME TypeOK, Apart, NEW j \in Tasks, NEW v, v.board # 0 => home[v.board] = "thread",
           view' = [view EXCEPT ![j] = v], home' = home
    PROVE  \A k \in Tasks : Home(k) = "thread" /\ view'[k].board # 0 => home'[view'[k].board] = "thread"
BY DEF Apart, TypeOK, Home

\* Only a lookup in the thread pins.
LEMMA PinStep ==
    ASSUME TypeOK, Apart, [Next]_vars
    PROVE  \A j \in Tasks : pc'[j] = "pin" => Home(j) = "thread"
<1> USE DEF discord, tasks, load, past
<1>1. ASSUME NEW rest, NEW v
      PROVE  Enter(rest, v) # "pin"
  BY DEF Enter
<1>2. ASSUME NEW j \in Tasks, NEW rest, NEW v, Proceed(j, rest, v)
      PROVE  \A k \in Tasks : pc'[k] = "pin" => Home(k) = "thread"
  BY <1>1, <1>2 DEF Proceed, Apart, TypeOK
<1>3. ASSUME NEW j \in Tasks, NEW where, Goto(j, where), where # "pin" \/ Home(j) = "thread"
      PROVE  \A k \in Tasks : pc'[k] = "pin" => Home(k) = "thread"
  BY <1>3 DEF Goto, Apart, TypeOK
<1>4. ASSUME NEW j \in Tasks, Start(j) \/ Read(j) \/ Write(j)
      PROVE  \A k \in Tasks : pc'[k] = "pin" => Home(k) = "thread"
  BY <1>2, <1>4 DEF Start, Read, Write
<1>5. ASSUME NEW j \in Tasks, Fetch(j) \/ Pins(j) \/ Pin(j)
      PROVE  \A k \in Tasks : pc'[k] = "pin" => Home(k) = "thread"
  BY <1>2, <1>3, <1>5 DEF Fetch, Pins, Pin, Return, Miss
<1>6. ASSUME NEW j \in Tasks, History(j)
      PROVE  \A k \in Tasks : pc'[k] = "pin" => Home(k) = "thread"
  <2>1. Home(j) \in {"thread", "parent"}
    BY DEF Home
  <2> QED
    BY <1>2, <1>3, <1>6, <2>1 DEF History, Found
<1>7. ASSUME NEW j \in Tasks, Send(j)
      PROVE  \A k \in Tasks : pc'[k] = "pin" => Home(k) = "thread"
  BY <1>2, <1>3, <1>7 DEF Send, Return
<1>8. CASE Load \/ (\E b \in Boards : Delete(b)) \/ UNCHANGED vars
  BY <1>8 DEF Load, GuardFetch, GuardPins, GuardHistory, LoadStep, Delete, vars, Apart
<1>9. CASE Restart
  BY <1>9 DEF Restart
<1> QED
  BY <1>4, <1>5, <1>6, <1>7, <1>8, <1>9 DEF Next, Requests

LEMMA ApartStep == TypeOK /\ Apart /\ [Next]_vars => Apart'
<1> SUFFICES ASSUME TypeOK, Apart, [Next]_vars PROVE Apart'
  OBVIOUS
<1> DEFINE Places == /\ config = 1 => home[1] = "thread"
                     /\ known # 0 => home[known] = "thread"
                     /\ \A b \in pins : home[b] = "thread"
                     /\ \A j \in Tasks : Home(j) = "thread" /\ view[j].board # 0
                                            => home[view[j].board] = "thread"
<1> USE DEF discord, tasks, load, past
<1>1. ASSUME NEW j \in Tasks, Start(j) \/ Read(j) \/ Write(j)
      PROVE  Places'
  BY <1>1 DEF Start, Read, Write, Apart, Home
<1>2. ASSUME NEW j \in Tasks, Fetch(j)
      PROVE  Places'
  <2>1. UNCHANGED <<home, known, pins, config>>
    BY <1>2 DEF Fetch
  <2>2. CASE known \in alive /\ Return(j, ViewOf(known))
    <3>1. known # 0 /\ ViewOf(known).board = known
      BY <2>2 DEF TypeOK, ViewOf
    <3> QED
      BY <2>1, <2>2, <3>1, ApartReturn DEF Return, Apart
  <2>3. CASE view' = [view EXCEPT ![j] = NoView] \/ Return(j, NoView)
    <3>1. NoView.board = 0
      BY DEF NoView
    <3> QED
      BY <2>1, <2>3, <3>1, ApartReturn DEF Return, Apart
  <2>4. CASE Miss(j, "pins")
    BY <2>1, <2>4 DEF Miss, Apart
  <2> QED
    BY <1>2, <2>2, <2>3, <2>4 DEF Fetch
<1>3. ASSUME NEW j \in Tasks, Pins(j)
      PROVE  Places'
  <2>1. UNCHANGED <<home, pins, config>>
    BY <1>3 DEF Pins
  <2>2. CASE Miss(j, "history") /\ UNCHANGED known
    BY <2>1, <2>2 DEF Miss, Apart
  <2>3. ASSUME NEW b \in pins, known' = b, Return(j, ViewOf(b))
        PROVE  Places'
    <3>1. home[b] = "thread" /\ ViewOf(b).board = b
      BY DEF Apart, ViewOf
    <3> QED
      BY <2>1, <2>3, <3>1, ApartReturn DEF Return, Apart
  <2> QED
    BY <1>3, <2>2, <2>3 DEF Pins, Newest
<1>4. ASSUME NEW j \in Tasks, History(j)
      PROVE  Places'
  <2>1. UNCHANGED <<home, pins, known, config>>
    BY <1>4 DEF History
  <2>2. ASSUME NEW v, view' = [view EXCEPT ![j] = v], v.board # 0 => home[v.board] = Home(j)
        PROVE  Places'
    <3>1. CASE Home(j) = "thread"
      BY <2>1, <2>2, <3>1, ApartReturn DEF Apart
    <3>2. CASE Home(j) # "thread"
      BY <2>1, <2>2, <3>2 DEF Apart, TypeOK
    <3> QED
      BY <3>1, <3>2
  <2>3. ASSUME NEW v, Found(j, v)
        PROVE  view' = [view EXCEPT ![j] = v]
    BY <2>3 DEF Found
  <2>4. CASE Found(j, NoView)
    BY <2>2, <2>3, <2>4 DEF NoView
  <2>5. ASSUME NEW b \in Newest(Recent(j)), Found(j, ViewOf(b))
        PROVE  Places'
    <3>1. home[b] = Home(j) /\ ViewOf(b).board = b
      BY <2>5 DEF Newest, Recent, In, ViewOf
    <3> QED
      BY <2>2, <2>3, <2>5, <3>1
  <2> QED
    BY <1>4, <2>4, <2>5 DEF History
<1>5. ASSUME NEW j \in Tasks, Send(j)
      PROVE  Places'
  <2>1. UNCHANGED <<pins, known>>
    BY <1>5 DEF Send
  <2>2. \A b \in Boards : b <= posted => home'[b] = home[b]
    BY <1>5, ConstAssumption DEF Send, Post, TypeOK, Boards
  <2>3. \A b \in 1..posted : b \in Boards
    BY ConstAssumption DEF TypeOK, Boards
  <2>4. \A k \in Tasks : view[k].board \in 0..posted
    BY DEF TypeOK
  <2>5. \/ UNCHANGED view
        \/ view' = [view EXCEPT ![j] = NoView]
        \/ /\ view' = [view EXCEPT ![j] = [board |-> posted', tokens |-> {}]]
           /\ Post(j) /\ Home(j) = "thread"
    BY <1>5 DEF Send, Return
  <2>6. \A k \in Tasks : Home(k) = "thread" /\ view[k].board # 0 => home'[view[k].board] = "thread"
    BY <2>2, <2>3, <2>4 DEF Apart
  <2>7. \A k \in Tasks : Home(k) = "thread" /\ view'[k].board # 0 => home'[view'[k].board] = "thread"
    <3>1. CASE UNCHANGED view
      BY <2>6, <3>1
    <3>2. CASE view' = [view EXCEPT ![j] = NoView]
      BY <2>6, <3>2 DEF NoView, TypeOK
    <3>3. CASE /\ view' = [view EXCEPT ![j] = [board |-> posted', tokens |-> {}]]
               /\ Post(j) /\ Home(j) = "thread"
      <4>1. home'[posted'] = "thread"
        BY <3>3, PostType, ConstAssumption DEF Post, TypeOK, Boards
      <4> QED
        BY <2>6, <3>3, <4>1 DEF TypeOK
    <3> QED
      BY <2>5, <3>1, <3>2, <3>3
  <2>8. (known # 0 => home'[known] = "thread") /\ \A b \in pins : home'[b] = "thread"
    BY <2>2, <2>3 DEF Apart, TypeOK
  <2>9. config' = config /\ (config = 1 => home'[1] = "thread")
    BY <1>5, <2>2, <2>3 DEF Send, Apart, TypeOK
  <2> QED
    BY <2>1, <2>7, <2>8, <2>9 DEF Apart, Home
<1>6. ASSUME NEW j \in Tasks, Pin(j)
      PROVE  Places'
  <2>1. Home(j) = "thread" /\ UNCHANGED <<home, config>>
    BY <1>6 DEF Pin, Apart
  <2>2. view' = [view EXCEPT ![j] = view[j]] /\ known' = view[j].board
    BY <1>6 DEF Pin, Return
  <2>3. 0 \notin alive
    BY DEF TypeOK
  <2>4. \A b \in pins' : b \in pins \/ (b = view[j].board /\ b # 0)
    BY <1>6, <2>3 DEF Pin
  <2> QED
    BY <2>1, <2>2, <2>4, ApartReturn DEF Apart
<1>7. ASSUME Load \/ UNCHANGED vars
      PROVE  Places'
  BY <1>7 DEF Load, GuardFetch, GuardPins, GuardHistory, LoadStep, vars, Apart, Home
<1>8. ASSUME NEW b \in Boards, Delete(b)
      PROVE  Places'
  BY <1>8 DEF Delete, Apart, Home
<1>9. ASSUME Restart
      PROVE  Places'
  <2>1. known' = config /\ config \in {0, 1}
    BY <1>9 DEF Restart, TypeOK
  <2> QED
    BY <1>9, <2>1 DEF Restart, Apart, NoView
<1> HIDE DEF Places
<1>10. Places'
  <2>1. ASSUME NEW j \in Tasks, Start(j) \/ Requests(j)
        PROVE  Places'
    BY <1>1, <1>2, <1>3, <1>4, <1>5, <1>6, <2>1 DEF Requests
  <2> QED
    BY <1>7, <1>8, <1>9, <2>1 DEF Next
<1> QED
  BY <1>10, PinStep DEF Apart, Places, Home

LEMMA KeptInit == Init => Kept
BY DEF Init, Kept, Remembered

\* A step that changes no board, only what the tasks or the process hold.
LEMMA SameBoards ==
    ASSUME Kept, UNCHANGED <<home, alive, content, acked, due, lost, guard, got, whole>>
    PROVE  Kept' /\ Held' = Held
BY DEF Kept, Remembered, Held, HeldBy

\* A new board has an id no living board has.
LEMMA PostHeld ==
    ASSUME TypeOK, NEW j \in Tasks, Post(j)
    PROVE  Held \subseteq Held'
<1>1. \A b \in alive : b \in Boards /\ b # posted'
  BY ConstAssumption DEF TypeOK, Post, Boards
<1>2. \A b \in alive : b \in alive' /\ home'[b] = home[b] /\ content'[b] = content[b]
  BY <1>1 DEF Post, TypeOK
<1> QED
  BY <1>2 DEF Held, HeldBy

LEMMA KeptStep == TypeOK /\ Apart /\ Kept /\ [Next]_vars => Kept'
<1> SUFFICES ASSUME TypeOK, Apart, Kept, [Next]_vars PROVE Kept'
  OBVIOUS
<1> USE DEF discord, tasks, load, past
<1>1. ASSUME NEW j \in Tasks,
             Start(j) \/ Read(j) \/ Fetch(j) \/ Pins(j) \/ History(j) \/ Pin(j)
      PROVE  Kept'
  BY <1>1, SameBoards DEF Start, Read, Fetch, Pins, History, Pin
<1>2. ASSUME NEW j \in Tasks, Send(j)
      PROVE  Kept'
  <2>1. UNCHANGED <<acked, due, lost, guard, got, whole>>
    BY <1>2 DEF Send
  <2>2. CASE Post(j)
    BY <2>1, <2>2, PostHeld DEF Kept, Remembered
  <2>3. CASE UNCHANGED <<posted, home, alive, content>>
    BY <2>1, <2>3, SameBoards
  <2> QED
    BY <1>2, <2>2, <2>3 DEF Send
<1>3. ASSUME NEW j \in Tasks, Write(j)
      PROVE  Kept'
  <2>1. UNCHANGED <<home, alive, due, guard, got, whole>>
    BY <1>3 DEF Write
  <2>2. CASE UNCHANGED <<content, lost, acked>>
    BY <2>1, <2>2, SameBoards
  <2>3. CASE Edit(j) /\ Forget(alive, content')
    <3>1. lost' = lost \union (Held \ Held')
      BY <2>1, <2>3 DEF Forget, Held, HeldBy
    <3>2. CASE UNCHANGED acked
      BY <2>1, <3>1, <3>2 DEF Kept, Remembered
    <3>3. CASE Home(j) = "thread" /\ acked' = acked \union Added(j)
      <4>1. view[j].board \in alive /\ home[view[j].board] = "thread"
        BY <2>3, <3>3 DEF Edit, CanEdit, Apart, TypeOK
      <4>2. Added(j) \subseteq content'[view[j].board]
        <5>1. view[j].board \in Boards
          BY <4>1, ConstAssumption DEF TypeOK, Boards
        <5> QED
          BY <2>3, <5>1 DEF Edit, Merged, TypeOK
      <4>3. Added(j) \subseteq Held'
        BY <2>1, <4>1, <4>2 DEF Held, HeldBy
      <4> QED
        BY <2>1, <3>1, <3>3, <4>3 DEF Kept, Remembered
    <3> QED
      BY <1>3, <2>3, <3>2, <3>3 DEF Write
  <2> QED
    BY <1>3, <2>2, <2>3 DEF Write
<1>4. CASE Load
  <2>1. /\ UNCHANGED <<home, alive, content, acked, due, lost>>
        /\ got \subseteq got' /\ whole' \in {whole, FALSE} /\ Held' = Held
    BY <1>4 DEF Load, GuardFetch, GuardPins, GuardHistory, LoadStep, Held, HeldBy
  <2>2. CASE guard' # "done"
    BY <2>1, <2>2 DEF Kept, Remembered
  <2>3. CASE GuardHistory
    <3>1. whole' => Held \subseteq got' \/ whole' = FALSE
      BY <2>3 DEF GuardHistory, LoadStep, Texts, Held, HeldBy, In
    <3>2. Remembered'
      BY <2>1, <2>3, <3>1 DEF GuardHistory, LoadStep, Texts, Held, HeldBy, In, Kept, Remembered
    <3> QED
      BY <2>1, <3>2 DEF Kept
  <2> QED
    BY <1>4, <2>2, <2>3 DEF Load, GuardFetch, GuardPins, LoadStep
<1>5. ASSUME NEW b \in Boards, Delete(b)
      PROVE  Kept'
  <2>1. lost' = lost \union (Held \ Held')
    BY <1>5 DEF Delete, Forget, Held, HeldBy
  <2> QED
    BY <1>5, <2>1 DEF Delete, Kept, Remembered
<1>6. CASE Restart
  <2>1. Held' = Held
    BY <1>6 DEF Restart, Held, HeldBy
  <2> QED
    BY <1>6, <2>1 DEF Restart, Kept, Remembered
<1>7. CASE UNCHANGED vars
  BY <1>7, SameBoards DEF vars
<1> QED
  BY <1>1, <1>2, <1>3, <1>4, <1>5, <1>6, <1>7 DEF Next, Requests

\* After a restart the matcher that loaded without a failed request knows every hash
\* acknowledged before it that is not lost.
THEOREM RememberedAfterRestart == Spec => []Remembered
<1>1. Init => TypeOK /\ Apart /\ Kept
  BY TypeInit, ApartInit, KeptInit
<1>2. TypeOK /\ Apart /\ Kept /\ [Next]_vars => TypeOK' /\ Apart' /\ Kept'
  BY TypeStep, ApartStep, KeptStep
<1>3. Kept => Remembered
  BY DEF Kept
<1> QED
  BY <1>1, <1>2, <1>3, PTL DEF Spec

-----------------------------------------------------------------------------
\* An edit that finds the text it read adds to it.
LEMMA WriteGrows ==
    ASSUME TypeOK, NEW j \in Tasks, Write(j), content[view[j].board] = view[j].tokens
    PROVE  Held \subseteq Held'
<1>1. UNCHANGED <<home, alive>>
  BY DEF Write
<1>2. \A b \in Boards : content[b] \subseteq content'[b]
  <2>1. CASE Edit(j)
    BY <2>1 DEF Edit, Merged, TypeOK
  <2>2. CASE UNCHANGED content
    BY <2>2
  <2> QED
    BY <2>1, <2>2 DEF Write
<1>3. alive \subseteq Boards
  BY ConstAssumption DEF TypeOK, Boards
<1> QED
  BY <1>1, <1>2, <1>3 DEF Held, HeldBy

\* Only an edit that overlaps another edit of its board, or a deletion, takes a hash away.
THEOREM OnlyOverlapLoses == Spec => Grows
<1> DEFINE Step == Held \ Held' # {} =>
        \/ \E b \in alive : b \notin alive'
        \/ \E j \in Tasks : /\ pc[j] = "write" /\ pc'[j] = "done"
                            /\ content[view[j].board] # view[j].tokens
<1>1. TypeOK /\ [Next]_vars => Step
  <2> SUFFICES ASSUME TypeOK, [Next]_vars PROVE Step
    OBVIOUS
  <2> USE DEF discord, tasks, load, past
  <2>1. CASE UNCHANGED <<home, alive, content>>
    BY <2>1 DEF Held, HeldBy
  <2>2. ASSUME NEW j \in Tasks, Send(j)
        PROVE  Step
    <3>1. CASE Post(j)
      BY <3>1, PostHeld
    <3>2. CASE UNCHANGED <<posted, home, alive, content>>
      BY <2>1, <3>2
    <3> QED
      BY <2>2, <3>1, <3>2 DEF Send
  <2>3. ASSUME NEW j \in Tasks, Write(j)
        PROVE  Step
    <3>1. pc[j] = "write" /\ pc'[j] = "done"
      BY <2>3 DEF Write, Proceed, Enter, TypeOK
    <3> QED
      BY <2>3, <3>1, WriteGrows
  <2>4. ASSUME NEW b \in Boards, Delete(b)
        PROVE  Step
    BY <2>4 DEF Delete
  <2> QED
    BY <2>1, <2>2, <2>3, <2>4 DEF Next, Requests, Start, Read, Fetch, Pins, History, Pin,
       Load, GuardFetch, GuardPins, GuardHistory, LoadStep, Restart, vars
<1>2. Spec => []TypeOK
  BY TypeCorrect
<1>3. TypeOK /\ [Next]_vars => [Step]_vars
  BY <1>1
<1> HIDE DEF Step
<1>4. Spec => [][Step]_vars
  BY <1>2, <1>3, PTL DEF Spec
<1> QED
  BY <1>4 DEF Grows, Step

-----------------------------------------------------------------------------
\* While no request failed: a task that posts a board next, or may do so after its images
\* are read, had seen none of its home among those that were there when it began to look.
Clear(j) == \A b \in base[j] \intersect alive : home[b] # Home(j)

StrayInv ==
    /\ \A j \in Tasks : base[j] \subseteq 1..posted
    /\ \A j \in Tasks : pc[j] = "idle" => base[j] = {}
    /\ faults = 0 => \A j \in Tasks :
          /\ pc[j] = "send" \/ (pc[j] = "read" /\ view[j].board = 0) => Clear(j)
          /\ pc[j] = "pin" => view[j].board # 0

LEMMA StrayInit == Init => StrayInv
BY DEF Init, StrayInv, Clear

\* A step of one task: the others keep their view, and see no older board than before.
LEMMA OneLooks ==
    ASSUME TypeOK, StrayInv, NEW j \in Tasks,
           posted' \in Nat, posted <= posted',
           \A b \in 1..posted : home'[b] = home[b] /\ (b \in alive' => b \in alive),
           \A k \in Tasks \ {j} : pc'[k] = pc[k] /\ view'[k] = view[k] /\ base'[k] = base[k],
           base'[j] \subseteq 1..posted', pc'[j] # "idle", faults' = 0 => faults = 0,
           faults' = 0 => /\ pc'[j] = "send" \/ (pc'[j] = "read" /\ view'[j].board = 0) => Clear(j)'
                          /\ pc'[j] = "pin" => view'[j].board # 0
    PROVE  StrayInv'
<1>1. posted \in Nat
  BY ConstAssumption DEF TypeOK
<1>2. ASSUME NEW k \in Tasks \ {j}
      PROVE  /\ base'[k] \subseteq 1..posted' /\ (pc'[k] = "idle" => base'[k] = {})
             /\ Clear(k) => Clear(k)'
  <2>1. base'[k] = base[k] /\ base[k] \subseteq 1..posted
    BY DEF StrayInv
  <2>2. 1..posted \subseteq 1..posted'
    BY <1>1
  <2>3. Clear(k) => Clear(k)'
    BY <2>1 DEF Clear, Home
  <2> QED
    BY <2>1, <2>2, <2>3 DEF StrayInv
<1> QED
  BY <1>2 DEF StrayInv

\* Where a task goes on, it looks for the boards there are now, or looked before.
LEMMA Goes ==
    ASSUME TypeOK, NEW j \in Tasks, NEW rest \in Seq(Stages), NEW v, Proceed(j, rest, v)
    PROVE  /\ pc'[j] = Enter(rest, v) /\ base'[j] \in {base[j], alive}
           /\ pc'[j] \in {"send", "read"} => base'[j] = base[j]
           /\ pc'[j] = "send" => v.board = 0
           /\ pc'[j] \notin {"pin", "idle"}
           /\ \A k \in Tasks \ {j} : pc'[k] = pc[k] /\ base'[k] = base[k]
BY EnterType DEF Proceed, TypeOK, Enter

LEMMA StrayStep == TypeOK /\ StrayInv /\ [Next]_vars => StrayInv'
<1> SUFFICES ASSUME TypeOK, StrayInv, [Next]_vars PROVE StrayInv'
  OBVIOUS
<1> USE DEF discord, tasks, load, past
<1>1. /\ posted \in Nat /\ posted <= posted /\ alive \subseteq 1..posted /\ pins \subseteq alive /\ faults \in Nat
      /\ view \in [Tasks -> ViewSet] /\ pc \in [Tasks -> Requesting \union {"idle", "done"}]
      /\ base \in [Tasks -> SUBSET Boards] /\ \A j \in Tasks : base[j] \subseteq 1..posted
      /\ \A kind : Spend(kind) => faults' # 0
  BY ConstAssumption DEF TypeOK, ViewSet, StrayInv, Spend
<1>2. ASSUME NEW j \in Tasks, Start(j)
      PROVE  StrayInv'
  <2>1. /\ pc[j] = "idle" /\ Proceed(j, todo[j], NoView)
        /\ UNCHANGED <<posted, home, alive, view, faults>> /\ todo[j] \in Seq(Stages)
    BY <1>2 DEF Start, TypeOK
  <2>2. base[j] = {} /\ base'[j] \subseteq 1..posted' /\ (pc'[j] \in {"send", "read"} => Clear(j)')
    BY <1>1, <2>1, Goes DEF StrayInv, Clear
  <2> QED
    BY <1>1, <2>1, <2>2, Goes, OneLooks
<1>3. ASSUME NEW j \in Tasks, Read(j)
      PROVE  StrayInv'
  <2>1. /\ pc[j] = "read" /\ UNCHANGED <<posted, home, alive, view>> /\ (faults' = 0 => faults = 0)
        /\ Proceed(j, Tail(todo[j]), view[j]) \/ Proceed(j, <<>>, NoView)
    BY <1>1, <1>3 DEF Read
  <2>2. CASE Proceed(j, Tail(todo[j]), view[j])
    <3>1. Tail(todo[j]) \in Seq(Stages)
      BY <2>1, TailType DEF Requesting
    <3>2. base'[j] \subseteq 1..posted'
      BY <1>1, <2>1, <2>2, <3>1, Goes
    <3>3. faults' = 0 /\ (pc'[j] = "send" \/ (pc'[j] = "read" /\ view'[j].board = 0)) => Clear(j)'
      BY <2>1, <2>2, <3>1, Goes DEF StrayInv, Clear
    <3>4. pc'[j] # "idle" /\ pc'[j] # "pin" /\ \A k \in Tasks \ {j} : pc'[k] = pc[k] /\ base'[k] = base[k]
      BY <2>2, <3>1, Goes
    <3> QED
      BY <1>1, <2>1, <3>2, <3>3, <3>4, OneLooks
  <2>3. CASE Proceed(j, <<>>, NoView)
    <3>1. <<>> \in Seq(Stages) /\ Enter(<<>>, NoView) = "done"
      BY DEF Enter
    <3>2. base' = base /\ pc'[j] = "done" /\ \A k \in Tasks \ {j} : pc'[k] = pc[k]
      BY <1>1, <2>3, <3>1 DEF Proceed
    <3> QED
      BY <1>1, <2>1, <3>2, OneLooks
  <2> QED
    BY <2>1, <2>2, <2>3
\* In the calm a lookup returns a board.
<1>4. ASSUME NEW j \in Tasks, NEW v \in ViewSet, pc[j] \in Requesting, Return(j, v), v.board # 0 \/ faults' # 0,
             posted' \in Nat, posted <= posted', faults' = 0 => faults = 0,
             \A b \in 1..posted : home'[b] = home[b] /\ (b \in alive' => b \in alive)
      PROVE  StrayInv'
  <2>1. Left(j, v) \in Seq(Stages)
    BY <1>4, LeftType
  <2>2. Proceed(j, Left(j, v), v) /\ view' = [view EXCEPT ![j] = v]
    BY <1>4 DEF Return
  <2>3. base'[j] \subseteq 1..posted'
    <3>1. 1..posted \subseteq 1..posted'
      BY <1>1, <1>4
    <3> QED
      BY <1>1, <2>1, <2>2, <3>1, Goes
  <2>4. view'[j] = v /\ \A k \in Tasks \ {j} : view'[k] = view[k]
    BY <1>1, <2>2
  <2> QED
    BY <1>4, <2>1, <2>2, <2>3, <2>4, Goes, OneLooks
\* A step to another request, which looks at no board anew.
<1>5. ASSUME NEW j \in Tasks, NEW where, Goto(j, where), where # "idle",
             \A k \in Tasks \ {j} : view'[k] = view[k],
             posted' \in Nat, posted <= posted', faults' = 0 => faults = 0,
             \A b \in 1..posted : home'[b] = home[b] /\ (b \in alive' => b \in alive),
             faults' = 0 => /\ where # "read" /\ (where = "send" => Clear(j)')
                            /\ where = "pin" => view'[j].board # 0
      PROVE  StrayInv'
  <2>1. pc'[j] = where /\ base' = base /\ \A k \in Tasks \ {j} : pc'[k] = pc[k]
    BY <1>1, <1>5 DEF Goto
  <2>2. base'[j] \subseteq 1..posted'
    BY <1>1, <1>5, <2>1
  <2> QED
    BY <1>5, <2>1, <2>2, OneLooks
<1>6. ASSUME NEW b \in alive
      PROVE  ViewOf(b) \in ViewSet /\ ViewOf(b).board # 0 /\ ViewOf(b) # NoView
  BY <1>1, ViewType DEF ViewOf, NoView
<1>7. NoView \in ViewSet
  BY <1>1, NoViewType
<1>8. ASSUME NEW j \in Tasks, Fetch(j)
      PROVE  StrayInv'
  <2>1. UNCHANGED <<posted, home, alive>> /\ pc[j] = "fetch" /\ pc[j] \in Requesting
    BY <1>8 DEF Fetch, Requesting
  <2>2. CASE known \in alive /\ Return(j, ViewOf(known)) /\ UNCHANGED faults
    BY <1>1, <1>4, <1>6, <1>7, <2>1, <2>2
  <2>3. CASE Miss(j, "pins") /\ (faults' = 0 => faults = 0)
    BY <1>1, <1>5, <1>7, <2>1, <2>3 DEF Miss
  <2>4. CASE faults' # 0 /\ view' = [view EXCEPT ![j] = NoView] /\ Goto(j, "send")
    BY <1>1, <1>5, <1>7, <2>1, <2>4
  <2>5. CASE faults' # 0 /\ Return(j, NoView)
    BY <1>1, <1>4, <1>7, <2>1, <2>5
  <2> QED
    BY <1>1, <1>8, <2>2, <2>3, <2>4, <2>5 DEF Fetch
<1>9. ASSUME NEW j \in Tasks, Pins(j)
      PROVE  StrayInv'
  <2>1. UNCHANGED <<posted, home, alive>> /\ pc[j] = "pins" /\ pc[j] \in Requesting
    BY <1>9 DEF Pins, Requesting
  <2>2. CASE \E b \in Newest(pins) : known' = b /\ Return(j, ViewOf(b)) /\ UNCHANGED faults
    <3>1. PICK b \in alive : Return(j, ViewOf(b))
      BY <1>1, <2>2 DEF Newest
    <3> QED
      BY <1>1, <1>4, <1>6, <1>7, <2>1, <2>2, <3>1
  <2>3. CASE Miss(j, "history") /\ (faults' = 0 => faults = 0)
    BY <1>1, <1>5, <1>7, <2>1, <2>3 DEF Miss
  <2> QED
    BY <1>1, <1>9, <2>2, <2>3 DEF Pins
<1>10. ASSUME NEW j \in Tasks, History(j)
       PROVE  StrayInv'
  <2>1. UNCHANGED <<posted, home, alive>> /\ pc[j] = "history" /\ pc[j] \in Requesting
        /\ (faults' = 0 => faults = 0)
    BY <1>1, <1>10 DEF History, Requesting
  <2>2. PICK v \in ViewSet : /\ Found(j, v) /\ (v.board = 0 <=> v = NoView)
                             /\ v = NoView /\ faults' = 0 => Recent(j) = {}
    <3>1. CASE \E b \in Newest(Recent(j)) : Found(j, ViewOf(b))
      BY <1>6, <3>1 DEF Newest, Recent, In
    <3>2. CASE Found(j, NoView) /\ (Recent(j) = {} \/ faults' # 0)
      BY <1>7, <3>2 DEF NoView
    <3> QED
      BY <1>1, <1>10, <3>1, <3>2 DEF History
  <2>3. view'[j] = v /\ \A k \in Tasks \ {j} : view'[k] = view[k]
    BY <1>1, <2>2 DEF Found
  <2>4. base'[j] = base[j] /\ v = NoView /\ faults' = 0 => Clear(j)'
    BY <1>1, <2>1, <2>2 DEF Clear, Recent, In, Home
  <2>5. CASE Home(j) = "parent"
    <3>1. Tail(todo[j]) \in Seq(Stages) /\ Proceed(j, Tail(todo[j]), v)
      BY <2>1, <2>2, <2>5, TailType DEF Found
    <3>2. base'[j] \subseteq 1..posted'
      BY <1>1, <2>1, <3>1, Goes
    <3>3. faults' = 0 /\ (pc'[j] = "send" \/ (pc'[j] = "read" /\ view'[j].board = 0)) => Clear(j)'
      BY <2>2, <2>3, <2>4, <3>1, Goes
    <3> QED
      BY <1>1, <1>7, <2>1, <2>3, <3>1, <3>2, <3>3, Goes, OneLooks
  <2>6. CASE Home(j) # "parent"
    <3>1. Goto(j, IF v = NoView THEN "send" ELSE "pin")
      BY <2>2, <2>6 DEF Found
    <3>2. base' = base
      BY <3>1 DEF Goto
    <3>3. CASE v = NoView
      BY <1>1, <1>5, <1>7, <2>1, <2>3, <2>4, <3>1, <3>2, <3>3
    <3>4. CASE v # NoView
      BY <1>1, <1>5, <1>7, <2>1, <2>2, <2>3, <3>1, <3>4
    <3> QED
      BY <3>3, <3>4
  <2> QED
    BY <2>5, <2>6
<1>11. ASSUME NEW j \in Tasks, Send(j)
       PROVE  StrayInv'
  <2>1. pc[j] = "send" /\ pc[j] \in Requesting
    BY <1>11 DEF Send, Requesting
  <2>2. /\ posted' \in Nat /\ posted <= posted' /\ (faults' = 0 => faults = 0)
        /\ \A b \in 1..posted : home'[b] = home[b] /\ (b \in alive' => b \in alive)
        /\ Post(j) => posted' # 0
    <3>1. CASE Post(j)
      <4>1. posted' = posted + 1 /\ alive' = alive \union {posted'} /\ home' = [home EXCEPT ![posted'] = Home(j)]
        BY <3>1 DEF Post
      <4> QED
        BY <1>1, <1>11, <4>1 DEF TypeOK, Boards, Send
    <3>2. CASE UNCHANGED <<posted, home, alive>> /\ ~Post(j)
      BY <1>1, <1>7, <1>11, <3>2 DEF Send
    <3> QED
      BY <1>11, <3>1, <3>2 DEF Send
  <2>3. CASE Post(j) /\ view' = [view EXCEPT ![j] = [board |-> posted', tokens |-> {}]] /\ Goto(j, "pin")
    <3>1. view'[j].board # 0 /\ \A k \in Tasks \ {j} : view'[k] = view[k]
      BY <1>1, <2>2, <2>3
    <3> QED
      BY <1>5, <2>2, <2>3, <3>1
  <2>4. CASE Proceed(j, <<>>, NoView) /\ UNCHANGED view
    <3>1. <<>> \in Seq(Stages) /\ Enter(<<>>, NoView) = "done"
      BY DEF Enter
    <3>2. base' = base /\ pc'[j] = "done" /\ \A k \in Tasks \ {j} : pc'[k] = pc[k]
      BY <1>1, <2>4, <3>1 DEF Proceed
    <3>3. base'[j] \subseteq 1..posted'
      BY <1>1, <2>2, <3>2
    <3> QED
      BY <2>2, <2>4, <3>2, <3>3, OneLooks
  <2>5. CASE faults' # 0 /\ Return(j, NoView)
    BY <1>4, <1>7, <2>1, <2>2, <2>5
  <2> QED
    BY <1>1, <1>11, <2>3, <2>4, <2>5 DEF Send
<1>12. ASSUME NEW j \in Tasks, Pin(j)
       PROVE  StrayInv'
  <2>1. /\ UNCHANGED <<posted, home, alive>> /\ pc[j] = "pin" /\ pc[j] \in Requesting
        /\ Return(j, view[j]) /\ (faults' = 0 => faults = 0)
    BY <1>1, <1>12 DEF Pin, Requesting
  <2>2. view[j].board # 0 \/ faults' # 0
    BY <2>1 DEF StrayInv
  <2> QED
    BY <1>1, <1>4, <1>7, <2>1, <2>2
<1>13. ASSUME NEW j \in Tasks, Write(j)
       PROVE  StrayInv'
  <2>1. /\ UNCHANGED <<posted, home, alive, view>> /\ Proceed(j, <<>>, NoView) /\ (faults' = 0 => faults = 0)
    BY <1>1, <1>13 DEF Write
  <2>2. <<>> \in Seq(Stages) /\ Enter(<<>>, NoView) = "done"
    BY DEF Enter
  <2> QED
    BY <1>1, <1>7, <2>1, <2>2, Goes, OneLooks
<1>14. CASE Restart
  BY <1>14 DEF Restart, StrayInv
<1>15. ASSUME UNCHANGED <<posted, home, base, pc, view>>, faults' = 0 => faults = 0, alive' \subseteq alive
       PROVE  StrayInv'
  BY <1>15 DEF StrayInv, Clear, Home
<1>16. ASSUME NEW b \in Boards, Delete(b)
       PROVE  StrayInv'
  BY <1>1, <1>15, <1>16 DEF Delete
<1>17. CASE Load \/ UNCHANGED vars
  BY <1>1, <1>15, <1>17 DEF Load, GuardFetch, GuardPins, GuardHistory, LoadStep, vars
<1> QED
  BY <1>2, <1>3, <1>8, <1>9, <1>10, <1>11, <1>12, <1>13, <1>14, <1>16, <1>17 DEF Next, Requests

\* Without failed requests no board is posted beside one of the same home that its task could
\* have found, in whatever order lookups, posts and restarts come.
THEOREM NoneBeside == Spec => NoStrayBoard
<1> DEFINE Step == posted' # posted /\ faults' = 0 =>
        \A j \in Tasks : pc'[j] # pc[j] =>
            \A b \in base[j] \intersect alive : home[b] # Home(j)
<1>1. TypeOK /\ StrayInv /\ [Next]_vars => Step
  <2> SUFFICES ASSUME TypeOK, StrayInv, [Next]_vars, posted' # posted, faults' = 0
               PROVE  \A j \in Tasks : pc'[j] # pc[j] => Clear(j)
    BY DEF Clear
  <2>1. PICK i \in Tasks : Send(i)
    BY DEF Next, Requests, Start, Read, Fetch, Pins, History, Pin, Write, Load, GuardFetch, GuardPins,
       GuardHistory, LoadStep, Delete, Restart, vars, discord
  <2>2. Post(i) /\ faults = 0 /\ Clear(i)
    BY <2>1, ConstAssumption DEF Send, Spend, StrayInv, TypeOK
  <2>3. \A k \in Tasks \ {i} : pc'[k] = pc[k]
    BY <2>1 DEF Send, Goto, Return, Proceed, TypeOK
  <2> QED
    BY <2>2, <2>3
<1>2. TypeOK /\ StrayInv /\ [Next]_vars => [Step]_vars
  BY <1>1
<1> HIDE DEF Step
<1>3. Spec => [][Step]_vars
  BY <1>2, StrayInit, StrayStep, TypeCorrect, PTL DEF Spec
<1> QED
  BY <1>3 DEF NoStrayBoard, Step
=============================================================================
