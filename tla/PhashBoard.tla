----------------------------- MODULE PhashBoard -----------------------------
(***************************************************************************)
(* The hash database: one pinned Discord message whose text is a JSON list *)
(* of image hashes.  Every writer looks the message up, request by request *)
(* (by its id, among the pins, in the history, else it posts a new one),   *)
(* and edits it to what it read plus what it adds.  The phishing matcher   *)
(* loads the hashes once per process.  A second database, in the parent    *)
(* channel, is kept by two inboxes that find it in the history alone.      *)
(* nixe/helpers/phash_board.py, nixe/state_runtime.py and the cogs         *)
(* a16b_phish_autolearn_phash_overlay.py, phash_rescanner.py,              *)
(* phash_db_board.py, status_commands.py, a12_phash_inbox_port.py,         *)
(* a13_phash_autoreseed_port.py, a16_phash_phish_guard_overlay.py.         *)
(***************************************************************************)
EXTENDS Naturals, FiniteSets, Sequences

CONSTANTS
    Tokens, Tasks,
    Kind,        \* of each task
    Batches,     \* the sets of tasks that may come up in a run
    Find,        \* the hashes of the images each task reads
    Configured,  \* the ids PHASH_DB_MESSAGE_ID may hold: 0, none, or 1, a pinned board
    Cap,         \* the hashes a message of 2000 characters holds
    FaultKinds,
    MaxBoards, MaxFaults, MaxBoots  \* bounds of a run

\* What each kind of task does, in order: read images, look the board up, write.
Learn    == <<"read", "merge", "put">>
Rescan   == <<"read", "look", "again", "merge", "put">>
Backfill == <<"look", "read", "merge", "put">>
Status   == <<"look">>
Port     == <<"read", "find", "put">>
Reseed   == <<"find", "read", "put">>

Program ==
    [learn |-> Learn, rescan |-> Rescan, backfill |-> Backfill,
     status |-> Status, port |-> Port, reseed |-> Reseed]

ASSUME ConstAssumption ==
    /\ Kind \in [Tasks -> DOMAIN Program] /\ Find \in [Tasks -> SUBSET Tokens]
    /\ Batches \subseteq SUBSET Tasks
    /\ Configured \subseteq {0, 1} /\ Cap \in Nat
    /\ MaxBoards \in Nat \ {0} /\ MaxFaults \in Nat /\ MaxBoots \in Nat

Boards == 1..MaxBoards

\* The inboxes keep theirs in the channel above their thread.
Home(j) == IF Kind[j] \in {"port", "reseed"} THEN "parent" ELSE "thread"

VARIABLES
    posted,   \* how many boards were posted: their ids count up
    home, alive, content,
    pins,     \* the pinned boards of the thread
    config,   \* PHASH_DB_MESSAGE_ID
    known,    \* the message id of state_runtime, process memory
    batch,    \* the tasks of this run
    todo, pc, \* of each task: what is left of its program, the request it waits for
    view,     \* the message it looked up, as it was then
    old,      \* the hashes it read before its images
    base,     \* history: the boards there when its lookup began
    guard, got,  \* the matcher's load: its request, the hashes so far
    whole,    \* history: no request of the load failed
    acked,    \* history: hashes a writer was told are in the thread's database
    due,      \* history: those acknowledged before this process
    lost,     \* history: hashes that were on a board of the thread and then on none
    boots, faults

discord == <<posted, home, alive, content, pins>>
tasks == <<todo, pc, view, old, base>>
load == <<guard, got, whole>>
past == <<acked, due, lost>>
vars == <<discord, batch, config, known, tasks, load, past, boots, faults>>

NoView == [board |-> 0, tokens |-> {}]

ViewOf(b) == [board |-> b, tokens |-> content[b]]

In(where) == {b \in alive : home[b] = where}

Newest(S) == {b \in S : \A c \in S : c <= b}

\* What the boards of the thread hold together.
HeldBy(live, text) == UNION {text[b] : b \in {c \in live : home[c] = "thread"}}

Held == HeldBy(alive, content)

Forget(live, text) == lost' = lost \union (Held \ HeldBy(live, text))

Spend(kind) == kind \in FaultKinds /\ faults < MaxFaults /\ faults' = faults + 1

Init ==
    /\ config \in Configured /\ known = config /\ posted = config
    /\ alive = 1..config /\ pins = alive
    /\ home = [b \in Boards |-> "thread"] /\ content = [b \in Boards |-> {}]
    /\ batch \in Batches
    /\ todo = [j \in Tasks |-> Program[Kind[j]]]
    /\ pc = [j \in Tasks |-> IF j \in batch THEN "idle" ELSE "done"]
    /\ view = [j \in Tasks |-> NoView]
    /\ old = [j \in Tasks |-> {}] /\ base = [j \in Tasks |-> {}]
    /\ guard = "fetch" /\ got = {} /\ whole = TRUE
    /\ acked = {} /\ due = {} /\ lost = {} /\ boots = 0 /\ faults = 0

-----------------------------------------------------------------------------
\* The first request of what is left to do.
Enter(rest, v) ==
    IF rest = <<>> THEN "done"
    ELSE CASE Head(rest) = "read" -> "read"
           [] Head(rest) = "find" -> "history"
           [] Head(rest) = "put"  -> IF v.board = 0 THEN "send" ELSE "write"
           [] OTHER               -> "fetch"

Proceed(j, rest, v) ==
    /\ todo' = [todo EXCEPT ![j] = rest]
    /\ pc' = [pc EXCEPT ![j] = Enter(rest, v)]
    /\ base' = IF Enter(rest, v) \in {"fetch", "history"} THEN [base EXCEPT ![j] = alive] ELSE base

Goto(j, where) == pc' = [pc EXCEPT ![j] = where] /\ UNCHANGED <<todo, base>>

Start(j) ==
    /\ pc[j] = "idle"
    /\ Proceed(j, todo[j], NoView)
    /\ UNCHANGED <<discord, batch, config, known, view, old, load, past, boots, faults>>

\* The images are downloaded and hashed, a backfill's and a reseed's one after the other.
\* No hash, or none a backfill did not see on the board: nothing to write.
Read(j) ==
    /\ pc[j] = "read"
    /\ \/ /\ Kind[j] = "backfill" => ~(Find[j] \subseteq old[j])
          /\ Proceed(j, Tail(todo[j]), view[j]) /\ UNCHANGED faults
       \/ /\ Kind[j] = "backfill" /\ Find[j] \subseteq old[j]
          /\ Proceed(j, <<>>, NoView) /\ UNCHANGED faults
       \/ Spend("read") /\ Proceed(j, <<>>, NoView)
    /\ UNCHANGED <<discord, batch, config, known, view, old, load, past, boots>>

-----------------------------------------------------------------------------
\* get_pinned_db_message returns v.  Without a board a writer gives up; a rescan that
\* read no hash asks once more whether there is a board.
EmptyIsNone(j, v) == IF v.tokens = {} THEN <<>> ELSE Tail(todo[j])  \* faulty variant

Left(j, v) ==
    CASE v.board = 0 /\ Head(todo[j]) \in {"again", "merge"}     -> <<>>
      [] v.tokens # {} /\ Kind[j] = "rescan" /\ Head(todo[j]) = "look" -> <<"merge", "put">>
      [] OTHER                                                   -> Tail(todo[j])

Return(j, v) ==
    /\ view' = [view EXCEPT ![j] = v]
    /\ old' = IF Head(todo[j]) = "look" THEN [old EXCEPT ![j] = v.tokens] ELSE old
    /\ Proceed(j, Left(j, v), v)

Miss(j, where) == Goto(j, where) /\ UNCHANGED <<view, old>>

\* fetch_message by the known id: whatever fails counts as "not there", and in an outage
\* the pins and the history fail like it.
Fetch(j) ==
    /\ pc[j] = "fetch"
    /\ \/ known \in alive /\ Return(j, ViewOf(known)) /\ UNCHANGED faults
       \/ known \notin alive /\ Miss(j, "pins") /\ UNCHANGED faults
       \/ Spend("fetch") /\ Miss(j, "pins")
       \/ Spend("outage") /\ view' = [view EXCEPT ![j] = NoView] /\ Goto(j, "send") /\ UNCHANGED old
       \/ Spend("channel") /\ Return(j, NoView)
    /\ UNCHANGED <<discord, batch, config, known, load, past, boots>>

Pins(j) ==
    /\ pc[j] = "pins"
    /\ \/ \E b \in Newest(pins) : known' = b /\ Return(j, ViewOf(b)) /\ UNCHANGED faults
       \/ pins = {} /\ Miss(j, "history") /\ UNCHANGED <<known, faults>>
       \/ Spend("pins") /\ Miss(j, "history") /\ UNCHANGED known
    /\ UNCHANGED <<discord, batch, config, load, past, boots>>

\* The newest board among the last messages: of a thread's lookup, which then pins it,
\* or of an inbox's "find".
NoHistory(j) == {}  \* faulty variant

Recent(j) == In(Home(j))

Found(j, v) ==
    IF Home(j) = "parent"
    THEN view' = [view EXCEPT ![j] = v] /\ Proceed(j, Tail(todo[j]), v)
    ELSE view' = [view EXCEPT ![j] = v] /\ Goto(j, IF v = NoView THEN "send" ELSE "pin")

History(j) ==
    /\ pc[j] = "history"
    /\ \/ \E b \in Newest(Recent(j)) : Found(j, ViewOf(b)) /\ UNCHANGED faults
       \/ Recent(j) = {} /\ Found(j, NoView) /\ UNCHANGED faults
       \/ Spend("history") /\ Found(j, NoView)
    /\ UNCHANGED <<discord, batch, config, known, old, load, past, boots>>

\* A new board: the template in the thread, an inbox's hashes in the parent channel.
\* The request may be carried out and its answer lost.
Post(j) ==
    /\ posted < MaxBoards /\ posted' = posted + 1
    /\ home' = [home EXCEPT ![posted'] = Home(j)] /\ alive' = alive \union {posted'}
    /\ content' = [content EXCEPT ![posted'] = IF Home(j) = "thread" THEN {} ELSE Find[j]]

Send(j) ==
    /\ pc[j] = "send"
    /\ \/ /\ Post(j) /\ UNCHANGED faults
          /\ IF Home(j) = "thread"
             THEN view' = [view EXCEPT ![j] = [board |-> posted', tokens |-> {}]]
                  /\ Goto(j, "pin") /\ UNCHANGED old
             ELSE Proceed(j, <<>>, NoView) /\ UNCHANGED <<view, old>>
       \/ /\ Post(j) /\ Spend("answer")
          /\ IF Home(j) = "thread" THEN Return(j, NoView)
             ELSE Proceed(j, <<>>, NoView) /\ UNCHANGED <<view, old>>
       \/ /\ Spend("send") /\ UNCHANGED <<posted, home, alive, content>>
          /\ IF Home(j) = "thread" THEN Return(j, NoView)
             ELSE Proceed(j, <<>>, NoView) /\ UNCHANGED <<view, old>>
    /\ UNCHANGED <<pins, batch, config, known, load, past, boots>>

\* The pin may fail; the message becomes the known one either way.
Pin(j) ==
    /\ pc[j] = "pin"
    /\ \/ pins' = pins \union ({view[j].board} \intersect alive) /\ UNCHANGED faults
       \/ Spend("pin") /\ UNCHANGED pins
    /\ known' = view[j].board /\ Return(j, view[j])
    /\ UNCHANGED <<posted, home, alive, content, batch, config, load, past, boots>>

-----------------------------------------------------------------------------
\* edit_pinned_db: what it read plus what the caller adds replaces the text.
Added(j) == Find[j] \union (IF Home(j) = "thread" THEN old[j] ELSE {})

Overwritten(j) == Added(j)  \* faulty variant

Merged(j) == view[j].tokens \union Added(j)

CanEdit(j) == view[j].board \in alive /\ Cardinality(Merged(j)) <= Cap

Edit(j) ==
    /\ CanEdit(j)
    /\ content' = [content EXCEPT ![view[j].board] = Merged(j)]

Write(j) ==
    /\ pc[j] = "write"
    /\ Proceed(j, <<>>, NoView)
    /\ \/ /\ Edit(j) /\ Forget(alive, content') /\ UNCHANGED faults
          /\ IF Home(j) = "thread"
             THEN known' = view[j].board /\ acked' = acked \union Added(j)
             ELSE UNCHANGED <<known, acked>>
       \/ Edit(j) /\ Forget(alive, content') /\ Spend("answer") /\ UNCHANGED <<known, acked>>
       \/ ~CanEdit(j) /\ UNCHANGED <<content, lost, known, acked, faults>>
       \/ Spend("edit") /\ UNCHANGED <<content, lost, known, acked>>
    /\ UNCHANGED <<posted, home, alive, pins, batch, config, view, old, load, due, boots>>

-----------------------------------------------------------------------------
\* The matcher's load, once per process: the known message, then every pin, then the
\* history; what a failed request would have shown is missing.
Texts(S) == UNION {content[b] : b \in S}

LoadStep(from, to, S) ==
    /\ guard = from /\ guard' = to
    /\ \/ got' = got \union Texts(S) /\ UNCHANGED <<whole, faults>>
       \/ Spend("load") /\ whole' = FALSE /\ UNCHANGED got
    /\ UNCHANGED <<discord, batch, config, known, tasks, past, boots>>

OnlyKnown == LoadStep("fetch", "done", {known} \intersect alive)  \* faulty variant

GuardFetch   == LoadStep("fetch", "pins", {known} \intersect alive)
GuardPins    == LoadStep("pins", "history", pins)
GuardHistory == LoadStep("history", "done", In("thread"))

\* A moderator deletes a board.
Delete(b) ==
    /\ b \in alive /\ Spend("delete")
    /\ alive' = alive \ {b} /\ pins' = pins \ {b} /\ Forget(alive \ {b}, content)
    /\ UNCHANGED <<posted, home, content, batch, config, known, tasks, load, acked, due, boots>>

\* The process dies and starts again; the learner's claims die with it.
Restart ==
    /\ boots < MaxBoots /\ boots' = boots + 1
    /\ known' = config
    /\ todo' = [j \in Tasks |-> Program[Kind[j]]]
    /\ pc' = [j \in Tasks |-> IF j \in batch THEN "idle" ELSE "done"]
    /\ view' = [j \in Tasks |-> NoView]
    /\ old' = [j \in Tasks |-> {}] /\ base' = [j \in Tasks |-> {}]
    /\ guard' = "fetch" /\ got' = {} /\ whole' = TRUE
    /\ due' = acked
    /\ UNCHANGED <<discord, batch, config, acked, lost, faults>>

Requests(j) ==
    Read(j) \/ Fetch(j) \/ Pins(j) \/ History(j) \/ Send(j) \/ Pin(j) \/ Write(j)

Load == GuardFetch \/ GuardPins \/ GuardHistory

Next ==
    \/ \E j \in Tasks : Start(j) \/ Requests(j)
    \/ Load
    \/ \E b \in Boards : Delete(b)
    \/ Restart

\* A request is answered or raises, and the loop runs the task again.
Fairness == (\A j \in Tasks : WF_vars(Requests(j))) /\ WF_vars(Load)

Spec == Init /\ [][Next]_vars /\ Fairness

-----------------------------------------------------------------------------
Requesting == {"read", "fetch", "pins", "history", "send", "pin", "write"}

Stages == {"read", "look", "again", "merge", "find", "put"}

\* Every variable has its type, and a task that waits for a request has something to do.
TypeOK ==
    /\ posted \in 0..MaxBoards /\ home \in [Boards -> {"thread", "parent"}]
    /\ alive \subseteq 1..posted /\ pins \subseteq alive
    /\ content \in [Boards -> SUBSET Tokens]
    /\ batch \in Batches /\ config \in {0, 1} /\ config <= posted /\ known \in 0..posted
    /\ todo \in [Tasks -> Seq(Stages)]
    /\ pc \in [Tasks -> Requesting \union {"idle", "done"}]
    /\ view \in [Tasks -> [board : 0..posted, tokens : SUBSET Tokens]]
    /\ old \in [Tasks -> SUBSET Tokens] /\ base \in [Tasks -> SUBSET Boards]
    /\ guard \in {"fetch", "pins", "history", "done"} /\ got \subseteq Tokens
    /\ whole \in BOOLEAN
    /\ acked \subseteq Tokens /\ due \subseteq Tokens /\ lost \subseteq Tokens
    /\ boots \in 0..MaxBoots /\ faults \in 0..MaxFaults
    /\ \A j \in Tasks : pc[j] \in Requesting => todo[j] # <<>>

\* After a restart the matcher that loaded without a failed request knows every hash
\* acknowledged before, on whichever board it is, but those lost.
Remembered == guard = "done" /\ whole => due \subseteq got \union lost

\* An edit takes hashes off the database only if another edit of that board came between
\* its lookup and itself; everything else but a moderator's deletion adds.
Grows ==
    [][Held \ Held' # {} =>
        \/ \E b \in alive : b \notin alive'
        \/ \E j \in Tasks : /\ pc[j] = "write" /\ pc'[j] = "done"
                            /\ content[view[j].board] # view[j].tokens]_vars

\* A board is posted beside another only after a failed request, or when the two were
\* looked for at the same time.
NoStrayBoard ==
    [][posted' # posted /\ faults' = 0 =>
        \A j \in Tasks : pc'[j] # pc[j] =>
            \A b \in base[j] \intersect alive : home[b] # Home(j)]_vars

\* A backfill, a learner or a rescan that began gets its hashes onto a board of the
\* thread, unless a request failed, the process died or the message is full.
Full == \E b \in In("thread") : Cardinality(content[b] \union Tokens) > Cap

Learned ==
    \A j \in Tasks :
        Home(j) = "thread" /\ Kind[j] # "status" =>
            (pc[j] \in Requesting ~> Find[j] \subseteq Held \/ faults > 0 \/ boots > 0 \/ Full)
=============================================================================
