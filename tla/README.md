# A verification project for NixeBot

NixeBot is a Discord moderation bot. One Python process runs one asyncio event loop
(`main.py`, `nixe/cogs_loader.py`) and loads about 150 cogs: guards that classify
messages and delete, redirect or ban, and a few services (a YouTube live announcer,
a translator, a dashboard). Nearly every hazard lies in what happens between two
`await`s: handlers of the same message, loops and handlers over the same file, messages
deleted while another handler fetches them, requests that fail, processes that restart on
a disk that may be empty. Only the translator's dictionary lookups and the memory
sweeper's purge run on threads of their own.

This directory holds TLA+ modules for the parts whose correctness depends on that,
TLC configurations that check them on small instances, and proofs checked by TLAPS.
Paths below are relative to the repository.

**Common conventions.** A step of a task runs from one `await` to the next; between
two awaits the event loop runs nothing else. `pc[t]` names the await a task is at. The
outcome of a request (answered, failed, answered although the caller saw an error) is a
disjunct of the step after it. `faults` and `MaxFaults` (`MaxCrashes`) bound how many
failures a *run* injects; no proof depends on their value. Definitions marked
`faulty variant` are not used by the specifications: they are the plausible bugs with
which each property was tested for being able to fail.

## Inventory

| Part | State | Operations and callers | What is hard |
| --- | --- | --- | --- |
| Live announcer `cogs/a21_youtube_wuwa_live_announce.py` | `state["announced"]`, `announced_vids`, video cache, `_INFLIGHT_VIDS`, send queue, Cloudflare cooldown, state file | poll loop, `on_message` ingest checks, send worker, duplicate clean-up | interleaved checks of one video; failed or unanswered sends; drained futures; crash before the file is written |
| Watchlist store (same file) | watchlist file, store message in a thread, moderators' messages, dirty window | ingest, enrich, sync, clean-up, bootstrap (twice), pull | read-modify-write of file and message across awaits by four kinds of task; ephemeral disk |
| Lucky Pull guard `cogs/a00_lpg_thread_bridge_guard.py` | OCR semaphore, lock, last call, cooldown, `os.environ` | `on_message` | shared rate limiter, 429 and key rotation, environment override round an await |
| Phishing pipeline `a00_first_touchdown_overlay.py`, `phish_ban_embed.py`, `phish_review_ui.py`, `helpers/phish_review_memory.py`, three detectors | review memory file, cards, Discord's bans and messages | event `nixe_phish_detected`, two listeners, BAN and FALSE buttons | listeners and detectors race for one message; verdicts change while handlers wait |
| Once-per-TTL dedupe `helpers/once.py`, `once_store.py` | map, SQLite table, two clean-up times | `once_sync` (detectors, LPG guard, autolearn), `purge_memory` (memory sweeper) | two copies with caps and clean-ups of their own; restart, purge, full disk |
| Serialized deletion `helpers/safe_delete.py` | queue, last deletion | `safe_delete` (the @everyone autoban), worker | full queue, 429 retries, pacing |
| Hash database and inboxes `helpers/phash_board.py`, `a16b_phish_autolearn_phash_overlay.py`, ... | pinned messages of 2000 characters, the id in process memory | learner, rescans, inboxes, board commands, the matcher's load | read-modify-write across awaits, find-or-create, which board a restart finds |
| Message guards `a00_first_touchdown_firewall.py`, `a00_everyone_spam_autoban_overlay.py`, `suspicious_attachment_guard.py`, `a16_sus_attach_hardener_overlay.py`, `b10_crypto_casino_guard.py`, `phish_groq_guard.py`, with `helpers/phish_evidence_cache.py` and the ban log `a18_ban_template_unifier_overlay.py` | evidence per user; mass mentions and cooldowns; marks of images, Groq's permit and cooldown | `on_message`, `on_message_edit`, `on_member_ban` | they act on one message side by side; evidence waits for a later log; marked before asked; a permit held over a cooldown |
| Lucky Pull memory and denylist `a16_lpg_cache_persistence_overlay.py`, `a17_lpg_cache_hook_overlay.py`, `a17_1_lpg_denylist_thread_manager_overlay.py` | caches in memory, logs in a thread, denials in another | post, log, deletion of a log, boot scan, the manager's load and worker | a denial is in memory first and in the thread later; posts and deletions during the load |
| Translator `cogs/c20_translate_commands.py` | cooldowns, language overrides, registered menus | two menus with variants, a text command, registration per guild | replies that fail half-way, variants side by side, guilds that join meanwhile |
| Dictionary `translate/local_dict_store.py`, `storage/gdrive.py` | files and an SQLite index in /tmp | lookup on an executor thread, download under a lock | an index read while it is built, a broken-off download, an index that outlives its files |
| Link guards, pack autoban, WEBP matcher, autorole | URLs and members seen | `on_message` | what a pattern lets through; what is remembered before it is read |
| Text guards, ban commands | per-message | `on_message`, commands | little: one request or two |
| Singleton threads, boards, attachment mirror | threads | find or create | duplicates by concurrent creators |
| Start-up `main.py`, `cogs_loader.py`; health log, memory guard and sweeper | process, log message, marker file | restart loop, timers | restart storms; limits that meet; a guard that ends the process |
| Provider bridges `helpers/gemini_bridge.py`, `groq_bridge.py`, `lpa_provider_bridge.py` | keys, models, budget of time | called by the guards | which failure counts as which verdict |
| Network overlays, dashboard, scripts | none or counters | request and reply | HTTP |

They interact through Discord (a message one guard deletes is gone for the others), the
dispatched event `nixe_phish_detected`, `once_sync` (detectors and the Lucky Pull guard
claim a URL or message id), `os.environ`, and the files and messages named above.
`PROJECT.json` lists every part, the unmodelled ones with the reason, and every hazard
found, at its line.

What makes each part correct: a live video is posted once, and is posted; a moderator's
target is never lost; the guard acts once per message and keeps Groq's limits; the gate
against false-positive bans holds and a moderator's verdict is obeyed; a key is granted
once per time to live and never suppressed longer; every message handed to `safe_delete`
is dealt with, at the promised pace; a learned hash stays known; an unlearned image is not
deleted again; every translation request gets one true reply; nobody is banned without a cause of
his own, and the log shows it.

## Modules

| Module | Models | Proofs |
| --- | --- | --- |
| `LiveAnnounce`, `ChannelLog` | the live announcer; what its channel's readers are promised | `LiveAnnounce_proofs` |
| `Watchlist` | the watchlist store | `Watchlist_proofs` |
| `LpgGuard` | the Lucky Pull guard | `Lpg_proofs` |
| `FirstTouchdown` | the phishing pipeline | `FirstTouchdown_proofs` |
| `OnceDedupe` | `once_sync` and its store | `Helpers_proofs` |
| `SafeDelete` | `safe_delete` | `Helpers_proofs` |
| `PhashBoard` | the hash database, its writers and its reader | `PhashBoard_proofs` |
| `DictStore` | the offline dictionary | `Translator_proofs` |
| `Translator` (extends `DictStore`) | the menus, the text command, their registration | `Translator_proofs` |
| `LpgMemory` | the Lucky Pull guard's memory and denylist | `Lpg_proofs` |
| `Guards` | the guards that judge a message on their own, their evidence and the ban log | `Guards_proofs` |

Beside them stand modules of functions, for code that computes a result within one step of
the modules above. They have no variables; `ASSUME`s of the `MC` module state what comes of
them over all small inputs, and TLC evaluates these at the start of its run.

| Module | Computes | Its facts are in |
| --- | --- | --- |
| `TargetIdentity` | which watchlist entries are one target | `MCWatchlist` (`wl_safe`) |
| `LiveCheck` (extends it) | what `_check_live` reports for a target | `MCLiveAnnounce` (`la_safety`) |
| `Providers` | verdicts of Groq, the cache hook and the cache | `MCLpg` (`lpg`) |
| `LpgInputs` | images, words, keys, the memory thread and the whitelist file of Lucky Pull | `MCLpg` |
| `MessageSignals` | what the message guards find in a message | `MCGuards` (`gd_guards`) |
| `TranslateText` | texts, answers and embeds of the translator, its offline answers | `MCTranslator` (`tr_menus`) |
| `Supervision` | restart loop, loader, health log, memory guard and sweeper, autorole | `MCHelpers` (`helpers`) |

Each `MC*` module gives a specification the instances of its configurations. Two of them put two
modules that share no variable into one run: a behaviour of `MCHelpers` is one of `SafeDelete` or
one of `OnceDedupe`, one of `MCLpg` is of `LpgGuard` or of `LpgMemory`, as `subject` says from the
start; the steps and the fairness are those of the module the behaviour is of.

### LiveAnnounce

Tasks are the poll loop and `on_message` handlers that added targets. Each checks which
targets are live (`Tick`, `Complete`: the answer is a subset of `Feed`, pairs of a target
and a video), judges the results one by one (`_maybe_announce_live_result`: `SkipKnown`,
`SuppressOld`, `SkipCached`, `Warm`, `Scan`, `SkipInflight`, `Claim`), hands the post to
the queue (`Enqueue`, `Drop`) and waits for its future (`Sent`, `SendFailed`); one worker
takes an item, sends it and answers (`WorkerGet`, `Arrive`, `WorkerDone`, `WorkerError`,
`Worker1015`). After a post the task deletes the video's newer copies and keeps the oldest (`Sweep`,
`SweepDelete`), and every boot does so for the whole channel (`BootSweep`). `Crash` keeps
channel and file (or finds it torn or lost) and begins a new boot.

Abstractions: the keys a target is known by (id, URL, handle, name) are one value; page
parsing is `Feed`; the history a scan reads is the channel at the moment of the request and
its window (60 or 120 messages) is larger than the instances; unloading the extension is
taken for a crash; retries inside discord.py and an unknown own user id are left out. A
message on the wire when the process dies has arrived or never will.

### Watchlist

The tasks `Loop` (poll loop), `Ready` (`on_ready`'s bootstrap) and one handler per
moderator's message share `disk` (the file), `stores` (the store messages in the thread),
`open` (those not deleted or superseded) and the thread. A handler downloads the attached file,
if there is one (`Read`), ingests (`StartIngest` reads the list, `Ingest` writes it after the lookup of the names),
enriches (`Enrich`), syncs (`SyncStart`, `Find`, `Create`, `Load`, `Edit`, `Supersede`),
cleans up and deletes its message. The loop merges and bootstraps at start
(`MergeLoad`, `Merge`, `BootLoad`, `BootMerge`, `BootScan`) and pulls later (`Pull`,
`PullWrite`). `buf[t]` is the list a task has read and will write: that it may be stale is
the point of the module. `calm` is a history variable: no two tasks have overlapped.

`Files` are the messages whose targets are in an attached `.txt` or `.json` file. The bootstrap's scan
and the clean-up read a message's text only (`Scanned`), so such a target is on the disk alone until the
sync has put it into the store: a disk lost in between loses it although the message is still in the
thread. `SafeAlone` says so (`m \notin thread \intersect Files`).

Abstractions: the thread exists; a list is a set of targets and merging is union;
`self.watch` is left out, as every write of the file reloads it; a message has its targets in the
text or in a file, not in both; a clean-up's deletions are one step; the pull's interval is any time at rest;
a watchlist file that cannot be read is an empty one; the search windows exceed the
instances.

### LpgGuard

One handler per delivery; a message may be delivered again (gateway resume). `Deliver`
claims the id through `once_sync`, `Read` reads the image, `Acquire` takes the OCR permit,
`EnterLock` waits for cooldown and interval, `Ask` sends the request, `NoVeto`, `Veto`,
`NextKey` handle the answer (a 429 sets the cooldown), `Classify`, `Retry`, `Answer` the
classification under the environment override, `Delete` and `Notice` the enforcement.
`Tick` is time. As deployed there are two permits (`LPG_GROQ_MAX_CONCURRENCY`, `runtime_env.json:230`). A handler
looks at the cooldown once, when it has its permit, and then waits for the lock and the interval: when
the other handler's 429 comes in between, its request still goes out. `late` counts such requests of one cooldown,
and `Gated` says that they are fewer than the permits. Abstractions: persona, embed, image compression and texts. Deliveries come
again only while `once_sync` remembers the id (600 s).

Seen while reading, without a run of their own: overlapping classifications restore the
environment out of order and leave an override behind, although the docstring
(`a00_lpg_thread_bridge_guard.py:766`) says values are restored after the call (this is why
`EnvRestored` speaks of classifications that have not overlapped); the comment "Still
enforce strict guard cleanup even when we cannot read bytes" (:1080) is followed by a
return (:1128); with `LPG_REQUIRE_CLASSIFY=0` nothing is deleted, against the class's
docstring (:594); the retry's larger timeout (:855) is cut by `gemini_bridge`.

### FirstTouchdown

An event is a pair of a detector and a message it hits. `pc[e]` follows the detector's scan
and then the overlay's handler (`Emit`, `Fetch`, `Sniff`, `Judge`, `Hold`, `Review`, `Ban`,
`Purge`; `Blind` and `JudgeByUrl` when a request fails); `embed[e]` the ban embed's handler of the same
event (`EmbedConfirm`, `EmbedDelete`, `EmbedBan`); `card` and `press` the review card. A
ban by Discord removes the author's messages (`delete_message_seconds` is seven days).
`false` and `attack` are the review memory; `confirmed`, `cleared` and `refused` are history
variables. `blind` are the events whose handler goes to ban because the message was gone or its
bytes could not be read: the code's default is the ban (`a00_first_touchdown_overlay.py:406`), so the gate holds
only for a handler that sees its message. `GateHolds` therefore lets a blind ban pass, but only where somebody else may
have taken the message away: the handler of another detector's event, the ban embed, the author, or a failed
request (`~Sole`). That a deployed handler does go blind, and that a FALSE stops the overlay only, are findings
(`ft_two`, `ft_false`).

Abstractions: what a detector finds in a message is the constant `Hit` (a confirmed hash, a
probationary one, Groq's verdict); shape tests are the constant `Shape`; a member who left
counts as a refused ban; users are not unbanned; messages posted while the bot is down are
not scanned; edited messages are not rescanned; a log embed is merged into the await after
it. `Exposed` bounds which messages their authors delete and reads of which fail.

Seen while reading: the comment "Autolearn / probationary tokens (stricter match; NEVER
auto-ban)" (`a16_phash_phish_guard_overlay.py:479`) does not bind the overlay, which bans
on such an event unless the message is gated; events of the Groq guard ban through the
overlay although the ban embed calls them log-only (`phish_ban_embed.py:160`), and the
hashes learned from them hit as probationary tokens later; nothing dispatches `nixe_phash_match`.

### OnceDedupe

`once_sync` is one step (it has no await). The module holds both copies of an expiry, the
in-memory map and the table, with their clean-ups, caps, failed writes, an unreadable
database, `purge_memory`, restart and redeployment. The clock only moves forward. The clean-up of
`set_expiry` is never due right after that of the lookup in the same call.

### SafeDelete

The queue, the worker with its pacing, 429 retries, and the deletions that a full queue
sends around the worker. Back-offs are at least the interval, as in the code. The deletions
round a full queue bypass the interval although the docstring (`safe_delete.py:7`) speaks
of one worker with a minimum interval; `WorkerPaced` therefore is about the worker.

### PhashBoard

A writer is a task with a program (`Program`): reading images, looking the board up, writing.
The lookup is `get_pinned_db_message`, request by request: by the known id (`Fetch`), among
the pins (`Pins`), in the history (`History`), else a new board (`Send`, `Pin`); `Write` is
`edit_pinned_db`, which replaces the text by what the lookup saw plus what the task adds.
The inboxes (`port`, `reseed`) find theirs in the parent channel's history. `GuardFetch`,
`GuardPins`, `GuardHistory` are the matcher's load, once per process. `known` is the id in
process memory, `config` the one in the environment.

Abstractions: a board's text is a set of hashes; 2000 characters are `Cap` hashes; the
search windows exceed the instances; moderators' own edits (`phash-seed`) are left out. A
board that does not parse is one without hashes.

Seen while reading, without a run of their own: `get_pinned_db_message` creates a board
although the configuration's strict edit mode speaks of one given message; a learner's image
is claimed for seven days before the edit, so a learn that failed is not tried again; the
matcher loads once and does not see later hashes until a restart or a reload.

### DictStore and Translator

`DictStore` is the split dictionary as deployed: `Find`, `Compare`, `List`, `File` download
it under the store's lock, once per store; `Ready` to `Scan` are a lookup on its executor
thread: the index is created, filled part by part (`Build`) and committed, or taken as it is
found (`UseIndex`). `Translator` is a request from the click to the last message (`Invoke`,
`Defer`, `Fetch`, `Looked`, `Read`, `Vision`, `Model`, `Whole`, `Sorry`, `Ask`, `Answer`) and the registration
task (`OnReady`, `OnGuildJoin`, `Snapshot`, `GlobalSync`, `Sync`). A request that passes the dictionary is a call
of `DictStore`.

Abstractions: what the texts say is left out; a request has a shape (images, chunks, one
style or two); each image is read or not, at either try; the cooldown ends at any time. The
monolithic dictionary file, the glossary and the SQLite lock between two builders are left out: the
configuration turns the first two off, and a builder that waits for the lock only builds later. Towards Japanese a
text the dictionary lacks may still be put together from its words (`c20_translate_commands.py:1895`); that is a hit
without an answer of the lookup (`Looked`), and how the sentence is built is in `TranslateText`.

What Gemini answers is a `Reply`; `ImageOk`, `Single` and `Styles` are what the helpers make of
it (those for Korean and Chinese do as the one for Japanese), `Shown` and `Styled` what the
embed shows of it.

Seen while reading: a text without images translated into two styles is answered with "no text that can be translated",
as the styles are added to the embed (`c20_translate_commands.py:2236`) after a return for an
empty one (:2214), although "2 gaya + romanisasi" (two styles and romanisation) are to be shown as fields (:2158) —
`Truthful` names this exception; a refresh deletes the files before it downloads, so a failed download
leaves no dictionary; the index is not rebuilt when the files are replaced; when two styles
fail, the answer of the fall-back to one style is thrown away, as the chunks are translated
once more in one style; a vision answer with an error status reads as "no readable text"; a
guild that joins while the registration task runs gets no menus in that process.

### LpgMemory

A post is judged (`Check` asks the denylist, `Answer` the provider and then the cache), logged
(`Log`) and deleted (`Act`). `Unlearn` is a moderator's deletion of a log: the overlay takes
the image out of the cache and denies it, in memory at once, through the queue in the thread
later. `Scan` is the boot scan of the logs. `OnReady`, `Find`, `List`, `Create`, `Load`,
`Take`, `Write` are the manager of the denylist thread. `Crash`, `Boot` and `Archive` are the
environment.

Abstractions: an image is its sha1; average hashes and the cache's cap are in `Providers`, clean-up,
backfill, weekly maintenance and bulk deletions in `LpgInputs`.

Seen while reading: the docstring "the same image MUST be treated as NOT LUCKY on subsequent
posts" (`helpers/lpg_denylist.py:6`) holds under the conditions `StaysDenied` names: not when
the process died or the one write failed before the denial was in the thread, not for posts
judged before or while the denylist loads, and not for a deletion the process did not take in
(while it was down, or before the boot scan knew the log); a listing of archived threads that
fails leads to a second thread, and entries of the first are then not read back.

### Guards

A handler is a pair of a guard and a message; `pc[h]` is the await it is at. `Post` starts a
task for each listener of a message, `Edit` the Groq guard's second one. `Firewall`, `Spam`
(whose deletion goes through `SafeDelete`), `Attach`, `Harden`, `Casino` and `Groq` (`Scan`,
`Sniffed`, `Acquire`, `Gate`, `Answer`) are the guards, one disjunct per await; a guard that
convicts records its evidence (`Convict`) and asks for the ban (`Ban`). `Log` is the overlay that
answers Discord's ban event with the one log embed and takes the evidence for it. `Pass`,
`CoolOver` and `Forget` are time; `Sweep` (the memory guard, the evidence's age, a simulated
ban) and `ModBan` are others. `by`, `spare`, `swept`, `stuck`, `says`, `mute`, `weak`, `asked`
and `twice` are history variables.

Abstractions: what a guard looks for in a message (scores, patterns, hashes, image counts) is
the constant `Traits`, where it looks (its channels, exempt roles and authors) is `Scope`. Evidence is what
`phish_evidence_cache.record` keeps: `last`, the message recorded last, whose id, channel, jump link, snippet and reason
replace those of the one before, and `links`, the messages whose addresses are in the merged lists. A message adds up to 6
addresses to lists of 8, so the third message may find no place (`Full`). A message of text only (`~Linked`) leaves nothing behind once
another is recorded: `EvidenceSettled` promises that the log names some message of the user with cause
for the ban, and still tells of the addresses of the one that led to it. Addresses of preview cards are not
followed; that the embed prints the first eight addresses while the attached JSON has all is wording. An image is its
address; Discord gives each upload its own, so two messages with one image are rare, but the run has them. `MaxImages` is `SCAN_MAX_IMAGES`: of more candidates the largest are put to Groq, the others stay marked
and are not. Configured as deployed: `SUS_ATTACH_GEMINI_ENABLE=0`, `BAN_ON_FIRST_PHISH=1`.

Seen while reading, without a run of their own:

- The firewall calls `Message.delete` with a `reason`, which it does not take: the `TypeError` is
  swallowed and the rules that only delete (`a00_first_touchdown_firewall.py:231`, :379, :395) delete nothing.
- The comment "if this spreads to many channels, it MUST escalate to BAN" (:364): nothing calls
  `_spread_unique_channels`.
- The mention-everyone guard records no evidence (its `_ban_member` has no `message`, the
  `NameError` is swallowed), and a failed ban sets its cooldown of 120 s as well.
- In the Groq guard a hit of 0.82 ends the scan although action needs 0.92 and a signal: the later
  images are not judged, and stay marked as seen for 300 s. So does an image whose request failed.
- `groq_bridge` answers "phish" when its requests fail, so a burst of images may be
  banned for in an outage; a simulated ban takes the evidence from the real one; the casino
  guard's cooldown is claimed by harmless messages; `bus.mark_deleted` is never called.

### The modules of functions

`TargetIdentity` is `_token_to_target`, `_merge_targets` and the clean-up of names: an entry is a
record of texts, a text says something (a handle, a channel, a title) in some spelling.
`OneTargetEach`, `HealsInTwo` and `AddedIsNew` say when merging keeps each target once. `LiveCheck` takes the pages
of YouTube as an argument, follows the direct path, the cache and the search, and says under
which name a stream is announced (`OnlyLiveIsReported`, `SearchedOnce`).

`Providers` goes through keys and models within a budget (`AnswersInTime`, `BudgetOverruns`), through
the hook (`WordsDecide`, `FailuresAreCached`), the dispatcher, the cache's index (`IndexIsExact`) and the
phishing bridge (`SilenceConvicts`). `LpgInputs` is what surrounds it: compression and hashes of an image
(`SentIsSmall`, `HashIsHalf`), lists of words (`InlineListIsLost`), the OCR's keys (`SecondKeyWaits`), the
memory thread as it is purged, scanned, followed and deleted from (`ThreadIsMemory`,
`SecondStartIsFree`, `BulkIsSingles`) and the whitelist's ingest (`ListOnlyGrows`).

`MessageSignals` is the scoring of attachments, words, links and packs; `GuardsAgree` compares the
two attachment guards, `FifthIsNeverAsked` and `FirstHitDecides` say what becomes of many images.
`TranslateText` is the choice of a source, chunking (`ChunksFit`), reading of answers, packing (`PackedFits`) and
the dictionary's assembled sentences. `Supervision` is what ends, restarts and relieves the process
(`FailClosed`, `RestartGoesOn`, `LogFits`, `ExitWithinCap`, `SweepIsOrdered`).

What is read from the network, the disk or a picture is an argument of these functions; letters,
patterns and pixels are classes that the code tells apart. A fact stated for all inputs of a set is
checked for that set only; nothing of these modules is proved. Several facts state a limit of
the code rather than a promise, so that a change of it is noticed (`InlineListIsLost`,
`FullStopSplits`, `NegationIsLost`, ...).

Seen while reading:

- Targets: one pass of `_merge_targets` leaves a duplicate when an entry bridges two that were kept, the
  next heals it; two channels with the same display name collapse into one; the full stop after a bare handle or its URL
  makes a second target; `_enrich_watchlist_names` lower-cases the URL before it is looked up.
- Live check: a handle stored as a name loses its at sign on reload and passes for a display name; a `/c/` target
  without a name is announced under its URL; the fall-back path overwrites cache entries with
  bare names, which the readers ignore, so a searched channel is searched again.
- Providers: the last attempt is never cut below 1.5 s, so the bridge may outlast its caller's
  time-out; a reason with "error" or "timeout" in it turns a weak verdict into a failure; a Gemini model in
  front of the list ends every question; time-outs are cached as "not lucky" although the hook
  means to avoid "poisoning cache with pure errors" (`a17_lpg_cache_hook_overlay.py:148`); after a
  failed bridge the dispatcher tries no other provider; silence from Groq convicts, an answer
  that is no JSON acquits.
- Lucky Pull: the list `LPG_NEGATIVE_TEXT` of `runtime_env.json` is exported as Python prints it, so its words
  come back with brackets and quotes and match nothing (`data/lpg_negative_text.txt` repeats nearly all of
  them); the "64-bit" hash has 49 bits, of which at most 24 are set, and every
  picture of one colour hashes to 0; the last resort of `_compress_to_under` and the giving up of
  `_prepare_status_embed_image` may exceed their limit; a 429 makes the next key wait out the
  cool-down of all, a time-out ends the loop over keys; the boot scan learns any member's picture in the memory
  thread, and a "not lucky" log whose deletion failed; logs beyond the scan's limit cannot be unlearned; the
  whitelist ingestor reads the oldest 400 messages only, one malformed item stops it for
  good, and nothing reads the file it writes.
- Guards: one preview card of a Steam page scores 4 (`suspicious_attachment_guard.py:154`) and is deleted
  by both attachment guards, as are three files of at most 200 bytes; the hardener lacks the
  rule for archives, and its confirmation lets a confident benign answer hide a later hit; the Groq guard marks all
  images as seen but asks about four; the link guard compares hosts exactly; `_sanitize_name` does
  not strip "(1)" and "- copy" as its comment says; after a 429 the link-only guard lets all messages of 5 s
  stay.
- Process: "No manual auto-restart loop" (`main.py:28`) contradicts `_run_bot`; a clean return ends the bot
  while the health page says ok; a required cog that is skipped or duplicate fails every
  start; the crash notes' cool-down never holds one back, as every restart makes a new cog;
  a failed scan, or 50 later messages, start a second restart log; `NIXE_RAM_EXIT_MB=0` ends the process
  at the first look although `_maybe_exit_for_usage` takes it for off; at the default cap the guard exits (480)
  before the aggressive sweep (481); an unwritable marker means that the cache is never purged; without `psutil`, which
  no requirements file lists, memory is the peak and every look after the first sweep
  sweeps; one member's missing permission blocks a role for all.
- Translator: "I do not like cats" is assembled as "I like cats", what follows the first punctuation is
  dropped; the cache of the dump is keyed by word only, so one language's explanation serves all; the
  quality check's flag decides nothing; fields for styles are added after packing and can exceed 6000
  characters; a reply that holds only a picture's preview is passed over for the message it replies to.

## Runs

All "pass" runs are exhaustive. Bounds are the smallest in which every action fires and
every mutant of `PROJECT.json` is caught.

| Run | Instance | Shows |
| --- | --- | --- |
| `la_safety` | poll loop and one ingest, two targets of one stream and a second stream, queue of one, 2 faults (failed send, lost answer, crash, torn file, failed check, unnamed channel, Cloudflare) | `NoResendInBoot`, `NoDuplicatePosts`, `QuietInCooldown` |
| `la_live` | poll loop alone, 4 faults, among them another instance posting and a failed delete | `LiveEventuallyPosted`, `PollReturns`, `RecordedNeverResent`, and that the announcer implements `ChannelLog` |
| `wl_safe` | one message, as text or as a file, a deployed list, one failed request, one restart with or without disk | `SafeAlone`, `Converges` |
| `wl_lost` | two messages, without failure or restart | **violation** of `NothingLost` |
| `lpg` | guard: three deliveries of up to three messages, two keys, two permits, one restart; memory: two posts of one image, two denylist threads, 1 fault of seven kinds, one restart | `ActedOnce`, `EnvRestored`, `Gated`, `HandlerEnds`; `MemTypeOK`, `StaysDenied`, `OnlySure`, `Persisted` |
| `ft_gate` | two detectors, two users, two copies of a WEBP: one hit by a confirmed and a learned hash and deleted by its author at will, one hit by a learned hash alone; 2 faults of nine kinds | `GateHolds`, `FalseIsSkipped`, `AttackLeadsToBan` |
| `ft_two` | one detector with a confirmed hash, deletion on and ban off as deployed, no fault | **violation** of `GateIsAbsolute` |
| `ft_false` | the same, two users and two copies | **violation** of `FalseSkipsEnforcement` |
| `helpers` | dedupe: three keys with times to live 1, 2, 3, a map of one and a table of two rows; deletion: three messages, queue of one | `NoFalseSkip`, `OneLossIsSafe`; `WorkerPaced`, `EveryMessageHandled` |
| `ph_board` | pairs of writers (learner and backfill, rescan and status, the two inboxes), three hashes, three boards, 1 fault of twelve kinds, one restart | `Remembered`, `Grows`, `NoStrayBoard`, `Learned` |
| `tr_menus` | six plans: two lookups over an upload; a lookup over a replaced store; one over an upload and a restart; a long text with an image next to a plain request of the same user; text command and image search; joins over a restart; two words, parts, stores and versions, 1 fault | `TypeOK`, `FoundInCalm`, `OneReply`, `Truthful`, `Answered`, `ServedUnlessMissed` |
| `gd_guards` | ten batches of two or three out of fifteen messages, one with three images where a handler may put two to Groq, one edit, 1 fault of nine kinds, among them a moderator's ban | `TypeOK`, `EvidenceSettled`, `BannedForCause`, `AskedOnce`, `BlastContained`, `Judged` |

Why the bounds are enough to be worth checking: two tasks suffice for each race between a
check and a use, a second video or target for "another one's claim is not touched", a queue
or cap of one makes it full, two faults put a failure inside the recovery of another, and a
restart at every step is among the behaviours. The plans of `tr_menus` and the pairs of
`ph_board` put side by side the requests and writers that meet in some variable, those of
`gd_guards` the guards that see one message or share a user, a channel or an image; in four of them two
messages convict one user: both with addresses, one of text only, and three in a row.
In `ft_gate` one message meets every way of losing it to another handler, its author or a failed read, and the other has
one handler and answered requests, so that `GateHolds` allows no blind ban of its author. Of `lpg` the handlers and messages are alike: the first
delivery is the one called `t1` and of `m1`, the first post `a1`, and so on (`InOrder`); every other behaviour is one of
these under other names. In `wl_safe`, `SafeAlone` is silent once tasks overlap or a request fails, on
purpose: then targets *are* lost (`wl_lost`).

Deadlock is checked except where the system may come to rest: `helpers` and `lpg`, as deletions, posts and restarts are
finite and the dedupe's clock ends (that no handler of the guard is stuck is `HandlerEnds`), and `FirstTouchdown`,
`PhashBoard`, `Translator` and `Guards` when all messages, tasks and requests were dealt with.

### Fairness

Weak fairness of each task's step: asyncio runs a task whose await is over, and every
request of discord.py is answered or fails (the Groq and Gemini calls have timeouts); in
`PhashBoard` for each writer and the load, in `Translator` for each request, lookup thread,
download and the registration task, in `LpgMemory` for the manager, with a process that
starts again (`WF(Boot)`). In `Guards` it is weaker: the event loop runs some task that is
ready (as every handler is finite, each gets its turn), `safe_delete`'s worker runs, Discord
delivers ban events, a cooldown ends. Time
passes, and the poll loop ticks again. Nothing is assumed about members, moderators, faults
or restarts, and nothing about which request succeeds: faults stop because `MaxFaults`
bounds them. `LiveEventuallyPosted` asks for a video that keeps being reported.

### Findings

- `wl_lost`: the handlers of two moderators' messages overlap in the lookup of the channels' names
  (`a21_youtube_wuwa_live_announce.py:2188`). Each has read the list before and writes it back with its own targets, so the
  later write drops the other's; the sync uploads that list and the clean-up deletes both messages. When the
  first handler ends, its target is in no file, open store message, thread or list of any task, although the docstring says
  "Parse a single message and merge any new targets". Losses of the same kind: a bootstrap or a pull that read before an
  ingest and writes after it, `_enrich` writing back its read, two bootstraps creating two store messages on a
  first boot, and a failed sync followed by the deletion.
- `ft_two`: the two listeners of one event. The ban embed deletes the message before the overlay has fetched it, and the
  overlay goes to ban the author (`a00_first_touchdown_overlay.py:363`, :406), although its gate is to "avoid false-positive ban"
  (:380). The handler of a second detector's event, the author's own deletion and a failed request lead there as well.
- `ft_false`: the ban embed does not ask the review memory (`phish_ban_embed.py:279`): it deletes what a confirmed hash
  hits although a moderator marked it FALSE, and the memory says "treat as known false-positive (skip future
  enforcement)" (`phish_review_memory.py:8`).

Known limits, each a behaviour of a model under constants no run here has:

- Announcer: `_engage_cloudflare_cooldown` drops queued items without answering their
  futures, and a poll loop or handler waiting for one waits for ever (`PollReturns` fails with
  an ingest and a cooldown; "Never let the announce loop die due to a send error", a21:2944); a poll tick
  that meets a video in flight in an ingest's check records it as announced, and when that
  send fails no tick posts it (`LiveEventuallyPosted` fails with an ingest); another instance
  posting between the second scan and the send makes a duplicate; a send dropped in a
  cooldown or by a full queue is recorded as announced.
- Phishing pipeline: a BAN whose record is lost in a crash or a failed write is not
  remembered; a card that cannot be sent leaves a deleted message without review.
- Ban log: of two convicting messages of one user, the log shows the id, link and reason of the one recorded
  last, which need not be the one whose guard banned; a message of text only is not in it at all then.
- Lucky Pull guard: with two permits one request goes out in a cooldown; with one permit none does.

## Proofs

Every invariant and every action property of the passing runs is proved, for every value of the
constants that satisfies the module's `ConstAssumption` (and the hypothesis named here, if
there is one). A theorem follows from an inductive invariant, whose parts are said here; each
part has a lemma per action. The two modules of `Helpers_proofs`, and those of `Lpg_proofs`,
share no variable.

- **LiveAnnounce.** `TypeCorrect` and `Quiet` from `IInv` = `TypeOK` with `CurInv` (a task in
  the middle of judging has a current result) and `WaitInv` (queue and worker hold exactly
  the tasks that wait, once). `Refinement`: `Spec => ImplementsLog`, with `DelsInv` (whatever a
  clean-up still has to delete has an older visible copy, though others delete at the same time); every
  step is a post, a withdrawal of a duplicate, or a stutter of `ChannelLog`.
  `NoResend` and `ExactClaims` from `OInv` = `InflightInv` (claims are
  the videos of the tasks in `_post`, one each), `AckInv` (an acknowledged video is in the
  cache or with the task that was just answered) and `FreshInv` (a task that may still send
  holds a video that was not acknowledged).
  `NoDuplicates` (`NoDuplicatePosts`, over all boots) assumes `ReadableHistory`: no
  read of the history fails, no other instance posts. `DupInv` adds to it that
  all that was posted is visible (`AllShown`) and that a task past its second scan holds a video not
  posted (`UnsentInv`): the scan establishes it, and the claim keeps the others away.
  `NeverResent` (`RecordedNeverResent`) assumes that there are no ingests or a readable history, from
  `RecordInv`: the file records only what the cache has, and a task that may still send holds
  a video the cache has not. With ingests and failed reads it is false (TLC finds it with the faults "reply" and "history"):
  two tasks have scanned, one posts and its answer is lost, the other claims the video, its second scan
  fails, and it sends what the ingest's next result has recorded meanwhile.
- **Watchlist.** `TypeCorrect`; `Survives` (`SafeAlone`, for messages with text or with files) from `QuietInv` = `calm /\ faults = 0 => QInv`,
  where `QInv` says that there is one store message, one task at work, that targets of handled messages
  are in file and store, and what each await's buffer holds.
- **LpgGuard.** `TypeCorrect`; `SingleAction` from `OwnInv` (handlers at work
  have claimed messages of their own, which were not deleted before); `PermitsBoundRequests` (`Gated`, for any number of
  permits) from `ConcInv` = `TypeOK` with `SemInv` (who holds a permit and the lock; no more handlers than permits) and `GateInv`: in
  a cooldown the requests that went out and the handlers that looked before the 429 and have not asked yet (`Stale`) are together fewer than the permits,
  because the handler that was refused gave one back and whoever comes later sleeps the cooldown out; `EnvPutBack`
  (`EnvRestored`) from `EnvInv` (the one classification at work found the base environment).
- **LpgMemory.** `MemTypeCorrect` with `HoldInv` (the worker holds an image while it writes) and
  `RetryInv`; `UnlearnedIsLeft` (`StaysDenied`) and `CacheNeverActs` (`OnlySure`) from
  `MemInv`: what was unlearned, taken in and not lost is denied in memory or can be read in some thread (`KeptInv`),
  after a complete load it is denied (`LoadedInv`), and the denylist let pass, of posts that came later,
  only what it had not learned (`PassInv`). `StaysDenied` looks back from a deletion; `PassInv`
  carries what was true at the check through the awaits of provider and log.
- **FirstTouchdown.** `TypeCorrect`; `GateStands` (`GateHolds`) and `FalseRespected` (`FalseIsSkipped`), for any detectors, hits and
  settings. `Inv` adds to `GateHolds`: attacks were confirmed, a gated message that only its handler deletes is
  there until then or its author banned (`FoundInv`), the embed stays away from what is no confirmed hash (`EmbedInv`), what was
  posted under a FALSE that stands is still under it (`ClearedInv`), and no handler is about to delete such a message when
  learned hashes alone hit it (`SparedInv`).
- **OnceDedupe.** `OnceTypeCorrect`, `NeverSkipsWrongly`, `TwoCopies` from `OnceInv` = `OnceTypeOK` with
  `CopyInv` (neither copy outlives the last grant, and one that was not lost is exact) and `NoFalseSkip`.
- **SafeDelete.** `TypeCorrect`, `Pacing` from `IInv` = `TypeOK` with `TriesInv` and
  `PaceInv`.
- **PhashBoard.** `TypeCorrect`; `OnlyOverlapLoses` (`Grows`) from `Apart` (what a task of one
  channel holds is a board of that channel); `RememberedAfterRestart` (`Remembered`) from `Kept`: an acknowledged hash is
  on a board of the thread or was lost, and what the load still has to read is read by the
  history step; `NoneBeside` (`NoStrayBoard`) from `StrayInv`: while no request failed, a
  task that goes on to post has seen, of the boards that were there when its lookup began, those
  still there, and none is of its home.
- **DictStore and Translator.** `TypeCorrect`, `WordsFound` (`FoundInCalm`), `RepliesOnce` (`OneReply`) and
  `TellsTruth` (`Truthful`) from `TInv`. `FilesInv` and `IndexInv` say, while all is calm (no failure, upload,
  new store or torn index), which files each stage of a download has, and that an index has what its builder has passed, so
  a lookup finds what the dictionary has. `WorkInv` bounds a request's progress by its shape,
  `ReplyInv` counts its answers by the await it is at (an answer Discord took and the process did not hear of
  allows one more), `SayInv` and `LangInv` keep the causes of what it says until it is said, `MenuInv` the
  registration.
- **Guards.** `TypeCorrect` (the permit has one holder) with `PlaceInv`; `LogShowsCause` (`EvidenceSettled`) from
  `EvidenceInv` (from the record to the log, or a sweep, the evidence tells of the message of each handler about to ban and of the one
  that banned, whoever overwrote it meanwhile; who is not banned has no log) and `RecordInv` (what is recorded is of the user, and a cause), `CauseOfBans` (`BannedForCause`) from `CauseInv` (grounds are
  known before the ban is asked for, and the mass mentions counted for a user are his),
  `SentToGroqOnce` (`AskedOnce`) from `AskInv`: an image that was neither looked at twice at once nor forgotten is
  marked as long as a handler holds it, by one handler, once. The assumptions on `Traits` are that
  a message with many attachments has attachments, and that `None` is no handler.

In modules with theorems the arms of a `CASE` exclude each other, as the prover may take any arm whose guard
holds; in the modules of functions arms are read in their order, as TLC reads them.

Only model-checked: the facts about the modules of functions, for the inputs their `MC` module
enumerates, and every liveness property (`LiveEventuallyPosted`, `PollReturns`,
`Converges`, `HandlerEnds`, `AttackLeadsToBan`, `EveryMessageHandled`, `Learned`, `Answered`,
`ServedUnlessMissed`, `Persisted`, `BlastContained`, `Judged`), which the prover does not reach. The
types of modules whose run does not list a type invariant, and `InflightExact`, are proved
and not checked again by a run.

## Not modelled

Image decoding and the arithmetic of hashes, wording and layout; the other first-touchdown guards
and text guards, which judge one message with one request; HTTP clients; commands and personas; the
dashboard and scripts; the network overlays; find-or-create of singleton threads and boards, whose race is
that of the watchlist's store message; the legacy Lucky Pull guards and
`helpers/gemini_lpg_burst.py`, which the configuration does not enable. `PROJECT.json` gives the reason for each.

Five hazards have no property, as no document says that the outcome is wrong or the code means it: a drop by a full
queue and the recording of a video in flight elsewhere, which the code takes for announced; the loss of a moderator's record in a
crash; a hash board that is full; and a ban for Groq's silence. The models have all five; no run fills a board (`Cap` is the
number of its hashes), and `BannedForCause` grants the silence as a cause.

## Plan

Done: the announcer with its abstract log and live check, `safe_delete`, the dedupe, the watchlist store and the identity of
targets, the Lucky Pull guard with its providers, memory and denylist, the phishing pipeline, the
hash database, the translator with its dictionary, the message guards with their signals and
evidence, the supervision of the process. Next, in this order:

1. Proofs under weaker hypotheses: `NoDuplicates` when an unread history is scanned again;
   abstract specifications of the once-per-TTL store and of the denylist, refined by theirs.
2. Find-or-create of singleton threads.
3. The other first-touchdown guards as detectors of `FirstTouchdown`.
