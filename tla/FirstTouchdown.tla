--------------------------- MODULE FirstTouchdown ---------------------------
(***************************************************************************)
(* The phishing pipeline of a guarded channel.  A detector that hits a     *)
(* message dispatches nixe_phish_detected; two listeners handle the event  *)
(* side by side: the first-touchdown overlay bans the author or, when the  *)
(* message is gated (a single valid WEBP without link or ping, hit by an   *)
(* image hash alone), deletes it and posts a card with BAN and FALSE       *)
(* buttons; the ban embed deletes and bans what a confirmed hash hit.      *)
(* Moderators press the buttons, which write the review memory.            *)
(* nixe/cogs/a00_first_touchdown_overlay.py, phish_ban_embed.py,           *)
(* phish_review_ui.py, the detectors a16_phash_phish_guard_overlay.py,     *)
(* phash_match_guard.py and phish_groq_guard.py, and                       *)
(* nixe/helpers/phish_review_memory.py.                                    *)
(***************************************************************************)
EXTENDS Naturals, FiniteSets

CONSTANTS
    Detectors, Msgs, Users, Sigs,
    Author,       \* of each message
    Sig,          \* the hash of the bytes of its attachment
    Shape,        \* "webp": one valid WEBP, no link, no ping; "blast"; "other"
    Hit,          \* what each detector finds: a confirmed hash, a learned one, Groq's word
    DeleteOnHit,  \* PHISH_DELETE_MESSAGE
    BanOnHit,     \* PHISH_AUTOBAN and PHISH_AUTOBAN_ON_PHASH
    Exposed,      \* messages their author may delete and requests for which may fail
    FaultKinds,
    MaxFaults     \* bound on the faults of a run

ASSUME ConstAssumption ==
    /\ Author \in [Msgs -> Users] /\ Sig \in [Msgs -> Sigs]
    /\ Shape \in [Msgs -> {"webp", "blast", "other"}]
    /\ Hit \in [Detectors \X Msgs -> {"phash", "learned", "groq", "none"}]
    /\ DeleteOnHit \in BOOLEAN /\ BanOnHit \in BOOLEAN
    /\ Exposed \subseteq Msgs /\ MaxFaults \in Nat

Events == {e \in Detectors \X Msgs : Hit[e] # "none"}

MsgOf(e) == e[2]
UserOf(e) == Author[e[2]]
SigOf(e) == Sig[e[2]]

\* is_image_hash_signal and the shape the safety gate asks for.
Gated(e) == Hit[e] \in {"phash", "learned"} /\ Shape[MsgOf(e)] = "webp"

VARIABLES
    posted, alive,  \* messages ever posted, messages still in the channel
    banned,         \* users Discord has banned
    false, attack,  \* phish_review_memory.json: its "false" and "banned" signatures
    pc,             \* the await of each event's detector and first-touchdown handler
    embed,          \* the await of its ban-embed handler
    byUrl,          \* events whose signature is the URL's, for want of the bytes
    card,           \* its review card
    press,          \* a BAN pressed on the card: no, asked of Discord, banned
    confirmed,      \* history: signatures a moderator's BAN ever recorded
    cleared,        \* history: messages posted under a FALSE that still stands
    refused,        \* history: events whose ban Discord refused
    blind,          \* history: events it goes to ban for without the message or its bytes
    faults

memory == <<false, attack, confirmed>>
discord == <<posted, alive, banned>>
vars == <<discord, memory, pc, embed, byUrl, card, press, cleared, refused, blind, faults>>

Spend(kind) == kind \in FaultKinds /\ faults < MaxFaults /\ faults' = faults + 1

Goto(e, where) == pc' = [pc EXCEPT ![e] = where]

Init ==
    /\ posted = {} /\ alive = {} /\ banned = {}
    /\ false = {} /\ attack = {}
    /\ pc = [e \in Events |-> "none"] /\ embed = [e \in Events |-> "none"]
    /\ byUrl = {} /\ card = [e \in Events |-> "none"] /\ press = [e \in Events |-> "no"]
    /\ confirmed = {} /\ cleared = {} /\ refused = {} /\ blind = {} /\ faults = 0

-----------------------------------------------------------------------------
\* Discord.  A ban takes the author's messages of seven days with it.
BanUser(u) ==
    /\ banned' = banned \union {u}
    /\ alive' = {m \in alive : Author[m] # u}

\* Fetch and delete; a message that is gone is no error.
Remove(m) ==
    \/ alive' = alive \ {m} /\ UNCHANGED faults
    \/ UNCHANGED alive /\ Spend("delete")

Post(m) ==
    /\ m \notin posted /\ Author[m] \notin banned
    /\ posted' = posted \union {m} /\ alive' = alive \union {m}
    /\ pc' = [e \in Events |-> IF MsgOf(e) = m THEN "scan" ELSE pc[e]]
    /\ cleared' = IF Sig[m] \in false THEN cleared \union {m} ELSE cleared
    /\ UNCHANGED <<banned, memory, embed, byUrl, card, press, refused, blind, faults>>

AuthorDeletes(m) ==
    /\ m \in alive /\ m \in Exposed /\ Spend("author")
    /\ alive' = alive \ {m}
    /\ UNCHANGED <<posted, banned, memory, pc, embed, byUrl, card, press, cleared, refused, blind>>

-----------------------------------------------------------------------------
\* A detector has read the attachments (the message may be gone meanwhile) and
\* dispatches the event to both listeners.
Emit(e) ==
    /\ pc[e] = "scan"
    /\ Goto(e, "fetch")
    /\ embed' = [embed EXCEPT ![e] =
                    IF Hit[e] # "phash" THEN "done" ELSE IF BanOnHit THEN "confirm" ELSE "delete"]
    /\ UNCHANGED <<discord, memory, byUrl, card, press, cleared, refused, blind, faults>>

\* A request for a message or its bytes fails when the message is gone (its bytes may
\* still be served then), or by an error.
Unread(e, kind) ==
    \/ MsgOf(e) \notin alive /\ UNCHANGED faults
    \/ MsgOf(e) \in Exposed /\ Spend(kind)

ScanFails(e) ==
    /\ pc[e] = "scan" /\ Unread(e, "read")
    /\ Goto(e, "done")
    /\ UNCHANGED <<discord, memory, embed, byUrl, card, press, cleared, refused, blind>>

\* on_nixe_phish_detected of the overlay: a blast is banned as soon as it is fetched.
Fetch(e) ==
    /\ pc[e] = "fetch" /\ MsgOf(e) \in alive
    /\ Goto(e, IF Shape[MsgOf(e)] = "blast" THEN "ban" ELSE "sniff")
    /\ UNCHANGED <<discord, memory, embed, byUrl, card, press, cleared, refused, blind, faults>>

\* _validate_single_webp: what is not gated is banned.
NoGate(e) == "ban"  \* faulty variant

AfterSniff(e) == IF Gated(e) THEN "sig" ELSE "ban"

Sniff(e) ==
    /\ pc[e] = "sniff"
    /\ Goto(e, AfterSniff(e))
    /\ UNCHANGED <<discord, memory, embed, byUrl, card, press, cleared, refused, blind, faults>>

\* Without the message or its bytes the default holds: ban.
Blind(e) ==
    /\ \/ pc[e] = "fetch" /\ Unread(e, "fetch")
       \/ pc[e] = "sniff" /\ Unread(e, "read")
    /\ Goto(e, "ban") /\ blind' = blind \union {e}
    /\ UNCHANGED <<discord, memory, embed, byUrl, card, press, cleared, refused>>

\* _compute_attachment_sig reads the bytes again; the memory decides.
ForgetFalse(s) == IF s \in attack THEN "ban" ELSE "hold"  \* faulty variant

AlwaysReview(s) == IF s \in false THEN "done" ELSE "hold"  \* faulty variant

Verdict(s) ==
    IF s \in false THEN "done" ELSE IF s \in attack THEN "ban" ELSE "hold"

Judge(e) ==
    /\ pc[e] = "sig"
    /\ Goto(e, Verdict(SigOf(e)))
    /\ UNCHANGED <<discord, memory, embed, byUrl, card, press, cleared, refused, blind, faults>>

\* Without the bytes the URL is hashed, which no memory knows.
JudgeByUrl(e) ==
    /\ pc[e] = "sig" /\ Unread(e, "read")
    /\ byUrl' = byUrl \union {e}
    /\ Goto(e, "hold")
    /\ UNCHANGED <<discord, memory, embed, card, press, cleared, refused, blind>>

\* _delete_only, then _send_webp_review.
Hold(e) ==
    /\ pc[e] = "hold" /\ Remove(MsgOf(e))
    /\ Goto(e, "review")
    /\ UNCHANGED <<posted, banned, memory, embed, byUrl, card, press, cleared, refused, blind>>

Review(e) ==
    /\ pc[e] = "review"
    /\ \/ card' = [card EXCEPT ![e] = "open"] /\ UNCHANGED faults
       \/ UNCHANGED card /\ Spend("send")
    /\ Goto(e, "done")
    /\ UNCHANGED <<discord, memory, embed, byUrl, press, cleared, refused, blind>>

\* A ban is answered, or refused (or the member is gone).
TryBan(e) ==
    \/ BanUser(UserOf(e)) /\ UNCHANGED <<refused, faults>>
    \/ UNCHANGED <<alive, banned>> /\ refused' = refused \union {e} /\ Spend("ban")

\* _ban_and_delete.
Ban(e) ==
    /\ pc[e] = "ban" /\ TryBan(e)
    /\ Goto(e, "purge") /\ blind' = blind \ {e}
    /\ UNCHANGED <<posted, memory, embed, byUrl, card, press, cleared>>

Purge(e) ==
    /\ pc[e] = "purge" /\ Remove(MsgOf(e))
    /\ Goto(e, "done")
    /\ UNCHANGED <<posted, banned, memory, embed, byUrl, card, press, cleared, refused, blind>>

Handle(e) ==
    \/ Emit(e) \/ ScanFails(e) \/ Fetch(e) \/ Sniff(e) \/ Blind(e) \/ Judge(e)
    \/ JudgeByUrl(e) \/ Hold(e) \/ Review(e) \/ Ban(e) \/ Purge(e)

-----------------------------------------------------------------------------
\* on_nixe_phish_detected of the ban embed: Groq is asked to confirm before a ban, the
\* message is deleted, then the user banned.
EmbedConfirm(e) ==
    /\ embed[e] = "confirm"
    /\ \E answer \in {"delete", "delete, ban"} : embed' = [embed EXCEPT ![e] = answer]
    /\ UNCHANGED <<discord, memory, pc, byUrl, card, press, cleared, refused, blind, faults>>

EmbedDelete(e) ==
    /\ embed[e] \in {"delete", "delete, ban"}
    /\ IF DeleteOnHit THEN Remove(MsgOf(e)) ELSE UNCHANGED <<alive, faults>>
    /\ embed' = [embed EXCEPT ![e] = IF @ = "delete" THEN "done" ELSE "ban"]
    /\ UNCHANGED <<posted, banned, memory, pc, byUrl, card, press, cleared, refused, blind>>

EmbedBan(e) ==
    /\ embed[e] = "ban" /\ TryBan(e)
    /\ embed' = [embed EXCEPT ![e] = "done"]
    /\ UNCHANGED <<posted, memory, pc, byUrl, card, press, cleared, blind>>

Embed(e) == EmbedConfirm(e) \/ EmbedDelete(e) \/ EmbedBan(e)

-----------------------------------------------------------------------------
\* The buttons.  ban_btn bans first and records the signature once Discord has answered.
PressBan(e) ==
    /\ card[e] = "open" /\ press[e] = "no"
    /\ press' = [press EXCEPT ![e] = "asked"]
    /\ UNCHANGED <<discord, memory, pc, embed, byUrl, card, cleared, refused, blind, faults>>

BanDone(e) ==
    /\ press[e] = "asked" /\ BanUser(UserOf(e))
    /\ press' = [press EXCEPT ![e] = "banned"]
    /\ UNCHANGED <<posted, memory, pc, embed, byUrl, card, cleared, refused, blind, faults>>

BanFails(e) ==
    /\ press[e] = "asked" /\ Spend("ban")
    /\ press' = [press EXCEPT ![e] = "no"]
    /\ UNCHANGED <<discord, memory, pc, embed, byUrl, card, cleared, refused, blind>>

\* mark_banned: a signature is in one of the two sets.
MarkBanned(s) ==
    /\ attack' = attack \union {s} /\ false' = false \ {s}
    /\ confirmed' = confirmed \union {s}
    /\ cleared' = {m \in cleared : Sig[m] # s}

MarkFalse(s) ==
    /\ false' = false \union {s} /\ attack' = attack \ {s}
    /\ UNCHANGED <<confirmed, cleared>>

\* The card records the URL's signature when the bytes were not read; an error while
\* the file is written is swallowed; the card stays open if its edit fails.
Record(e, Mark) ==
    \E failed \in SUBSET ({"disk", "edit"} \intersect FaultKinds) :
        /\ faults' = faults + Cardinality(failed) /\ faults' <= MaxFaults
        /\ IF e \in byUrl \/ "disk" \in failed THEN UNCHANGED <<memory, cleared>> ELSE Mark
        /\ card' = [card EXCEPT ![e] = IF "edit" \in failed THEN "open" ELSE "closed"]

BanRecorded(e) ==
    /\ press[e] = "banned" /\ Record(e, MarkBanned(SigOf(e)))
    /\ press' = [press EXCEPT ![e] = "no"]
    /\ UNCHANGED <<discord, pc, embed, byUrl, refused, blind>>

PressFalse(e) ==
    /\ card[e] = "open" /\ Record(e, MarkFalse(SigOf(e)))
    /\ UNCHANGED <<discord, pc, embed, byUrl, press, refused, blind>>

Moderate(e) == PressBan(e) \/ PressFalse(e)

Answer(e) == BanDone(e) \/ BanFails(e) \/ BanRecorded(e)

-----------------------------------------------------------------------------
\* The process restarts: handlers are gone, the cards' buttons are dead (the views are
\* not persistent); a redeployment also loses the memory file.
Restart ==
    /\ Spend("crash")
    /\ pc' = [e \in Events |-> IF pc[e] \in {"none", "done"} THEN pc[e] ELSE "lost"]
    /\ embed' = [e \in Events |-> IF embed[e] = "none" THEN "none" ELSE "done"]
    /\ card' = [e \in Events |-> IF card[e] = "none" THEN "none" ELSE "closed"]
    /\ press' = [e \in Events |-> "no"] /\ blind' = {}
    /\ \/ UNCHANGED <<false, attack, cleared>>
       \/ false' = {} /\ attack' = {} /\ cleared' = {}
    /\ UNCHANGED <<discord, confirmed, byUrl, refused>>

Next ==
    \/ \E m \in Msgs : Post(m) \/ AuthorDeletes(m)
    \/ \E e \in Events : Handle(e) \/ Embed(e) \/ Moderate(e) \/ Answer(e)
    \/ Restart

Spec == Init /\ [][Next]_vars

\* Requests are answered or fail: a detector and the overlay come to their next await.
\* (Nothing is asked of the ban embed and the cards.)
Fairness == \A e \in Events : WF_vars(Handle(e))

FairSpec == Spec /\ Fairness
-----------------------------------------------------------------------------
Pcs == {"none", "scan", "fetch", "sniff", "sig", "hold", "review", "ban", "purge", "done", "lost"}

\* Types; the review memory gives a signature one verdict at most.
TypeOK ==
    /\ posted \subseteq Msgs /\ alive \subseteq posted /\ banned \subseteq Users
    /\ false \subseteq Sigs /\ attack \subseteq Sigs /\ false \intersect attack = {}
    /\ pc \in [Events -> Pcs]
    /\ embed \in [Events -> {"none", "confirm", "delete", "delete, ban", "ban", "done"}]
    /\ card \in [Events -> {"none", "open", "closed"}]
    /\ press \in [Events -> {"no", "asked", "banned"}]
    /\ byUrl \subseteq Events /\ refused \subseteq Events /\ blind \subseteq Events
    /\ confirmed \subseteq Sigs /\ cleared \subseteq posted
    /\ faults \in 0 .. MaxFaults

\* The ban embed deletes the message of e beside the overlay.
EmbedDeletes(e) == Hit[e] = "phash" /\ DeleteOnHit

\* Nobody but the handler of e deletes its message, and requests for it are answered.
Sole(e) ==
    /\ MsgOf(e) \notin Exposed /\ ~EmbedDeletes(e)
    /\ \A f \in Events : MsgOf(f) = MsgOf(e) => f = e

\* "Single valid WEBP + image-hash-only signal => delete-only (avoid false-positive ban)":
\* the overlay goes to ban the author of a gated message only if a moderator's BAN has
\* confirmed its signature, or the author is banned already, or it could not see the
\* message or its bytes; and the last only if another handler, the ban embed or the author
\* may have deleted it or a request failed.
GateHolds ==
    \A e \in Events :
        Gated(e) /\ pc[e] = "ban" =>
            \/ SigOf(e) \in confirmed \/ UserOf(e) \in banned
            \/ e \in blind /\ ~Sole(e)

\* The same without exception, as the comment has it.
GateIsAbsolute ==
    \A e \in Events :
        Gated(e) /\ pc[e] = "ban" => SigOf(e) \in confirmed \/ UserOf(e) \in banned

\* Every detector's event of m is gated, the ban embed deletes none, and requests for m are
\* answered.
HashOnly(m) ==
    /\ m \notin Exposed
    /\ \A e \in Events : MsgOf(e) = m => Gated(e) /\ ~EmbedDeletes(e)

\* "Marked FALSE. Signature will be skipped next time" holds of the overlay: a message
\* that learned hashes alone hit, posted after its signature was marked FALSE, while that
\* stands, leaves the channel only with its banned author's other messages, however many
\* detectors hit it.
FalseIsSkipped ==
    [][\A m \in cleared \intersect alive :
        HashOnly(m) /\ m \notin alive' => Author[m] \in banned']_vars

\* "false: signature -> treat as known false-positive (skip future enforcement)": the same
\* of every gated message, whichever hash hit it.
FalseSkipsEnforcement ==
    [][\A e \in Events :
        Gated(e) /\ MsgOf(e) \in (cleared \intersect alive) \ Exposed /\ MsgOf(e) \notin alive'
            => UserOf(e) \in banned']_vars

\* "Known confirmed attack (auto-ban next time)": when the event of a message whose
\* signature is recorded as an attack reaches the overlay, its author is banned in the
\* end, unless the record changes, its bytes cannot be read, Discord refuses or the
\* process dies.
AttackLeadsToBan ==
    \A e \in Events :
        pc[e] = "fetch" /\ SigOf(e) \in attack
            ~> \/ UserOf(e) \in banned \/ SigOf(e) \notin attack
               \/ e \in byUrl \/ e \in refused \/ pc[e] = "lost"
=============================================================================
