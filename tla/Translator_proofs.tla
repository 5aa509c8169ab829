-------------------------- MODULE Translator_proofs --------------------------
(***************************************************************************)
(* Theorems of Translator and its dictionary DictStore for any requests,   *)
(* shapes, words, parts, guilds, faults and restarts.                      *)
(***************************************************************************)
EXTENDS Translator, FiniteSetTheorems, TLAPS

\* What FoundInCalm excuses has not happened.
Calm == faults = 0 /\ remote = 1 /\ store = 1 /\ ~torn

Complete == \A f \in Files : disk[f] = 1

\* In the calm only the first store is used; it is ready when all files are there, and the
\* marker names a version only then; threads run on a store that is ready.
FilesInv ==
    /\ half = {} /\ \A f \in Files : disk[f] \in {0, 1}
    /\ \A s \in 1..MaxStores : s # 1 => boot[s] = "idle"
    /\ \A c \in Calls : at[c] # "off" => of[c] = 1
    /\ marker = 1 => Complete
    /\ boot[1] \in {"list", "file"} => marker = 0
    /\ boot[1] = "file" => fetch[1] # {} /\ \A f \in Files \ fetch[1] : disk[f] = 1
    /\ ready[1] => Complete /\ boot[1] = "idle"
    /\ \A c \in Calls : at[c] \in Threads => ready[1]

\* Rows are right.  What a builder has left out so far is in the parts it has left, and an
\* index nobody builds lacks nothing.
IndexInv ==
    /\ \A w \in Words : index[w] \in {None, Holder[1][w]}
    /\ \A c \in Calls : \A w \in Words : rows[c][w] \in {None, Holder[1][w]}
    /\ \A c \in Calls : at[c] = "build" =>
           \A w \in Words : \/ Holder[1][w] = None \/ Holder[1][w] \in left[c]
                            \/ index[w] # None \/ rows[c][w] # None
    /\ hasIndex /\ ~Building => \A w \in Words : Holder[1][w] # None => index[w] # None
    /\ \A c \in Calls : at[c] \in {"build", "select", "scan"} => hasIndex
    /\ \A c \in Calls : at[c] = "scan" => index[Word[c]] # None
    /\ \A c \in Calls : ans[c] \in {"miss", "error"} => Holder[1][Word[c]] = None

DictInv == DictTypeOK /\ faults \in 0..MaxFaults /\ (Calm => FilesInv /\ IndexInv)

-----------------------------------------------------------------------------
\* The variables of the requests are functions.
RequestType ==
    /\ pc \in [Calls -> Waiting \union {"off", "done"}] /\ override \in [Calls -> BOOLEAN]
    /\ lang \in [Calls -> {"asked", "default", None}]
    /\ images \in [Calls -> Nat] /\ kept \in [Calls -> Nat] /\ chunks \in [Calls -> Nat]
    /\ seen \in [Calls -> {"none", "failed", "ok"}] /\ dual \in [Calls -> BOOLEAN]
    /\ verdict \in [Calls -> {"result", "same", "none"}]
    /\ said \in [Calls -> Nat] /\ unheard \in [Calls -> Nat]
    /\ told \in [Calls -> SUBSET {"hit", "result", "same", "none", "busy", "error"}]
    /\ upset \in [Calls -> BOOLEAN] /\ word \in [Calls -> {"error", "same", "new", None}]

\* A request reads an image while there is one, asks about one while it has one, and
\* translates a chunk while one is left.
WorkInv(r) ==
    /\ images[r] + kept[r] <= Shape[r].images
    /\ pc[r] \in {"off", "defer", "fetch"} => images[r] = Shape[r].images
    /\ pc[r] = "read" => images[r] > 0
    /\ pc[r] = "vision" => kept[r] > 0
    /\ chunks[r] <= Shape[r].chunks
    /\ pc[r] \in {"off", "defer", "fetch", "dict", "hit", "read", "vision"} => chunks[r] = Shape[r].chunks
    /\ pc[r] \in {"dict", "hit", "model", "whole"} => chunks[r] > 0

\* Until a request is done, what was delivered is what it did not hear of.
ReplyInv(r) ==
    /\ unheard[r] <= said[r] /\ said[r] <= 1 + unheard[r]
    /\ pc[r] # "done" => said[r] = unheard[r]

\* A message that says other than the result has its cause, and when it is told nothing
\* about the text changes any more.
SayInv(r) ==
    /\ verdict[r] # "result" => pc[r] \in {"final", "last", "done"}
    /\ verdict[r] = "same" /\ pc[r] # "done" => word[r] = "same" \/ upset[r]
    /\ verdict[r] = "none" => dual[r]
    /\ pc[r] = "empty" => Shape[r].chunks = 0 \/ (Shape[r].cmd = "reverse" /\ Shape[r].images = 0)
    /\ told[r] \intersect {"same", "none"} # {} => pc[r] \in {"last", "done"}
    /\ "same" \in told[r] => word[r] = "same" \/ upset[r]
    /\ "none" \in told[r] => \/ Shape[r].chunks = 0 \/ dual[r]
                             \/ Shape[r].cmd = "reverse" /\ Shape[r].images = 0

\* The language waits in the map from the click to the fetch.
LangInv(r) ==
    /\ pc[r] = "off" => ~override[r]
    /\ pc[r] \in {"defer", "fetch"} => override[r] = Shape[r].asks
    /\ lang[r] # None => lang[r] = IF Shape[r].asks THEN "asked" ELSE "default"

RequestInv == RequestType /\ \A r \in Calls : WorkInv(r) /\ ReplyInv(r) /\ SayInv(r) /\ LangInv(r)

\* The registration of the menus.
MenuInv ==
    /\ plan \in Plans /\ boots \in 0..MaxBoots
    /\ cooling \subseteq {Clock(r) : r \in Calls}
    /\ guilds \subseteq Guilds /\ registered \in BOOLEAN
    /\ task \in {"none", "ready", "global", "sync"} /\ gids \subseteq guilds
    /\ served \subseteq guilds /\ missed \subseteq guilds

TInv == DictInv /\ RequestInv /\ MenuInv

-----------------------------------------------------------------------------
\* The dictionary.
LEMMA Spending ==
  ASSUME faults \in 0..MaxFaults, NEW kind, Spend(kind)
  PROVE  faults' \in 0..MaxFaults /\ faults' # 0
BY DictAssumption DEF Spend

LEMMA FirstStore == 1 \in 1..MaxStores /\ 1 \in 1..MaxVersion
BY DictAssumption

\* The variables of the download keep their types.
LEMMA DownloadTypes ==
  ASSUME DictInv, NEW s \in 1..MaxStores, Download(s)
  PROVE  DictTypeOK' /\ faults' \in 0..MaxFaults
<1>1. /\ remote \in 1..MaxVersion /\ disk \in [Files -> 0..MaxVersion] /\ half \subseteq Files
      /\ marker \in 0..MaxVersion /\ ready \in [1..MaxStores -> BOOLEAN]
      /\ boot \in [1..MaxStores -> {"idle", "compare", "list", "file"}]
      /\ mark \in [1..MaxStores -> 0..MaxVersion] /\ fetch \in [1..MaxStores -> SUBSET Files]
      /\ faults \in 0..MaxFaults
  BY DEF DictInv, DictTypeOK
<1> DEFINE Kept == /\ disk' \in [Files -> 0..MaxVersion] /\ half' \subseteq Files
                   /\ marker' \in 0..MaxVersion /\ ready' \in [1..MaxStores -> BOOLEAN]
                   /\ boot' \in [1..MaxStores -> {"idle", "compare", "list", "file"}]
                   /\ mark' \in [1..MaxStores -> 0..MaxVersion] /\ fetch' \in [1..MaxStores -> SUBSET Files]
                   /\ faults' \in 0..MaxFaults
<1> SUFFICES Kept
  BY DEF Download, thread, DictInv, DictTypeOK
<1>2. ASSUME NEW version \in 0..MaxVersion, Wipe(s, version)
      PROVE  /\ disk' \in [Files -> 0..MaxVersion] /\ half' \subseteq Files /\ marker' \in 0..MaxVersion
             /\ ready' \in [1..MaxStores -> BOOLEAN] /\ mark' \in [1..MaxStores -> 0..MaxVersion]
             /\ boot' \in [1..MaxStores -> {"idle", "compare", "list", "file"}]
  BY <1>1, <1>2, DictAssumption DEF Wipe
<1>3. ASSUME Booted(s)
      PROVE  /\ ready' \in [1..MaxStores -> BOOLEAN]
             /\ boot' \in [1..MaxStores -> {"idle", "compare", "list", "file"}]
  BY <1>1, <1>3 DEF Booted
<1>4. CASE Find(s)
  <2>1. 0 \in 0..MaxVersion
    BY DictAssumption
  <2>2. CASE Wipe(s, 0) /\ UNCHANGED <<faults, fetch>>
    BY <1>1, <1>2, <2>1, <2>2
  <2>3. CASE Booted(s) /\ UNCHANGED <<disk, half, marker, mark, fetch>> /\ Spend("drive")
    BY <1>1, <1>3, <2>3, Spending
  <2>4. CASE boot' = [boot EXCEPT ![s] = "compare"] /\ UNCHANGED <<disk, half, marker, mark, ready, faults, fetch>>
    BY <1>1, <2>4
  <2> QED BY <1>4, <2>2, <2>3, <2>4 DEF Find
<1>5. CASE Compare(s)
  <2>1. CASE Booted(s) /\ UNCHANGED <<disk, half, marker, mark, faults, fetch>>
    BY <1>1, <1>3, <2>1
  <2>2. CASE \E v \in {0, remote} : Wipe(s, v) /\ UNCHANGED fetch /\ (UNCHANGED faults \/ Spend("drive"))
    BY <1>1, <1>2, <2>2, Spending, DictAssumption
  <2> QED BY <1>5, <2>1, <2>2 DEF Compare
<1>6. CASE List(s)
  <2>1. CASE Booted(s) /\ Spend("drive") /\ UNCHANGED <<disk, half, marker, mark, fetch>>
    BY <1>1, <1>3, <2>1, Spending
  <2>2. CASE /\ boot' = [boot EXCEPT ![s] = "file"] /\ fetch' = [fetch EXCEPT ![s] = Files]
             /\ UNCHANGED <<ready, faults, disk, half, marker, mark>>
    BY <1>1, <2>2
  <2> QED BY <1>6, <2>1, <2>2 DEF List
<1>7. ASSUME NEW f \in Files, File(s, f)
      PROVE  Kept
  <2>1. fetch' \in [1..MaxStores -> SUBSET Files] /\ mark' = mark
    BY <1>1, <1>7 DEF File
  <2>2. disk' \in [Files -> 0..MaxVersion]
    <3>1. disk' \in {disk, [disk EXCEPT ![f] = remote]} /\ remote \in 0..MaxVersion
      BY <1>1, <1>7, DictAssumption DEF File
    <3> QED BY <1>1, <3>1
  <2>5. half' \subseteq Files
    BY <1>1, <1>7 DEF File
  <2>6. faults' \in 0..MaxFaults
    BY <1>1, <1>7, Spending DEF File
  <2>3. marker' \in {marker, mark[s]}
    BY <1>7 DEF File
  <2>4. Booted(s) \/ UNCHANGED <<ready, boot>>
    BY <1>7 DEF File
  <2> QED BY <1>1, <1>3, <2>1, <2>2, <2>3, <2>4, <2>5, <2>6
<1> QED BY <1>4, <1>5, <1>6, <1>7 DEF Download

LEMMA DownloadCalm ==
  ASSUME DictInv, NEW s \in 1..MaxStores, Download(s), Calm'
  PROVE  FilesInv' /\ IndexInv'
<1>1. UNCHANGED <<remote, hasIndex, index, store, at, of, left, rows, ans, torn>>
  BY DEF Download, thread
<1>2. /\ faults \in 0..MaxFaults
      /\ \A kind : ~Spend(kind)
  BY Spending DEF DictInv, Calm
<1>3. faults' = faults
  BY <1>2 DEF Download, Find, Compare, List, File
<1>4. Calm /\ FilesInv /\ IndexInv /\ remote = 1
  BY <1>1, <1>3 DEF DictInv, Calm
<1>5. IndexInv'
  BY <1>1, <1>4 DEF IndexInv, Building
<1> SUFFICES FilesInv'
  BY <1>5
<1>6. s = 1
  <2>1. Awaited(s) \/ boot[s] # "idle"
    BY DEF Download, Find, Compare, List, File
  <2> QED BY <1>4, <2>1 DEF FilesInv, Awaited
<1>7. /\ ready \in [1..MaxStores -> BOOLEAN] /\ boot \in [1..MaxStores -> {"idle", "compare", "list", "file"}]
      /\ disk \in [Files -> 0..MaxVersion] /\ fetch \in [1..MaxStores -> SUBSET Files]
      /\ "manifest" \in Files
  BY DEF DictInv, DictTypeOK, Files
<1>8. ASSUME NEW v, Wipe(1, v), UNCHANGED fetch, ~ready[1]
      PROVE  FilesInv'
  BY <1>1, <1>4, <1>7, <1>8, FirstStore DEF FilesInv, Wipe, Complete, Awaited, Threads
<1>9. CASE Find(s)
  <2>1. ~ready[1]
    BY <1>6, <1>9 DEF Find
  <2>2. CASE boot' = [boot EXCEPT ![s] = "compare"] /\ UNCHANGED <<disk, half, marker, mark, ready, faults, fetch>>
    BY <1>1, <1>4, <1>6, <1>7, <2>1, <2>2, FirstStore DEF FilesInv, Complete
  <2>3. CASE Wipe(s, 0) /\ UNCHANGED fetch
    BY <1>6, <1>8, <2>1, <2>3
  <2> QED BY <1>2, <1>9, <2>2, <2>3 DEF Find
<1>10. CASE Compare(s)
  <2>1. ~ready[1]
    BY <1>4, <1>6, <1>10 DEF Compare, FilesInv
  <2>2. CASE marker = remote /\ Booted(s) /\ UNCHANGED <<disk, half, marker, mark, fetch>>
    BY <1>1, <1>4, <1>6, <1>7, <2>2, FirstStore DEF FilesInv, Complete, Booted
  <2>3. CASE Wipe(s, remote) /\ UNCHANGED fetch
    BY <1>6, <1>8, <2>1, <2>3
  <2> QED BY <1>2, <1>10, <2>2, <2>3 DEF Compare
<1>11. CASE List(s)
  <2>1. /\ boot' = [boot EXCEPT ![1] = "file"] /\ fetch' = [fetch EXCEPT ![1] = Files]
        /\ UNCHANGED <<ready, disk, half, marker, mark>> /\ boot[1] = "list"
    BY <1>2, <1>6, <1>11 DEF List
  <2> QED BY <1>1, <1>4, <1>7, <2>1, FirstStore DEF FilesInv, Complete
<1>12. ASSUME NEW f \in Files, File(s, f)
       PROVE  FilesInv'
  <2>1. /\ boot[1] = "file" /\ f \in fetch[1] /\ fetch' = [fetch EXCEPT ![1] = @ \ {f}]
        /\ disk' = [disk EXCEPT ![f] = 1] /\ half' = half \ {f}
        /\ IF fetch[1] = {f} THEN Booted(1) /\ marker' = mark[1] ELSE UNCHANGED <<ready, boot, marker>>
    BY <1>2, <1>4, <1>6, <1>12 DEF File
  <2>2. /\ half' = {} /\ \A g \in Files : disk'[g] \in {0, 1} /\ (g \notin fetch'[1] => disk'[g] = 1)
        /\ fetch'[1] = fetch[1] \ {f}
    BY <1>4, <1>7, <2>1, FirstStore DEF FilesInv
  <2>3. CASE fetch[1] = {f}
    <3>1. Complete'
      BY <2>2, <2>3 DEF Complete
    <3>2. boot' = [boot EXCEPT ![1] = "idle"] /\ ready' = [ready EXCEPT ![1] = TRUE]
      BY <2>1, <2>3 DEF Booted
    <3> QED BY <1>1, <1>4, <1>7, <2>2, <3>1, <3>2, FirstStore DEF FilesInv
  <2>4. CASE fetch[1] # {f}
    <3>1. fetch'[1] # {} /\ UNCHANGED <<ready, boot, marker>>
      BY <2>1, <2>2, <2>4
    <3>2. marker = 0 /\ ~ready[1]
      BY <1>4, <2>1 DEF FilesInv
    <3> QED BY <1>1, <1>4, <2>1, <2>2, <3>1, <3>2 DEF FilesInv
  <2> QED BY <2>3, <2>4
<1> QED BY <1>9, <1>10, <1>11, <1>12 DEF Download

LEMMA RowTypes ==
  ASSUME DictTypeOK
  PROVE  /\ \A p \in Parts : RowsOf(p) \in [Words -> Parts \union {None}]
         /\ \A old, new \in [Words -> Parts \union {None}] : With(old, new) \in [Words -> Parts \union {None}]
         /\ NoRows \in [Words -> Parts \union {None}]
BY DEF RowsOf, With, NoRows

LEMMA LookupTypes ==
  ASSUME DictInv, NEW c \in Calls, Lookup(c)
  PROVE  DictTypeOK' /\ faults' \in 0..MaxFaults
<1> DEFINE Row == [Words -> Parts \union {None}]
           Place == Threads \union {"off", "boot", "done"}
<1>1. /\ hasIndex \in BOOLEAN /\ index \in Row /\ rows \in [Calls -> Row] /\ left \in [Calls -> SUBSET Parts]
      /\ at \in [Calls -> Place] /\ ans \in [Calls -> {"hit", "miss", "error", None}] /\ torn \in BOOLEAN
  BY DEF DictInv, DictTypeOK
<1>2. \A p \in Parts : With(rows[c], RowsOf(p)) \in Row
  BY <1>1, RowTypes DEF DictInv
<1>3. of' = of /\ at' \in [Calls -> Place]
  BY <1>1 DEF Lookup, Ready, Manifest, UseIndex, Create, Select, Scan, Build, Go, End, Threads
<1>4. ans' \in [Calls -> {"hit", "miss", "error", None}]
  BY <1>1 DEF Lookup, Ready, Manifest, UseIndex, Create, Select, Scan, Build, Go, End
<1>5. hasIndex' \in BOOLEAN /\ torn' \in BOOLEAN
  <2>1. hasIndex' \in {hasIndex, TRUE}
    BY DEF Lookup, Ready, Manifest, UseIndex, Create, Select, Scan, Build, Unindexed
  <2>2. torn' = torn \/ torn' = TRUE \/ torn' = (torn \/ Building)
    BY DEF Lookup, Ready, Manifest, UseIndex, Create, Select, Scan, Build, Unindexed
  <2> QED BY <1>1, <2>1, <2>2
<1>6. left' \in [Calls -> SUBSET Parts]
  BY <1>1 DEF Lookup, Ready, Manifest, UseIndex, Create, Select, Scan, Build, Unindexed
<1>7. index' \in Row /\ rows' \in [Calls -> Row]
  <2>1. CASE \E p \in Parts : Build(c, p)
    <3>1. PICK p \in Parts : Build(c, p)
      BY <2>1
    <3> DEFINE all == With(rows[c], RowsOf(p))
    <3>2. \/ index' = index /\ rows' = [rows EXCEPT ![c] = NoRows]
          \/ index' = With(index, all) /\ rows' = [rows EXCEPT ![c] = NoRows]
          \/ index' = index /\ rows' = [rows EXCEPT ![c] = all]
      BY <3>1 DEF Build, Commit
    <3>3. all \in Row /\ With(index, all) \in Row /\ NoRows \in Row
      BY <1>1, <1>2, RowTypes DEF DictInv
    <3> HIDE DEF all
    <3> QED BY <1>1, <3>2, <3>3
  <2>2. CASE UNCHANGED <<index, rows>>
    BY <1>1, <2>2
  <2> QED BY <2>1, <2>2 DEF Lookup, Ready, Manifest, UseIndex, Create, Select, Scan, Unindexed
<1> QED BY <1>1, <1>3, <1>4, <1>5, <1>6, <1>7 DEF Lookup, drive, DictInv, DictTypeOK

\* What a step of a lookup may do to the index in the calm.
LEMMA LookupCalm ==
  ASSUME DictInv, NEW c \in Calls, Lookup(c), Calm'
  PROVE  FilesInv' /\ IndexInv'
<1>1. UNCHANGED <<remote, disk, half, marker, boot, mark, fetch, ready, store, faults, of>>
  BY DEF Lookup, drive, Ready, Manifest, UseIndex, Create, Select, Scan, Build, Go, End
<1>2. ~torn' => ~torn
  <2>1. torn' = torn \/ torn' = TRUE \/ torn' = (torn \/ Building)
    BY DEF Lookup, Ready, Manifest, UseIndex, Create, Select, Scan, Build, Unindexed
  <2> QED BY <2>1
<1>3. Calm /\ FilesInv /\ IndexInv
  BY <1>1, <1>2 DEF DictInv, DictTypeOK, Calm
<1>4. /\ at \in [Calls -> Threads \union {"off", "boot", "done"}]
      /\ ans \in [Calls -> {"hit", "miss", "error", None}] /\ None \notin Parts
      /\ index \in [Words -> Parts \union {None}] /\ rows \in [Calls -> [Words -> Parts \union {None}]]
      /\ Holder[1] \in [Words -> Parts \union {None}] /\ left \in [Calls -> SUBSET Parts]
      /\ Word \in [Calls -> Words] /\ "manifest" \in Files /\ Parts \subseteq Files
  BY DictAssumption, FirstStore DEF DictInv, DictTypeOK, Files
<1>5. at[c] # "off" /\ \A d \in Calls \ {c} : at'[d] = at[d]
  BY <1>4 DEF Lookup, Ready, Manifest, UseIndex, Create, Select, Scan, Build, Go, End
<1>6. FilesInv'
  <2>1. at[c] = "boot" => ready[1]
    BY <1>3 DEF FilesInv, Lookup, Ready, Manifest, UseIndex, Create, Select, Scan, Build
  <2>2. at[c] \in Threads => ready[1]
    BY <1>3 DEF FilesInv
  <2>3. at[c] # "done"
    BY DEF Lookup, Ready, Manifest, UseIndex, Create, Select, Scan, Build
  <2>4. ready[1]
    BY <1>4, <1>5, <2>1, <2>2, <2>3
  <2> QED BY <1>1, <1>3, <1>5, <2>4 DEF FilesInv, Complete
<1> SUFFICES IndexInv'
  BY <1>6
<1>7. CASE Ready(c) \/ UseIndex(c)
  <2>1. PICK w \in {"manifest", "select", "create"} :
           at' = [at EXCEPT ![c] = w] /\ (w = "select" => hasIndex) /\ UNCHANGED ans
    BY <1>7 DEF Ready, UseIndex, Go
  <2>2. UNCHANGED <<hasIndex, index, left, rows>> /\ at[c] \in {"boot", "index"}
    BY <1>7 DEF Ready, UseIndex, Unindexed
  <2>3. at'[c] = w /\ (Building <=> Building')
    BY <1>4, <1>5, <2>1, <2>2 DEF Building
  <2> QED BY <1>3, <1>4, <1>5, <2>1, <2>2, <2>3 DEF IndexInv
<1>8. CASE Manifest(c)
  <2>1. disk["manifest"] = 1 /\ half = {}
    BY <1>3, <1>4, <1>8 DEF FilesInv, Manifest, Threads, Complete
  <2>2. Go(c, "index") /\ Unindexed /\ at[c] = "manifest"
    BY <1>8, <2>1 DEF Manifest
  <2> QED BY <1>3, <1>4, <1>5, <2>2 DEF IndexInv, Go, Unindexed, Building
<1>9. CASE Create(c)
  <2>1. /\ hasIndex' = TRUE /\ left' = [left EXCEPT ![c] = Parts] /\ at' = [at EXCEPT ![c] = "build"]
        /\ UNCHANGED <<index, rows, ans>>
    BY <1>9 DEF Create, Go
  <2> QED BY <1>3, <1>4, <1>5, <2>1 DEF IndexInv, Building
<1>10. CASE Select(c)
  <2>1. ~Building /\ at[c] = "select" /\ UNCHANGED <<hasIndex, index, left, rows>>
    BY <1>10 DEF Select, Calm
  <2>2. \A w \in Words : Holder[1][w] # None => index[w] # None
    BY <1>3, <2>1 DEF IndexInv
  <2>3. CASE index[Word[c]] = None
    <3>1. at' = [at EXCEPT ![c] = "done"] /\ ans' = [ans EXCEPT ![c] = "miss"] /\ Holder[1][Word[c]] = None
      BY <1>4, <1>10, <2>2, <2>3 DEF Select, End
    <3> QED BY <1>3, <1>4, <2>1, <2>2, <3>1 DEF IndexInv, Building
  <2>4. CASE index[Word[c]] # None
    <3>1. at' = [at EXCEPT ![c] = "scan"] /\ ans' = ans
      BY <1>10, <2>4 DEF Select, Go
    <3> QED BY <1>3, <1>4, <2>1, <2>2, <2>4, <3>1 DEF IndexInv, Building
  <2> QED BY <2>3, <2>4
<1>11. CASE Scan(c)
  <2> DEFINE p == index[Word[c]]
  <2>1. at[c] = "scan" /\ p # None /\ p = Holder[1][Word[c]] /\ p \in Parts
    BY <1>3, <1>4, <1>11 DEF Scan, IndexInv
  <2>2. half = {} /\ disk[p] = 1
    BY <1>3, <1>4, <2>1 DEF FilesInv, Threads, Complete
  <2>3. Holds(p, Word[c])
    BY <2>1, <2>2 DEF Holds
  <2>4. at' = [at EXCEPT ![c] = "done"] /\ ans' = [ans EXCEPT ![c] = "hit"] /\ Unindexed
    BY <1>11, <2>2, <2>3 DEF Scan, End
  <2> QED BY <1>3, <1>4, <1>5, <2>1, <2>4 DEF IndexInv, Unindexed, Building
<1>12. ASSUME NEW p \in Parts, Build(c, p)
       PROVE  IndexInv'
  <2> DEFINE all == With(rows[c], RowsOf(p))
  <2>1. at[c] = "build" /\ p \in left[c] /\ p \notin half /\ disk[p] = 1
    BY <1>3, <1>4, <1>12 DEF Build, FilesInv, Threads, Complete
  <2>2. /\ left' = [left EXCEPT ![c] = @ \ {p}] /\ UNCHANGED <<hasIndex, ans>>
        /\ \/ /\ left[c] = {p} /\ at' = [at EXCEPT ![c] = "select"]
              /\ index' = With(index, all) /\ rows' = [rows EXCEPT ![c] = NoRows]
           \/ /\ left[c] # {p} /\ at' = at
              /\ \/ index' = With(index, all) /\ rows' = [rows EXCEPT ![c] = NoRows]
                 \/ index' = index /\ rows' = [rows EXCEPT ![c] = all]
    BY <1>12, <2>1 DEF Build, Go, Commit
  <2>3. \A w \in Words : RowsOf(p)[w] = IF Holder[1][w] = p THEN p ELSE None
    BY <2>1 DEF RowsOf, Holds
  <2>4. \A w \in Words : /\ all[w] = IF rows[c][w] # None THEN rows[c][w] ELSE RowsOf(p)[w]
                         /\ With(index, all)[w] = IF index[w] # None THEN index[w] ELSE all[w]
    BY DEF With
  <2>5. \A w \in Words : /\ all[w] \in {None, Holder[1][w]} /\ With(index, all)[w] \in {None, Holder[1][w]}
                         /\ rows[c][w] # None \/ Holder[1][w] = p => all[w] # None
                         /\ index[w] # None \/ all[w] # None => With(index, all)[w] # None
                         /\ NoRows[w] = None
    BY <1>3, <1>4, <2>3, <2>4 DEF IndexInv, NoRows
  <2> HIDE DEF all
  <2>6. \A w \in Words : /\ index'[w] \in {None, Holder[1][w]}
                         /\ index[w] # None => index'[w] # None
                         /\ all[w] # None => index'[w] # None \/ rows'[c][w] # None
                         /\ left[c] = {p} /\ all[w] # None => index'[w] # None
    <3>1. CASE index' = With(index, all)
      BY <2>5, <3>1
    <3>2. CASE left[c] # {p} /\ index' = index /\ rows'[c] = all
      BY <1>3, <3>2 DEF IndexInv
    <3>3. [rows EXCEPT ![c] = all][c] = all
      BY <1>4
    <3> QED BY <2>2, <3>1, <3>2, <3>3
  <2>7. /\ \A w \in Words : rows'[c][w] \in {None, Holder[1][w]}
        /\ \A d \in Calls \ {c} : rows'[d] = rows[d] /\ left'[d] = left[d]
        /\ left'[c] = left[c] \ {p}
    BY <1>4, <2>2, <2>5
  <2>8. \A w \in Words : \/ Holder[1][w] = None \/ Holder[1][w] \in left'[c] \/ index[w] # None \/ all[w] # None
    BY <1>3, <2>1, <2>5, <2>7 DEF IndexInv
  <2>9. /\ \A w \in Words : index'[w] \in {None, Holder[1][w]}
        /\ \A d \in Calls : \A w \in Words : rows'[d][w] \in {None, Holder[1][w]}
    BY <1>3, <2>6, <2>7 DEF IndexInv
  <2>10. \A d \in Calls : at'[d] = "build" =>
            \A w \in Words : \/ Holder[1][w] = None \/ Holder[1][w] \in left'[d]
                             \/ index'[w] # None \/ rows'[d][w] # None
    <3> SUFFICES ASSUME NEW d \in Calls, at'[d] = "build", NEW w \in Words
                 PROVE  \/ Holder[1][w] = None \/ Holder[1][w] \in left'[d]
                        \/ index'[w] # None \/ rows'[d][w] # None
      OBVIOUS
    <3>1. CASE d = c
      BY <2>6, <2>8, <3>1
    <3>2. CASE d # c
      BY <1>3, <1>5, <2>6, <2>7, <3>2 DEF IndexInv
    <3> QED BY <3>1, <3>2
  <2>11. hasIndex' /\ ~Building' => \A w \in Words : Holder[1][w] # None => index'[w] # None
    <3> SUFFICES ASSUME ~Building', NEW w \in Words, Holder[1][w] # None
                 PROVE  index'[w] # None
      OBVIOUS
    <3>1. left[c] = {p} /\ left'[c] = {}
      BY <2>1, <2>2, <2>7 DEF Building
    <3> QED BY <2>6, <2>8, <3>1
  <2>12. \A d \in Calls : at'[d] \in {"build", "select", "scan"} => hasIndex'
    BY <1>3, <2>1, <2>2 DEF IndexInv
  <2>13. \A d \in Calls : at'[d] = "scan" => index'[Word[d]] # None
    BY <1>3, <1>4, <2>2, <2>6 DEF IndexInv
  <2>14. \A d \in Calls : ans'[d] \in {"miss", "error"} => Holder[1][Word[d]] = None
    BY <1>3, <2>2 DEF IndexInv
  <2> QED BY <2>9, <2>10, <2>11, <2>12, <2>13, <2>14 DEF IndexInv
<1> QED BY <1>7, <1>8, <1>9, <1>10, <1>11, <1>12 DEF Lookup

LEMMA DownloadStep ==
  ASSUME DictInv, NEW s \in 1..MaxStores, Download(s)
  PROVE  DictInv'
BY DownloadTypes, DownloadCalm DEF DictInv

LEMMA LookupStep ==
  ASSUME DictInv, NEW c \in Calls, Lookup(c)
  PROVE  DictInv'
BY LookupTypes, LookupCalm DEF DictInv

\* Where the dictionary stays as it is.
LEMMA DictStays ==
  ASSUME DictInv, UNCHANGED dict, faults' \in 0..MaxFaults, faults' = 0 => faults = 0
  PROVE  DictInv'
<1>1. UNCHANGED <<remote, disk, half, marker, boot, mark, fetch, ready, hasIndex, index, store, at, of, left,
                  rows, ans, torn>>
  BY DEF dict, drive, thread
<1>2. DictTypeOK'
  BY <1>1 DEF DictInv, DictTypeOK
<1>3. ASSUME Calm'
      PROVE  FilesInv' /\ IndexInv'
  <2>1. FilesInv /\ IndexInv
    BY <1>1, <1>3 DEF DictInv, Calm
  <2>2. FilesInv'
    BY <1>1, <2>1 DEF FilesInv, Complete
  <2>3. IndexInv'
    BY <1>1, <2>1 DEF IndexInv, Building
  <2> QED BY <2>2, <2>3
<1> QED BY <1>2, <1>3 DEF DictInv

LEMMA BeginStep ==
  ASSUME DictInv, NEW c \in Calls, Begin(c), UNCHANGED <<remote, drive, hasIndex, index, store, torn, faults>>
  PROVE  DictInv'
<1>1. /\ at[c] = "off" /\ at' = [at EXCEPT ![c] = "boot"] /\ of' = [of EXCEPT ![c] = store]
      /\ UNCHANGED <<remote, disk, half, marker, boot, mark, fetch, ready, hasIndex, index, store, left,
                     rows, ans, torn, faults>>
  BY DEF Begin, drive
<1>2. DictTypeOK'
  <2>1. at' \in [Calls -> Threads \union {"off", "boot", "done"}]
    BY <1>1 DEF DictInv, DictTypeOK
  <2>2. of' \in [Calls -> 0..MaxStores]
    BY <1>1, DictAssumption DEF DictInv, DictTypeOK
  <2> QED BY <1>1, <2>1, <2>2 DEF DictInv, DictTypeOK
<1>3. ASSUME Calm'
      PROVE  FilesInv' /\ IndexInv'
  <2>1. FilesInv /\ IndexInv /\ store = 1
    BY <1>1, <1>3 DEF DictInv, Calm
  <2>2. /\ at'[c] = "boot" /\ of'[c] = store
        /\ \A d \in Calls \ {c} : at'[d] = at[d] /\ of'[d] = of[d]
    BY <1>1 DEF DictInv, DictTypeOK
  <2>3. FilesInv'
    BY <1>1, <2>1, <2>2 DEF FilesInv, Complete, Threads
  <2>4. IndexInv'
    BY <1>1, <2>1, <2>2 DEF IndexInv, Building
  <2> QED BY <2>3, <2>4
<1> QED BY <1>1, <1>2, <1>3 DEF DictInv

LEMMA PublishStep ==
  ASSUME DictInv, Publish, UNCHANGED faults
  PROVE  DictInv'
<1>1. UNCHANGED <<disk, half, marker, boot, mark, fetch, ready, hasIndex, index, store, at, of, left,
                  rows, ans, torn, faults>>
  BY DEF Publish, drive, thread
<1>2. remote' \in 1..MaxVersion /\ remote' # 1
  BY DictAssumption DEF Publish, DictInv, DictTypeOK
<1> QED BY <1>1, <1>2 DEF DictInv, DictTypeOK, Calm

LEMMA ReplaceStep ==
  ASSUME DictInv, Replace, UNCHANGED faults
  PROVE  DictInv'
<1>1. UNCHANGED <<remote, disk, half, marker, boot, mark, fetch, ready, hasIndex, index, at, of, left,
                  rows, ans, torn, faults>>
  BY DEF Replace, drive, thread
<1>2. store' \in 1..MaxStores /\ store' # 1
  BY DictAssumption DEF Replace, DictInv, DictTypeOK
<1> QED BY <1>1, <1>2 DEF DictInv, DictTypeOK, Calm

LEMMA RestartStep ==
  ASSUME DictInv, DictRestart, UNCHANGED faults
  PROVE  DictInv'
<1>1. /\ \A s \in 1..MaxStores : ready'[s] = FALSE /\ boot'[s] = "idle"
      /\ \A c \in Calls : at'[c] = "off" /\ rows'[c] = NoRows /\ ans'[c] = None
      /\ UNCHANGED <<remote, disk, half, marker, hasIndex, index, store, faults>>
  BY DEF DictRestart
<1>2. torn' = (torn \/ Building)
  BY DEF DictRestart
<1>3. DictTypeOK'
  <2>1. rows' \in [Calls -> [Words -> Parts \union {None}]]
    BY DEF DictRestart, NoRows
  <2>2. /\ ready' \in [1..MaxStores -> BOOLEAN] /\ fetch' \in [1..MaxStores -> SUBSET Files]
        /\ boot' \in [1..MaxStores -> {"idle", "compare", "list", "file"}]
        /\ mark' \in [1..MaxStores -> 0..MaxVersion] /\ of' \in [Calls -> 0..MaxStores]
        /\ at' \in [Calls -> Threads \union {"off", "boot", "done"}] /\ left' \in [Calls -> SUBSET Parts]
        /\ ans' \in [Calls -> {"hit", "miss", "error", None}]
    BY DictAssumption DEF DictRestart
  <2>3. torn' \in BOOLEAN
    BY <1>2 DEF DictInv, DictTypeOK
  <2> QED BY <1>1, <2>1, <2>2, <2>3 DEF DictInv, DictTypeOK
<1>4. ASSUME Calm'
      PROVE  FilesInv' /\ IndexInv'
  <2>1. ~torn /\ ~Building
    BY <1>2, <1>4 DEF Calm
  <2>2. FilesInv /\ IndexInv
    BY <1>1, <1>4, <2>1 DEF DictInv, Calm
  <2>3. \A c \in Calls : \A w \in Words : rows'[c][w] = None
    BY <1>1 DEF NoRows
  <2>4. FilesInv'
    BY <1>1, <2>2, FirstStore DEF FilesInv, Complete, Threads
  <2>5. IndexInv'
    BY <1>1, <2>1, <2>2, <2>3, DictAssumption DEF IndexInv, Building
  <2> QED BY <2>4, <2>5
<1> QED BY <1>1, <1>3, <1>4 DEF DictInv

LEMMA DictStart ==
  ASSUME DictInit, faults = 0
  PROVE  DictInv
<1>1. DictTypeOK
  <2>1. NoRows \in [Words -> Parts \union {None}]
    BY DEF NoRows
  <2>2. index \in [Words -> Parts \union {None}] /\ rows \in [Calls -> [Words -> Parts \union {None}]]
    BY <2>1 DEF DictInit
  <2>3. /\ ready \in [1..MaxStores -> BOOLEAN] /\ fetch \in [1..MaxStores -> SUBSET Files]
        /\ boot \in [1..MaxStores -> {"idle", "compare", "list", "file"}]
        /\ mark \in [1..MaxStores -> 0..MaxVersion] /\ of \in [Calls -> 0..MaxStores]
        /\ at \in [Calls -> Threads \union {"off", "boot", "done"}] /\ left \in [Calls -> SUBSET Parts]
        /\ ans \in [Calls -> {"hit", "miss", "error", None}]
    BY DictAssumption DEF DictInit
  <2>4. /\ remote \in 1..MaxVersion /\ disk \in [Files -> 0..MaxVersion] /\ half \subseteq Files
        /\ marker \in 0..MaxVersion /\ store \in 1..MaxStores
    BY DictAssumption DEF DictInit
  <2>5. hasIndex \in BOOLEAN /\ torn \in BOOLEAN
    BY DEF DictInit
  <2> QED BY <2>2, <2>3, <2>4, <2>5 DEF DictTypeOK
<1>2. FilesInv
  BY FirstStore DEF DictInit, FilesInv, Complete, Threads
<1>3. IndexInv
  BY DictAssumption DEF DictInit, IndexInv, Building, NoRows
<1> QED BY <1>1, <1>2, <1>3, DictAssumption DEF DictInv

LEMMA CalmFinds == DictInv => FoundInCalm
<1> SUFFICES ASSUME DictInv, NEW c \in Calls, ans[c] \in {"miss", "error"}, Holder[1][Word[c]] # None
             PROVE  faults > 0 \/ remote > 1 \/ store > 1 \/ torn
  BY DEF FoundInCalm
<1>1. ~Calm
  BY DEF DictInv, IndexInv
<1> QED BY <1>1, DictAssumption DEF DictInv, DictTypeOK, Calm

-----------------------------------------------------------------------------
\* The requests.  A step is one request's: the others stay where they are.
Others(r) ==
    \A q \in Calls \ {r} :
        /\ pc'[q] = pc[q] /\ override'[q] = override[q] /\ lang'[q] = lang[q]
        /\ images'[q] = images[q] /\ kept'[q] = kept[q] /\ seen'[q] = seen[q]
        /\ chunks'[q] = chunks[q] /\ dual'[q] = dual[q] /\ verdict'[q] = verdict[q]
        /\ said'[q] = said[q] /\ unheard'[q] = unheard[q] /\ told'[q] = told[q]
        /\ upset'[q] = upset[q] /\ word'[q] = word[q]

LEMMA OneRequest ==
  ASSUME RequestInv, NEW r \in Calls, RequestType', Others(r),
         WorkInv(r)', ReplyInv(r)', SayInv(r)', LangInv(r)'
  PROVE  RequestInv'
<1>1. ASSUME NEW q \in Calls \ {r}
      PROVE  WorkInv(q)' /\ ReplyInv(q)' /\ SayInv(q)' /\ LangInv(q)'
  <2>1. WorkInv(q) /\ ReplyInv(q) /\ SayInv(q) /\ LangInv(q)
    BY DEF RequestInv
  <2>2. WorkInv(q)' /\ ReplyInv(q)'
    BY <2>1 DEF Others, WorkInv, ReplyInv
  <2>3. SayInv(q)' /\ LangInv(q)'
    BY <2>1 DEF Others, SayInv, LangInv
  <2> QED BY <2>2, <2>3
<1> QED BY <1>1 DEF RequestInv

\* A step that sends nothing, before the text is settled.
LEMMA Silence ==
  ASSUME RequestInv, NEW r \in Calls, UNCHANGED <<said, told, unheard, upset>>,
         pc[r] \notin {"final", "last", "done"},
         verdict'[r] = "result",
         pc'[r] = "empty" => Shape[r].chunks = 0 \/ (Shape[r].cmd = "reverse" /\ Shape[r].images = 0)
  PROVE  ReplyInv(r)' /\ SayInv(r)'
<1>1. ReplyInv(r)'
  BY DEF RequestInv, RequestType, ReplyInv
<1>2. told[r] \intersect {"same", "none"} = {}
  BY DEF RequestInv, SayInv
<1>3. SayInv(r)'
  BY <1>2 DEF SayInv
<1> QED BY <1>1, <1>3

LEMMA InvokeStep ==
  ASSUME RequestInv, NEW r \in Calls, Invoke(r)
  PROVE  RequestInv'
<1>1. PICK w \in {"done", "busy", "defer", "empty", "ask"} :
         pc' = [pc EXCEPT ![r] = w] /\ (w = "empty" => Shape[r].chunks = 0)
  BY DEF Invoke, Goto
<1>2. /\ pc[r] = "off" /\ override' = IF Shape[r].asks THEN [override EXCEPT ![r] = TRUE] ELSE override
      /\ UNCHANGED <<said, told, unheard, upset, word, lang, images, kept, seen, chunks, dual, verdict>>
  BY DEF Invoke, Silent, replies, Work, Interaction
<1>3. RequestType' /\ Others(r)
  <2>1. override' \in [Calls -> BOOLEAN] /\ \A q \in Calls \ {r} : override'[q] = override[q]
    BY <1>2 DEF RequestInv, RequestType
  <2>2. pc' \in [Calls -> Waiting \union {"off", "done"}] /\ \A q \in Calls \ {r} : pc'[q] = pc[q]
    BY <1>1 DEF RequestInv, RequestType, Waiting
  <2> QED BY <1>2, <2>1, <2>2 DEF RequestInv, RequestType, Others
<1>4. pc'[r] = w
  BY <1>1 DEF RequestInv, RequestType
<1>5. WorkInv(r)'
  BY <1>2, <1>4 DEF RequestInv, RequestType, WorkInv
<1>6. LangInv(r)'
  <2>1. w = "defer" => override'[r] = Shape[r].asks
    <3>1. ~override[r] /\ override[r] \in BOOLEAN /\ Shape[r].asks \in BOOLEAN
      BY <1>2, ShapeAssumption DEF RequestInv, RequestType, LangInv
    <3> QED BY <1>2, <3>1 DEF RequestInv, RequestType
  <2> QED BY <1>2, <1>4, <2>1 DEF RequestInv, LangInv
<1>7. ReplyInv(r)' /\ SayInv(r)'
  <2>1. verdict[r] = "result"
    BY <1>2 DEF RequestInv, RequestType, SayInv
  <2> QED BY <1>1, <1>2, <1>4, <2>1, Silence
<1> QED BY <1>3, <1>5, <1>6, <1>7, OneRequest

LEMMA DeferStep ==
  ASSUME RequestInv, NEW r \in Calls, Defer(r)
  PROVE  RequestInv'
<1>1. PICK w \in {"fetch", "done", "busy"} : pc' = [pc EXCEPT ![r] = w]
  BY DEF Defer, Goto
<1>2. /\ pc[r] = "defer" /\ upset' \in {upset, [upset EXCEPT ![r] = TRUE]}
      /\ UNCHANGED <<said, told, unheard, word, override, lang, images, kept, seen, chunks, dual, verdict>>
  BY DEF Defer, Silent, replies, Work
<1>3. RequestType' /\ Others(r) /\ pc'[r] = w
  BY <1>1, <1>2 DEF RequestInv, RequestType, Others, Waiting
<1>4. WorkInv(r)' /\ LangInv(r)'
  BY <1>2, <1>3 DEF RequestInv, RequestType, WorkInv, LangInv
<1>5. ReplyInv(r)'
  BY <1>2, <1>3 DEF RequestInv, RequestType, ReplyInv
<1>6. SayInv(r)'
  BY <1>2, <1>3 DEF RequestInv, RequestType, SayInv
<1> QED BY <1>3, <1>4, <1>5, <1>6, OneRequest

LEMMA FetchStep ==
  ASSUME RequestInv, NEW r \in Calls, Fetch(r)
  PROVE  RequestInv'
<1>1. /\ pc[r] = "fetch" /\ pc' = [pc EXCEPT ![r] = Way(r)]
      /\ UNCHANGED <<said, told, unheard, upset, word, images, kept, seen, chunks, dual, verdict>>
      /\ IF Shape[r].cmd = "translate"
         THEN /\ lang' = [lang EXCEPT ![r] = IF override[r] THEN "asked" ELSE "default"]
              /\ override' = [override EXCEPT ![r] = FALSE]
         ELSE UNCHANGED <<lang, override>>
  BY DEF Fetch, Goto, Silent, replies, Work, Interaction
<1>2. /\ Way(r) \in {"empty", "final", "read", "dict", "model"}
      /\ Way(r) = "read" => Shape[r].images > 0
      /\ Way(r) \in {"dict", "model"} => Shape[r].chunks # 0
      /\ Way(r) = "empty" => Shape[r].chunks = 0 \/ (Shape[r].cmd = "reverse" /\ Shape[r].images = 0)
  BY DEF Way
<1> HIDE DEF Way
<1>3. RequestType' /\ Others(r) /\ pc'[r] = Way(r)
  <2>1. /\ override' \in [Calls -> BOOLEAN] /\ \A q \in Calls \ {r} : override'[q] = override[q]
        /\ lang' \in [Calls -> {"asked", "default", None}] /\ \A q \in Calls \ {r} : lang'[q] = lang[q]
    BY <1>1 DEF RequestInv, RequestType
  <2>2. /\ pc' \in [Calls -> Waiting \union {"off", "done"}] /\ \A q \in Calls \ {r} : pc'[q] = pc[q]
        /\ pc'[r] = Way(r)
    BY <1>1, <1>2 DEF RequestInv, RequestType, Waiting
  <2> QED BY <1>1, <2>1, <2>2 DEF RequestInv, RequestType, Others
<1>4. WorkInv(r)'
  BY <1>1, <1>2, <1>3, ShapeAssumption DEF RequestInv, RequestType, WorkInv
<1>5. LangInv(r)'
  <2>1. override[r] = Shape[r].asks
    BY <1>1 DEF RequestInv, LangInv
  <2>2. lang'[r] = lang[r] \/ lang'[r] = IF Shape[r].asks THEN "asked" ELSE "default"
    BY <1>1, <2>1 DEF RequestInv, RequestType
  <2> QED BY <1>2, <1>3, <2>2 DEF RequestInv, LangInv
<1>6. ReplyInv(r)' /\ SayInv(r)'
  <2>1. verdict[r] = "result"
    BY <1>1 DEF RequestInv, RequestType, SayInv
  <2> QED BY <1>1, <1>2, <1>3, <2>1, Silence
<1> QED BY <1>3, <1>4, <1>5, <1>6, OneRequest

LEMMA LookedStep ==
  ASSUME RequestInv, NEW r \in Calls, Looked(r)
  PROVE  RequestInv'
<1>1. PICK w \in {"hit", "model"} : pc' = [pc EXCEPT ![r] = w]
  BY DEF Looked, Goto
<1>2. /\ pc[r] = "dict"
      /\ UNCHANGED <<said, told, unheard, upset, word, override, lang, images, kept, seen, chunks, dual, verdict>>
  BY DEF Looked, Silent, replies, Work
<1>3. RequestType' /\ Others(r) /\ pc'[r] = w
  BY <1>1, <1>2 DEF RequestInv, RequestType, Others, Waiting
<1>4. WorkInv(r)' /\ LangInv(r)'
  BY <1>2, <1>3 DEF RequestInv, RequestType, WorkInv, LangInv
<1>5. ReplyInv(r)' /\ SayInv(r)'
  <2>1. verdict[r] = "result"
    BY <1>2 DEF RequestInv, RequestType, SayInv
  <2> QED BY <1>2, <1>3, <2>1, Silence
<1> QED BY <1>3, <1>4, <1>5, OneRequest

LEMMA ReadStep ==
  ASSUME RequestInv, NEW r \in Calls, Read(r)
  PROVE  RequestInv'
<1>1. /\ pc[r] = "read" /\ images' = [images EXCEPT ![r] = @ - 1]
      /\ kept' \in {kept, [kept EXCEPT ![r] = @ + 1]}
      /\ UNCHANGED <<said, told, unheard, upset, word, override, lang, seen, chunks, dual, verdict>>
  BY DEF Read, Silent, replies
<1>2. PICK w \in {"read", "vision", "empty", "model"} :
         /\ pc' = [pc EXCEPT ![r] = w] /\ (w = "read" => images'[r] > 0) /\ (w = "vision" => kept'[r] > 0)
         /\ (w = "empty" => Shape[r].chunks = 0) /\ (w = "model" => Shape[r].chunks # 0)
  BY DEF Read, Goto
<1>3. /\ images[r] \in Nat /\ images[r] > 0 /\ kept[r] \in Nat /\ Shape[r].images \in Nat
      /\ images[r] + kept[r] <= Shape[r].images /\ chunks[r] = Shape[r].chunks
  BY <1>1, ShapeAssumption DEF RequestInv, RequestType, WorkInv
<1>4. /\ images' \in [Calls -> Nat] /\ images'[r] = images[r] - 1 /\ \A q \in Calls \ {r} : images'[q] = images[q]
      /\ kept' \in [Calls -> Nat] /\ kept'[r] \in {kept[r], kept[r] + 1} /\ \A q \in Calls \ {r} : kept'[q] = kept[q]
  BY <1>1, <1>3 DEF RequestInv, RequestType
<1>5. RequestType' /\ Others(r) /\ pc'[r] = w
  <2>1. /\ pc' \in [Calls -> Waiting \union {"off", "done"}] /\ \A q \in Calls \ {r} : pc'[q] = pc[q]
        /\ pc'[r] = w
    BY <1>2 DEF RequestInv, RequestType, Waiting
  <2> QED BY <1>1, <1>4, <2>1 DEF RequestInv, RequestType, Others
<1>6. WorkInv(r)'
  <2>1. images'[r] + kept'[r] <= Shape[r].images
    BY <1>3, <1>4
  <2>2. chunks'[r] = Shape[r].chunks /\ Shape[r].chunks \in Nat
    BY <1>1, <1>3, ShapeAssumption
  <2> QED BY <1>2, <1>5, <2>1, <2>2 DEF WorkInv
<1>7. LangInv(r)'
  BY <1>1, <1>5 DEF RequestInv, LangInv
<1>8. ReplyInv(r)' /\ SayInv(r)'
  <2>1. verdict[r] = "result"
    BY <1>1 DEF RequestInv, RequestType, SayInv
  <2> QED BY <1>1, <1>2, <1>5, <2>1, Silence
<1> QED BY <1>5, <1>6, <1>7, <1>8, OneRequest

LEMMA VisionStep ==
  ASSUME RequestInv, NEW r \in Calls, Vision(r)
  PROVE  RequestInv'
<1>1. /\ pc[r] = "vision" /\ kept' = [kept EXCEPT ![r] = @ - 1]
      /\ UNCHANGED <<said, told, unheard, upset, word, override, lang, images, chunks, dual, verdict>>
  BY DEF Vision, Silent, replies
<1>2. PICK w \in {"vision", "final", "model"} :
         /\ pc' = [pc EXCEPT ![r] = w] /\ (w = "vision" => kept'[r] > 0)
         /\ (w = "model" => Shape[r].chunks # 0)
  BY DEF Vision, Goto
<1>3. PICK b \in {"ok", "failed"} : seen' = [seen EXCEPT ![r] = b]
  BY DEF Vision
<1>4. /\ images[r] \in Nat /\ kept[r] > 0 /\ kept[r] \in Nat /\ Shape[r].images \in Nat
      /\ images[r] + kept[r] <= Shape[r].images /\ chunks[r] = Shape[r].chunks
  BY <1>1, ShapeAssumption DEF RequestInv, RequestType, WorkInv
<1>5. kept' \in [Calls -> Nat] /\ kept'[r] = kept[r] - 1 /\ \A q \in Calls \ {r} : kept'[q] = kept[q]
  BY <1>1, <1>4 DEF RequestInv, RequestType
<1>6. RequestType' /\ Others(r) /\ pc'[r] = w
  <2>1. /\ pc' \in [Calls -> Waiting \union {"off", "done"}] /\ \A q \in Calls \ {r} : pc'[q] = pc[q]
        /\ pc'[r] = w
    BY <1>2 DEF RequestInv, RequestType, Waiting
  <2>2. seen' \in [Calls -> {"none", "failed", "ok"}] /\ \A q \in Calls \ {r} : seen'[q] = seen[q]
    BY <1>3 DEF RequestInv, RequestType
  <2> QED BY <1>1, <1>5, <2>1, <2>2 DEF RequestInv, RequestType, Others
<1>7. WorkInv(r)'
  <2>1. images'[r] + kept'[r] <= Shape[r].images
    BY <1>1, <1>4, <1>5
  <2>2. chunks'[r] = Shape[r].chunks /\ Shape[r].chunks \in Nat
    BY <1>1, <1>4, ShapeAssumption
  <2> QED BY <1>2, <1>6, <2>1, <2>2 DEF WorkInv
<1>8. LangInv(r)'
  BY <1>1, <1>6 DEF RequestInv, LangInv
<1>9. ReplyInv(r)' /\ SayInv(r)'
  <2>1. verdict[r] = "result"
    BY <1>1 DEF RequestInv, RequestType, SayInv
  <2> QED BY <1>1, <1>2, <1>6, <2>1, Silence
<1> QED BY <1>6, <1>7, <1>8, <1>9, OneRequest

\* What is known of the model's last word.
LEMMA LastWord ==
  ASSUME RequestType, NEW r \in Calls, NEW reply \in Reply, Heard(r, reply)
  PROVE  /\ word' \in [Calls -> {"error", "same", "new", None}]
         /\ \A q \in Calls \ {r} : word'[q] = word[q]
         /\ reply \in {"unchanged", "blank"} => word'[r] = "same"
BY DEF RequestType, Heard, Failed

\* "Same" is the verdict on a text that came back as it was, "none" on two styles.
LEMMA Verdict ==
  ASSUME RequestType, NEW r \in Calls, NEW reply \in Reply, verdict[r] = "result",
         IF dual[r] THEN Styled(r, reply) ELSE Shown(r, reply)
  PROVE  /\ verdict' \in [Calls -> {"result", "same", "none"}]
         /\ \A q \in Calls \ {r} : verdict'[q] = verdict[q]
         /\ verdict'[r] = "same" => reply \in {"unchanged", "blank"}
         /\ verdict'[r] = "none" => dual[r]
<1>1. CASE dual[r]
  <2>1. PICK styles \in {Styles(reply)} \union {S \in {{"formal"}} : Shape[r].chunks > 1} :
           verdict' = [verdict EXCEPT ![r] = IF styles = {} THEN "same"
                                             ELSE IF seen[r] = "none" THEN "none" ELSE "result"]
    BY <1>1 DEF Styled
  <2>2. styles = {} => reply = "blank"
    BY DEF Styles
  <2> QED BY <1>1, <2>1, <2>2 DEF RequestType
<1>2. CASE ~dual[r]
  <2>1. verdict' = verdict \/ (reply = "unchanged" /\ Same(r))
    BY <1>2 DEF Shown
  <2>2. CASE Same(r)
    <3>1. PICK v \in {"same", "result"} : verdict' = [verdict EXCEPT ![r] = v]
      BY <2>2 DEF Same
    <3> QED BY <2>1, <3>1 DEF RequestType
  <2> QED BY <2>1, <2>2 DEF RequestType
<1> QED BY <1>1, <1>2

LEMMA ModelStep ==
  ASSUME RequestInv, NEW r \in Calls, Model(r)
  PROVE  RequestInv'
<1>1. /\ pc[r] = "model"
      /\ UNCHANGED <<said, told, unheard, upset, override, lang, images, kept, seen>>
  BY DEF Model
<1>2. PICK reply \in Reply :
         /\ Heard(r, reply) /\ UNCHANGED dual
         /\ \/ /\ pc' = [pc EXCEPT ![r] = IF dual[r] THEN "whole" ELSE "sorry"]
               /\ UNCHANGED <<chunks, verdict>>
            \/ /\ chunks' = [chunks EXCEPT ![r] = @ - 1]
               /\ \/ chunks'[r] > 0 /\ UNCHANGED <<pc, verdict>>
                  \/ /\ pc' = [pc EXCEPT ![r] = "final"]
                     /\ IF dual[r] THEN Styled(r, reply) ELSE Shown(r, reply)
  <2>1. PICK first, second \in Reply :
           LET reply == IF dual[r] THEN first ELSE Single(first, second)
           IN /\ Heard(r, reply) /\ UNCHANGED dual
              /\ IF Failed(reply)
                 THEN Goto(r, IF dual[r] THEN "whole" ELSE "sorry") /\ UNCHANGED <<chunks, verdict>>
                 ELSE /\ chunks' = [chunks EXCEPT ![r] = @ - 1]
                      /\ IF chunks'[r] > 0 THEN UNCHANGED <<pc, verdict>>
                         ELSE /\ Goto(r, "final")
                              /\ IF dual[r] THEN Styled(r, reply) ELSE Shown(r, reply)
    BY DEF Model
  <2> DEFINE reply == IF dual[r] THEN first ELSE Single(first, second)
  <2>2. reply \in Reply
    BY DEF Single
  <2>3. WITNESS reply \in Reply
  <2> QED BY <2>1 DEF Goto
<1>3. /\ chunks[r] \in Nat /\ chunks[r] > 0 /\ Shape[r].chunks \in Nat /\ chunks[r] <= Shape[r].chunks
      /\ verdict[r] = "result" /\ RequestType
  BY <1>1, ShapeAssumption DEF RequestInv, RequestType, WorkInv, SayInv
<1>4. chunks' \in [Calls -> Nat] /\ chunks'[r] <= Shape[r].chunks /\ \A q \in Calls \ {r} : chunks'[q] = chunks[q]
  BY <1>2, <1>3 DEF RequestType
<1>5. /\ verdict' \in [Calls -> {"result", "same", "none"}] /\ \A q \in Calls \ {r} : verdict'[q] = verdict[q]
      /\ verdict'[r] = "same" => reply \in {"unchanged", "blank"}
      /\ verdict'[r] = "none" => dual[r]
  <2>1. CASE verdict' = verdict
    BY <1>3, <2>1 DEF RequestType
  <2>2. CASE IF dual[r] THEN Styled(r, reply) ELSE Shown(r, reply)
    BY <1>3, <2>2, Verdict
  <2> QED BY <1>2, <2>1, <2>2
<1>6. /\ pc' \in [Calls -> Waiting \union {"off", "done"}] /\ \A q \in Calls \ {r} : pc'[q] = pc[q]
      /\ pc'[r] \in {"model", "whole", "sorry", "final"}
      /\ pc'[r] # "final" => chunks'[r] > 0 /\ verdict'[r] = "result"
  BY <1>1, <1>2, <1>3 DEF RequestType, Waiting
<1>7. RequestType' /\ Others(r)
  BY <1>1, <1>2, <1>3, <1>4, <1>5, <1>6, LastWord DEF RequestType, Others
<1>8. WorkInv(r)'
  BY <1>1, <1>4, <1>6 DEF RequestInv, WorkInv
<1>9. LangInv(r)'
  BY <1>1, <1>6 DEF RequestInv, LangInv
<1>10. ReplyInv(r)'
  BY <1>1, <1>6 DEF RequestInv, ReplyInv
<1>11. SayInv(r)'
  <2>1. told'[r] \intersect {"same", "none"} = {}
    BY <1>1 DEF RequestInv, SayInv
  <2>2. verdict'[r] = "same" => word'[r] = "same"
    BY <1>2, <1>3, <1>5, LastWord
  <2>3. dual' = dual
    BY <1>2
  <2> QED BY <1>5, <1>6, <2>1, <2>2, <2>3 DEF SayInv
<1> QED BY <1>7, <1>8, <1>9, <1>10, <1>11, OneRequest

LEMMA WholeStep ==
  ASSUME RequestInv, NEW r \in Calls, Whole(r)
  PROVE  RequestInv'
<1>1. /\ pc[r] = "whole"
      /\ UNCHANGED <<said, told, unheard, upset, override, lang, images, kept, seen, verdict>>
  BY DEF Whole
<1>2. PICK reply \in Reply :
         /\ Heard(r, reply)
         /\ \/ pc' = [pc EXCEPT ![r] = "sorry"] /\ UNCHANGED <<chunks, dual>>
            \/ /\ pc' = [pc EXCEPT ![r] = "model"] /\ dual' = [dual EXCEPT ![r] = FALSE]
               /\ chunks' = [chunks EXCEPT ![r] = Shape[r].chunks]
  BY DEF Whole, Goto, Single
<1>3. /\ chunks[r] \in Nat /\ chunks[r] > 0 /\ Shape[r].chunks \in Nat /\ chunks[r] <= Shape[r].chunks
      /\ verdict[r] = "result" /\ RequestType
  BY <1>1, ShapeAssumption DEF RequestInv, RequestType, WorkInv, SayInv
<1>4. /\ chunks' \in [Calls -> Nat] /\ \A q \in Calls \ {r} : chunks'[q] = chunks[q]
      /\ chunks'[r] \in {chunks[r], Shape[r].chunks}
      /\ dual' \in [Calls -> BOOLEAN] /\ \A q \in Calls \ {r} : dual'[q] = dual[q]
  BY <1>2, <1>3 DEF RequestType
<1>5. /\ pc' \in [Calls -> Waiting \union {"off", "done"}] /\ \A q \in Calls \ {r} : pc'[q] = pc[q]
      /\ pc'[r] \in {"model", "sorry"}
  BY <1>1, <1>2, <1>3 DEF RequestType, Waiting
<1>6. RequestType' /\ Others(r)
  BY <1>1, <1>2, <1>3, <1>4, <1>5, LastWord DEF RequestType, Others
<1>7. WorkInv(r)'
  BY <1>1, <1>3, <1>4, <1>5 DEF RequestInv, WorkInv
<1>8. LangInv(r)'
  BY <1>1, <1>5 DEF RequestInv, LangInv
<1>9. ReplyInv(r)' /\ SayInv(r)'
  BY <1>1, <1>3, <1>5, Silence
<1> QED BY <1>6, <1>7, <1>8, <1>9, OneRequest

LEMMA AskStep ==
  ASSUME RequestInv, NEW r \in Calls, Ask(r)
  PROVE  RequestInv'
<1>1. /\ pc[r] = "ask"
      /\ UNCHANGED <<said, told, unheard, upset, override, lang, images, kept, seen, chunks, dual, verdict>>
  BY DEF Ask, Work
<1>2. PICK reply \in Reply, w \in {"reason", "embed"} : Heard(r, reply) /\ pc' = [pc EXCEPT ![r] = w]
  BY DEF Ask, Goto, Single
<1>3. verdict[r] = "result" /\ RequestType
  BY <1>1 DEF RequestInv, RequestType, SayInv
<1>4. /\ pc' \in [Calls -> Waiting \union {"off", "done"}] /\ \A q \in Calls \ {r} : pc'[q] = pc[q]
      /\ pc'[r] = w
  BY <1>2, <1>3 DEF RequestType, Waiting
<1>5. RequestType' /\ Others(r)
  BY <1>1, <1>2, <1>3, <1>4, LastWord DEF RequestType, Others
<1>6. WorkInv(r)' /\ LangInv(r)'
  BY <1>1, <1>4 DEF RequestInv, WorkInv, LangInv
<1>7. ReplyInv(r)' /\ SayInv(r)'
  BY <1>1, <1>3, <1>4, Silence
<1> QED BY <1>5, <1>6, <1>7, OneRequest

\* What a send may do: a request that goes on has met an error.
LEMMA Sending ==
  ASSUME RequestInv, NEW r \in Calls, pc[r] # "done",
         NEW what \in {"hit", "result", "same", "none", "busy", "error"},
         NEW onError \in Waiting \union {"done"}, Send(r, what, onError)
  PROVE  /\ pc' \in [Calls -> Waiting \union {"off", "done"}] /\ \A q \in Calls \ {r} : pc'[q] = pc[q]
         /\ said' \in [Calls -> Nat] /\ \A q \in Calls \ {r} : said'[q] = said[q]
         /\ unheard' \in [Calls -> Nat] /\ \A q \in Calls \ {r} : unheard'[q] = unheard[q]
         /\ told' \in [Calls -> SUBSET {"hit", "result", "same", "none", "busy", "error"}]
         /\ \A q \in Calls \ {r} : told'[q] = told[q]
         /\ upset' \in [Calls -> BOOLEAN] /\ \A q \in Calls \ {r} : upset'[q] = upset[q]
         /\ word' = word
         /\ pc'[r] \in {"done", onError} /\ (pc'[r] # "done" => upset'[r]) /\ (upset[r] => upset'[r])
         /\ told'[r] \subseteq told[r] \union {what}
         /\ ReplyInv(r)'
<1>1. RequestType /\ said[r] = unheard[r] /\ said[r] \in Nat /\ unheard[r] \in Nat
  BY DEF RequestInv, RequestType, ReplyInv
<1>2. \/ /\ pc' = [pc EXCEPT ![r] = "done"] /\ UNCHANGED <<unheard, upset>>
         /\ said' = [said EXCEPT ![r] = @ + 1] /\ told' = [told EXCEPT ![r] = @ \union {what}]
      \/ /\ pc' = [pc EXCEPT ![r] = onError]
         /\ unheard' = [unheard EXCEPT ![r] = @ + 1] /\ upset' = [upset EXCEPT ![r] = TRUE]
         /\ said' = [said EXCEPT ![r] = @ + 1] /\ told' = [told EXCEPT ![r] = @ \union {what}]
      \/ /\ pc' = [pc EXCEPT ![r] = onError]
         /\ upset' = [upset EXCEPT ![r] = TRUE] /\ UNCHANGED <<said, told, unheard>>
  BY DEF Send, Goto
<1>3. word' = word
  BY DEF Send
<1>4. /\ pc' \in [Calls -> Waiting \union {"off", "done"}] /\ \A q \in Calls \ {r} : pc'[q] = pc[q]
      /\ pc'[r] \in {"done", onError}
  BY <1>1, <1>2 DEF RequestType
<1>5. /\ said' \in [Calls -> Nat] /\ \A q \in Calls \ {r} : said'[q] = said[q]
      /\ unheard' \in [Calls -> Nat] /\ \A q \in Calls \ {r} : unheard'[q] = unheard[q]
      /\ ReplyInv(r)'
  BY <1>1, <1>2 DEF RequestType, ReplyInv
<1>6. /\ told' \in [Calls -> SUBSET {"hit", "result", "same", "none", "busy", "error"}]
      /\ \A q \in Calls \ {r} : told'[q] = told[q]
      /\ told'[r] \subseteq told[r] \union {what}
  BY <1>1, <1>2 DEF RequestType
<1>7. /\ upset' \in [Calls -> BOOLEAN] /\ \A q \in Calls \ {r} : upset'[q] = upset[q]
      /\ (pc'[r] # "done" => upset'[r]) /\ (upset[r] => upset'[r])
  BY <1>1, <1>2 DEF RequestType
<1> QED BY <1>3, <1>4, <1>5, <1>6, <1>7

LEMMA SorryStep ==
  ASSUME RequestInv, NEW r \in Calls, Sorry(r)
  PROVE  RequestInv'
<1>1. /\ pc[r] = "sorry" /\ Send(r, "error", "final")
      /\ UNCHANGED <<override, lang, images, kept, seen, chunks, dual>>
  BY DEF Sorry
<1>2. PICK v \in {"same", "result"} : verdict' = [verdict EXCEPT ![r] = v]
  BY DEF Sorry, Same
<1>3. /\ verdict' \in [Calls -> {"result", "same", "none"}] /\ \A q \in Calls \ {r} : verdict'[q] = verdict[q]
      /\ verdict'[r] = v
  BY <1>2 DEF RequestInv, RequestType
<1>4. /\ RequestType' /\ Others(r) /\ pc'[r] \in {"done", "final"} /\ (pc'[r] = "final" => upset'[r])
      /\ told'[r] \subseteq told[r] \union {"error"} /\ ReplyInv(r)' /\ (upset[r] => upset'[r])
  <2>1. /\ pc' \in [Calls -> Waiting \union {"off", "done"}] /\ \A q \in Calls \ {r} : pc'[q] = pc[q]
        /\ said' \in [Calls -> Nat] /\ \A q \in Calls \ {r} : said'[q] = said[q]
        /\ unheard' \in [Calls -> Nat] /\ \A q \in Calls \ {r} : unheard'[q] = unheard[q]
        /\ told' \in [Calls -> SUBSET {"hit", "result", "same", "none", "busy", "error"}]
        /\ \A q \in Calls \ {r} : told'[q] = told[q]
        /\ upset' \in [Calls -> BOOLEAN] /\ \A q \in Calls \ {r} : upset'[q] = upset[q]
        /\ word' = word
        /\ pc'[r] \in {"done", "final"} /\ (pc'[r] # "done" => upset'[r]) /\ (upset[r] => upset'[r])
        /\ told'[r] \subseteq told[r] \union {"error"} /\ ReplyInv(r)'
    BY <1>1, Sending DEF Waiting
  <2>2. RequestType'
    BY <1>1, <1>3, <2>1 DEF RequestInv, RequestType
  <2>3. Others(r)
    BY <1>1, <1>3, <2>1 DEF Others
  <2> QED BY <2>1, <2>2, <2>3
<1>5. WorkInv(r)' /\ LangInv(r)'
  BY <1>1, <1>4 DEF RequestInv, WorkInv, LangInv
<1>6. SayInv(r)'
  <2>1. told'[r] \intersect {"same", "none"} = {}
    BY <1>1, <1>4 DEF RequestInv, SayInv
  <2> QED BY <1>3, <1>4, <2>1 DEF SayInv
<1> QED BY <1>4, <1>5, <1>6, OneRequest

LEMMA AnswerStep ==
  ASSUME RequestInv, NEW r \in Calls, Answer(r)
  PROVE  RequestInv'
<1>1. UNCHANGED <<override, lang, images, kept, seen, chunks, dual, verdict>>
  BY DEF Answer, Work
<1>2. verdict[r] \in {"result", "same", "none"}
  BY DEF RequestInv, RequestType
<1>3. PICK what \in {"hit", "result", "same", "none", "busy", "error"},
           onError \in {"model", "last", "done", "apology"} :
         /\ Send(r, what, onError)
         /\ \/ pc[r] = "hit" /\ what = "hit" /\ onError = "model"
            \/ pc[r] = "final" /\ what = verdict[r] /\ onError = "last"
            \/ pc[r] = "last" /\ what = verdict[r] /\ onError = "done"
            \/ pc[r] = "empty" /\ what = "none" /\ onError = "done"
            \/ pc[r] \in {"busy", "apology"} /\ what \in {"busy", "error"} /\ onError = "done"
            \/ pc[r] \in {"embed", "reason"} /\ what \in {"result", "error"} /\ onError = "apology"
  BY <1>2 DEF Answer
<1>4. /\ RequestType' /\ Others(r) /\ pc'[r] \in {"done", onError} /\ (upset[r] => upset'[r]) /\ word' = word
      /\ told'[r] \subseteq told[r] \union {what} /\ ReplyInv(r)'
  <2>1. /\ pc' \in [Calls -> Waiting \union {"off", "done"}] /\ \A q \in Calls \ {r} : pc'[q] = pc[q]
        /\ said' \in [Calls -> Nat] /\ \A q \in Calls \ {r} : said'[q] = said[q]
        /\ unheard' \in [Calls -> Nat] /\ \A q \in Calls \ {r} : unheard'[q] = unheard[q]
        /\ told' \in [Calls -> SUBSET {"hit", "result", "same", "none", "busy", "error"}]
        /\ \A q \in Calls \ {r} : told'[q] = told[q]
        /\ upset' \in [Calls -> BOOLEAN] /\ \A q \in Calls \ {r} : upset'[q] = upset[q]
        /\ word' = word
        /\ pc'[r] \in {"done", onError} /\ (upset[r] => upset'[r])
        /\ told'[r] \subseteq told[r] \union {what} /\ ReplyInv(r)'
    <3>1. pc[r] # "done" /\ onError \in Waiting \union {"done"}
      BY <1>3 DEF Waiting
    <3> QED BY <1>3, <3>1, Sending
  <2>2. RequestType'
    BY <1>1, <2>1 DEF RequestInv, RequestType
  <2>3. Others(r)
    BY <1>1, <2>1 DEF Others
  <2> QED BY <2>1, <2>2, <2>3
<1>5. WorkInv(r)'
  BY <1>1, <1>3, <1>4 DEF RequestInv, WorkInv
<1>6. LangInv(r)'
  BY <1>1, <1>3, <1>4 DEF RequestInv, LangInv
<1>7. SayInv(r)'
  <2>1. SayInv(r)
    BY DEF RequestInv
  <2>2. CASE what \notin {"same", "none"}
    BY <1>1, <1>3, <1>4, <2>1, <2>2 DEF SayInv
  <2>3. CASE what \in {"same", "none"}
    BY <1>1, <1>3, <1>4, <2>1, <2>3 DEF SayInv
  <2> QED BY <2>2, <2>3
<1> QED BY <1>4, <1>5, <1>6, <1>7, OneRequest

LEMMA RequestStep ==
  ASSUME RequestInv, NEW r \in Calls, Request(r)
  PROVE  RequestInv'
BY DeferStep, FetchStep, LookedStep, ReadStep, VisionStep, ModelStep, WholeStep, SorryStep, AskStep,
   AnswerStep DEF Request

\* The requests where no request steps.
LEMMA RequestStays ==
  ASSUME RequestInv,
         UNCHANGED <<pc, override, lang, images, kept, seen, chunks, dual, verdict, said, told, unheard,
                     upset, word>>
  PROVE  RequestInv'
<1>1. RequestType'
  BY DEF RequestInv, RequestType
<1>2. ASSUME NEW r \in Calls
      PROVE  WorkInv(r)' /\ ReplyInv(r)' /\ SayInv(r)' /\ LangInv(r)'
  BY DEF RequestInv, WorkInv, ReplyInv, SayInv, LangInv
<1> QED BY <1>1, <1>2 DEF RequestInv

\* A restart ends the requests under way.
LEMMA RequestRestart ==
  ASSUME RequestInv, Restart
  PROVE  RequestInv'
<1>1. /\ pc' = [r \in Calls |-> IF pc[r] = "off" THEN "off" ELSE "done"]
      /\ override' = [r \in Calls |-> FALSE]
      /\ UNCHANGED <<lang, images, kept, seen, chunks, dual, verdict, said, told, unheard, upset, word>>
  BY DEF Restart, Work, replies
<1>2. RequestType'
  BY <1>1 DEF RequestInv, RequestType
<1>3. ASSUME NEW r \in Calls
      PROVE  WorkInv(r)' /\ ReplyInv(r)' /\ SayInv(r)' /\ LangInv(r)'
  <2>1. WorkInv(r) /\ ReplyInv(r) /\ SayInv(r) /\ LangInv(r)
    BY DEF RequestInv
  <2>2. ~override'[r] /\ pc'[r] = IF pc[r] = "off" THEN "off" ELSE "done"
    BY <1>1
  <2>3. WorkInv(r)' /\ ReplyInv(r)'
    BY <1>1, <2>1, <2>2 DEF WorkInv, ReplyInv
  <2>4. SayInv(r)' /\ LangInv(r)'
    BY <1>1, <2>1, <2>2 DEF SayInv, LangInv
  <2> QED BY <2>3, <2>4
<1> QED BY <1>2, <1>3 DEF RequestInv

\* Of a request's steps only the fetch touches the dictionary.
LEMMA RequestDict ==
  ASSUME DictInv, NEW r \in Calls, Request(r)
  PROVE  DictInv'
<1>1. CASE Fetch(r) /\ Way(r) = "dict"
  <2>1. Begin(r) /\ UNCHANGED <<remote, drive, hasIndex, index, store, torn, faults>>
    BY <1>1 DEF Fetch, Silent
  <2> QED BY <2>1, BeginStep
<1>2. CASE ~(Fetch(r) /\ Way(r) = "dict")
  <2>1. UNCHANGED dict
    BY <1>2 DEF Request, Defer, Fetch, Looked, Read, Vision, Model, Whole, Sorry, Ask, Answer, NoDict
  <2>2. faults' = faults \/ \E kind : Spend(kind)
    BY DEF Request, Defer, Fetch, Looked, Read, Vision, Model, Whole, Sorry, Ask, Answer, Send, Silent
  <2>3. faults' \in 0..MaxFaults /\ (faults' = 0 => faults = 0)
    BY <2>2, Spending DEF DictInv
  <2> QED BY <2>1, <2>3, DictStays
<1> QED BY <1>1, <1>2

\* The registration: the guilds only grow.
LEMMA RegistrationStep ==
  ASSUME TInv, Registration
  PROVE  TInv'
<1>1. UNCHANGED <<plan, request, boots, dict, guilds, missed>>
  BY DEF Registration, OnReady, Snapshot, GlobalSync, Sync
<1>2. RequestInv'
  BY <1>1, RequestStays DEF TInv, request, replies
<1>3. DictInv'
  <2>1. faults' = faults \/ \E kind : Spend(kind)
    BY DEF Registration, OnReady, Snapshot, GlobalSync, Sync
  <2>2. faults' \in 0..MaxFaults /\ (faults' = 0 => faults = 0)
    BY <2>1, Spending DEF TInv, DictInv
  <2> QED BY <1>1, <2>2, DictStays DEF TInv
<1>4. MenuInv'
  <2>1. gids' \in {gids, guilds} \/ \E g \in Guilds : gids' = gids \ {g}
    BY DEF Registration, OnReady, Snapshot, GlobalSync, Sync
  <2>2. served' = served \/ \E g \in gids : served' = served \union {g}
    BY DEF Registration, OnReady, Snapshot, GlobalSync, Sync
  <2>3. task' \in {task, "none", "ready", "global", "sync"} /\ registered' \in {registered, TRUE}
    BY DEF Registration, OnReady, Snapshot, GlobalSync, Sync, Schedule
  <2>4. cooling' = cooling
    BY <1>1 DEF request
  <2>5. registered' \in BOOLEAN
    BY <2>3 DEF TInv, MenuInv
  <2> QED BY <1>1, <2>1, <2>2, <2>3, <2>4, <2>5 DEF TInv, MenuInv
<1> QED BY <1>2, <1>3, <1>4 DEF TInv

LEMMA JoinStep ==
  ASSUME TInv, NEW g \in Guilds, OnGuildJoin(g), UNCHANGED <<plan, request, boots>>
  PROVE  TInv'
<1>1. RequestInv'
  BY RequestStays DEF TInv, request, replies
<1>2. DictInv'
  BY ReplaceStep DEF TInv, OnGuildJoin
<1>3. MenuInv'
  <2>1. /\ guilds' = guilds \union {g} /\ registered' = FALSE /\ missed' \subseteq missed \union {g}
        /\ UNCHANGED <<gids, served, plan, boots, cooling>>
    BY DEF OnGuildJoin, request
  <2>2. task' \in {task, "ready"}
    BY DEF OnGuildJoin, Schedule
  <2> QED BY <2>1, <2>2 DEF TInv, MenuInv
<1> QED BY <1>1, <1>2, <1>3 DEF TInv

\* What the type invariant and the invariants of the runs say of a state.
LEMMA Consequences == TInv => TypeOK /\ FoundInCalm /\ OneReply /\ Truthful
<1> SUFFICES ASSUME TInv
             PROVE  TypeOK /\ FoundInCalm /\ OneReply /\ Truthful
  OBVIOUS
<1>1. ASSUME NEW r \in Calls
      PROVE  /\ images[r] \in 0..Shape[r].images /\ kept[r] \in 0..Shape[r].images
             /\ chunks[r] \in 0..Shape[r].chunks /\ said[r] \in Nat
             /\ unheard[r] \in 0..said[r]
  BY ShapeAssumption DEF TInv, RequestInv, RequestType, WorkInv, ReplyInv
<1>2. TypeOK
  BY <1>1 DEF TInv, DictInv, RequestInv, RequestType, MenuInv, TypeOK
<1>3. FoundInCalm
  BY CalmFinds DEF TInv
<1>4. OneReply
  BY DEF TInv, RequestInv, ReplyInv, OneReply
<1>5. Truthful
  BY DEF TInv, RequestInv, SayInv, LangInv, Truthful
<1> QED BY <1>2, <1>3, <1>4, <1>5

LEMMA Start == Init => TInv
<1> SUFFICES ASSUME Init
             PROVE  TInv
  OBVIOUS
<1>1. DictInv
  BY DictStart DEF Init
<1>2. RequestType
  <2>1. /\ images \in [Calls -> Nat] /\ chunks \in [Calls -> Nat] /\ dual \in [Calls -> BOOLEAN]
    BY ShapeAssumption DEF Init
  <2>2. /\ pc \in [Calls -> Waiting \union {"off", "done"}] /\ override \in [Calls -> BOOLEAN]
        /\ lang \in [Calls -> {"asked", "default", None}] /\ kept \in [Calls -> Nat]
        /\ seen \in [Calls -> {"none", "failed", "ok"}] /\ verdict \in [Calls -> {"result", "same", "none"}]
    BY DEF Init
  <2>3. /\ said \in [Calls -> Nat] /\ unheard \in [Calls -> Nat] /\ upset \in [Calls -> BOOLEAN]
        /\ told \in [Calls -> SUBSET {"hit", "result", "same", "none", "busy", "error"}]
        /\ word \in [Calls -> {"error", "same", "new", None}]
    BY DEF Init
  <2> QED BY <2>1, <2>2, <2>3 DEF RequestType
<1>3. ASSUME NEW r \in Calls
      PROVE  WorkInv(r) /\ ReplyInv(r) /\ SayInv(r) /\ LangInv(r)
  <2>1. /\ pc[r] \in {"off", "done"} /\ ~override[r] /\ lang[r] = None /\ images[r] = Shape[r].images
        /\ kept[r] = 0 /\ chunks[r] = Shape[r].chunks /\ verdict[r] = "result" /\ said[r] = 0
        /\ told[r] = {} /\ unheard[r] = 0
    BY DEF Init
  <2>2. WorkInv(r) /\ ReplyInv(r)
    BY <2>1, ShapeAssumption DEF WorkInv, ReplyInv
  <2>3. SayInv(r) /\ LangInv(r)
    BY <2>1 DEF SayInv, LangInv
  <2> QED BY <2>2, <2>3
<1>4. MenuInv
  <2>1. plan \in Plans /\ boots \in 0..MaxBoots /\ plan.settled \in BOOLEAN
    BY ShapeAssumption, DictAssumption DEF Init
  <2>2. registered \in BOOLEAN
    BY <2>1 DEF Init
  <2> QED BY <2>1, <2>2, ShapeAssumption DEF Init, MenuInv
<1> QED BY <1>1, <1>2, <1>3, <1>4 DEF TInv, RequestInv

LEMMA Steps == TInv /\ [Next]_vars => TInv'
<1> SUFFICES ASSUME TInv, [Next]_vars
             PROVE  TInv'
  OBVIOUS
<1>1. ASSUME NEW r \in Calls, Invoke(r), UNCHANGED <<plan, menus, boots>>
      PROVE  TInv'
  <2>1. DictInv'
    BY <1>1, DictStays DEF TInv, DictInv, Invoke, Silent, NoDict
  <2>2. cooling' \subseteq cooling \union {Clock(r)}
    BY <1>1 DEF Invoke
  <2>3. MenuInv'
    BY <1>1, <2>2 DEF TInv, MenuInv, menus
  <2> QED BY <1>1, <2>1, <2>3, InvokeStep DEF TInv
<1>2. ASSUME NEW c \in cooling, Cool(c), UNCHANGED <<plan, menus, boots>>
      PROVE  TInv'
  <2>1. DictInv'
    BY <1>2, DictStays DEF TInv, DictInv, Cool, Silent, NoDict
  <2>2. MenuInv'
    BY <1>2 DEF TInv, MenuInv, menus, Cool
  <2>3. RequestInv'
    BY <1>2, RequestStays DEF TInv, Cool, Silent, Work, replies
  <2> QED BY <2>1, <2>2, <2>3 DEF TInv
<1>3. ASSUME NEW r \in Calls, Request(r)
      PROVE  TInv'
  <2>1. UNCHANGED <<plan, menus, boots, cooling>>
    BY <1>3 DEF Request, Defer, Fetch, Looked, Read, Vision, Model, Whole, Sorry, Ask, Answer
  <2>2. MenuInv'
    BY <2>1 DEF TInv, MenuInv, menus
  <2> QED BY <1>3, <2>2, RequestStep, RequestDict DEF TInv
<1>4. CASE DictStep
  <2>1. DictInv'
    BY <1>4, DownloadStep, LookupStep, PublishStep DEF TInv, DictStep
  <2>2. RequestInv'
    BY <1>4, RequestStays DEF TInv, DictStep, request, replies
  <2>3. MenuInv'
    BY <1>4 DEF TInv, DictStep, MenuInv, menus, request
  <2> QED BY <2>1, <2>2, <2>3 DEF TInv
<1>5. CASE Restart
  <2>1. DictInv'
    BY <1>5, RestartStep DEF TInv, Restart
  <2>2. MenuInv'
    <3>1. boots' \in 0..MaxBoots
      BY <1>5, ShapeAssumption, DictAssumption DEF TInv, MenuInv, Restart
    <3> QED BY <1>5, <3>1 DEF TInv, MenuInv, Restart
  <2> QED BY <1>5, <2>1, <2>2, RequestRestart DEF TInv
<1>6. CASE UNCHANGED vars
  <2>1. DictInv'
    BY <1>6, DictStays DEF TInv, DictInv, vars
  <2>2. RequestInv'
    BY <1>6, RequestStays DEF TInv, vars, request, replies
  <2>3. MenuInv'
    BY <1>6 DEF TInv, MenuInv, vars, menus, request
  <2> QED BY <2>1, <2>2, <2>3 DEF TInv
<1> QED BY <1>1, <1>2, <1>3, <1>4, <1>5, <1>6, RegistrationStep, JoinStep DEF Next, Outside

LEMMA Invariance == Spec => []TInv
BY Start, Steps, PTL DEF Spec

-----------------------------------------------------------------------------
\* Every variable has its type: no request reads an image or translates a chunk it does
\* not have, and the menus go to guilds the bot is in.
THEOREM TypeCorrect == Spec => []TypeOK
BY Invariance, Consequences, PTL

\* However downloads, lookups on threads and index builders interleave: while nothing
\* failed, no dictionary was uploaded, the store was never replaced and no unfinished index
\* was met, a lookup finds every word the dictionary has.
THEOREM WordsFound == Spec => []FoundInCalm
BY Invariance, Consequences, PTL

\* Whatever fails where, a request is answered once, and once more at most for each answer
\* Discord took and the process did not hear of.
THEOREM RepliesOnce == Spec => []OneReply
BY Invariance, Consequences, PTL

\* "Already in that language" and "no text" have their causes at every later time, too, and
\* the request of a menu for one language translates to it, the plain menu's does not.
THEOREM TellsTruth == Spec => []Truthful
BY Invariance, Consequences, PTL
=============================================================================
