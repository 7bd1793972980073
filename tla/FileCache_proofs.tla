--------------------------- MODULE FileCache_proofs ---------------------------
(***************************************************************************)
(* Which stale texts may stay in the cache, for any files, threads, texts  *)
(* and limits.  The property is not inductive: it does not say where the   *)
(* length and the time an entry is compared by come from.  The invariant   *)
(* adds that, unless the file was written in between, they are those of a  *)
(* text the file has had, in the cache and in the hands of a thread that   *)
(* is about to put them there.                                             *)
(*                                                                         *)
(* Then that the cache settles within its limits.  This needs what every   *)
(* thread is on its way to do: that one which has put an entry there will  *)
(* evict with all entries in its list, and, as long as no two calls have   *)
(* overlapped, what it has counted so far and how the stored usage and     *)
(* that of the entries compare.                                            *)
(***************************************************************************)
EXTENDS FileCache, SumTheorems, FiniteSetTheorems, TLAPS

Versions == [text : Texts, modified : Nat]

Entries == [text : Texts, modified : Nat, size : Nat, accessed : Nat, raced : BOOLEAN]

Reading == {"metadata", "insert"}

Places ==
    {"idle", "remove", "read", "count", "evict if needed", "look at count", "collect",
     "evict", "evict one", "nothing evicted", "clear"} \cup Reading

CacheTypes ==
    /\ clock \in Nat
    /\ disk \in [Files -> Versions \cup {Gone}]
    /\ past \in [Files -> SUBSET (Versions \cup {Gone})]
    /\ DOMAIN cache \subseteq Files
    /\ \A f \in DOMAIN cache : cache[f] \in Entries
    /\ pc \in [Threads -> Places]
    /\ then \in [Threads -> Places \ Reading]
    /\ DOMAIN file = Threads
    /\ \A t \in Threads : pc[t] # "idle" => file[t] \in Files
    /\ DOMAIN found = Threads /\ DOMAIN size = Threads
    /\ raced \in [Threads -> BOOLEAN]

(* The file has had that text, with that time and that length.             *)
Known(f, text, modified, length) ==
    \E v \in past[f] \ {Gone} :
        v.text = text /\ v.modified = modified /\ Length[v.text] = length

DiskKnown == \A f \in Files : disk[f] \in past[f]

ReadOf(t) ==
    /\ pc[t] \in Reading => found[t] \in Versions
    /\ pc[t] = "metadata" /\ ~raced[t] => found[t] = disk[file[t]]
    /\ pc[t] = "insert" => size[t] \in Nat
    /\ pc[t] = "insert" /\ ~raced[t] =>
          Known(file[t], found[t].text, found[t].modified, size[t])

KeptOf(f) ==
    ~cache[f].raced => Known(f, cache[f].text, cache[f].modified, cache[f].size)

Caching ==
    /\ CacheTypes
    /\ DiskKnown
    /\ \A t \in Threads : ReadOf(t)
    /\ \A f \in DOMAIN cache : KeptOf(f)

-----------------------------------------------------------------------------

(* An empty cache keeps nothing of any file.                               *)
LEMMA CachingInit == Init => Caching
  <1> SUFFICES ASSUME Init PROVE Caching
    OBVIOUS
  <1>1. /\ disk \in [Files -> Versions \cup {Gone}]
        /\ past = [f \in Files |-> {disk[f]}]
        /\ \A t \in Threads : pc[t] = "idle"
    <2>1. PICK l \in Layouts : disk = [f \in Files |-> [text |-> l[f], modified |-> 0]]
      BY DEF Init
    <2>2. l \in [Files -> Texts]
      BY CacheAssumption DEF CacheAssumption
    <2> QED
      BY <2>1, <2>2 DEF Init, Versions
  <1>2. DOMAIN cache = {}
    BY DEF Init
  <1>3. CacheTypes
    BY <1>1, <1>2 DEF Init, CacheTypes, Places, Reading
  <1>4. DiskKnown
    BY <1>1 DEF DiskKnown
  <1>5. \A t \in Threads : ReadOf(t)
    BY <1>1 DEF ReadOf, Reading
  <1> QED
    BY <1>2, <1>3, <1>4, <1>5 DEF Caching

(* What a file has had it has had later on.                                *)
LEMMA KnownLater ==
    ASSUME NEW f, past[f] \subseteq past'[f], NEW text, NEW modified, NEW length,
           Known(f, text, modified, length)
    PROVE  Known(f, text, modified, length)'
  BY DEF Known

(* A step that reads nothing and puts nothing into the cache.              *)
LEMMA Quietly ==
    ASSUME Caching, CacheTypes', UNCHANGED <<disk, past>>,
           \A f \in DOMAIN cache' :
               /\ f \in DOMAIN cache
               /\ cache'[f].text = cache[f].text
               /\ cache'[f].modified = cache[f].modified
               /\ cache'[f].size = cache[f].size
               /\ cache'[f].raced = cache[f].raced,
           \A t \in Threads : pc'[t] \in Reading =>
               /\ pc[t] = pc'[t] /\ file'[t] = file[t]
               /\ found'[t] = found[t] /\ size'[t] = size[t] /\ raced'[t] = raced[t]
    PROVE  Caching'
  <1>1. DiskKnown'
    BY DEF Caching, DiskKnown
  <1>2. ASSUME NEW t \in Threads PROVE ReadOf(t)'
    <2>1. CASE pc'[t] \in Reading
      <3>1. ReadOf(t)
        BY DEF Caching
      <3> QED
        BY <2>1, <3>1 DEF ReadOf, Known
    <2>2. CASE pc'[t] \notin Reading
      BY <2>2 DEF ReadOf, Reading
    <2> QED
      BY <2>1, <2>2
  <1>3. ASSUME NEW f \in DOMAIN cache' PROVE KeptOf(f)'
    <2>1. f \in DOMAIN cache /\ KeptOf(f)
      BY <1>3 DEF Caching
    <2> QED
      BY <2>1, <1>3 DEF KeptOf, Known
  <1> QED
    BY <1>1, <1>2, <1>3 DEF Caching

(* Whatever is written, what was read and kept is what the file has had.   *)
LEMMA WorldKeeps == ASSUME Caching, World PROVE Caching'
  <1>1. UNCHANGED <<cache, pc, file, found, size, then>>
    BY DEF World, countVars
  <1>2. CASE Tick
    <2>1. CacheTypes'
      BY <1>1, <1>2 DEF Tick, Caching, CacheTypes
    <2> QED
      BY <1>1, <1>2, <2>1, Quietly DEF Tick, Caching
  <1>3. ASSUME NEW g \in Files, Write(g) PROVE Caching'
    <2>1. PICK v \in Versions \cup {Gone} : disk' = [disk EXCEPT ![g] = v]
      <3>1. CASE disk' = [disk EXCEPT ![g] = Gone]
        BY <3>1
      <3>2. ASSUME NEW x \in Texts, NEW m \in 0 .. clock,
                   disk' = [disk EXCEPT ![g] = [text |-> x, modified |-> m]]
            PROVE  \E v \in Versions \cup {Gone} : disk' = [disk EXCEPT ![g] = v]
        <4>1. [text |-> x, modified |-> m] \in Versions
          BY DEF Versions, Caching, CacheTypes
        <4> QED
          BY <3>2, <4>1
      <3> QED
        BY <1>3, <3>1, <3>2 DEF Write
    <2>2. /\ past' = [past EXCEPT ![g] = @ \cup {disk'[g]}]
          /\ raced' = [t \in Threads |-> raced[t] \/ (pc[t] = "metadata" /\ file[t] = g)]
          /\ clock' = clock
      BY <1>3 DEF Write
    <2>3. disk \in [Files -> Versions \cup {Gone}]
          /\ past \in [Files -> SUBSET (Versions \cup {Gone})]
      BY DEF Caching, CacheTypes
    <2>4. /\ disk' \in [Files -> Versions \cup {Gone}]
          /\ past' \in [Files -> SUBSET (Versions \cup {Gone})]
          /\ raced' \in [Threads -> BOOLEAN]
      BY <2>1, <2>2, <2>3
    <2>5. CacheTypes'
      BY <1>1, <2>2, <2>4 DEF Caching, CacheTypes
    <2>6. \A f \in Files : past[f] \subseteq past'[f]
      BY <2>2, <2>3
    <2>7. DiskKnown'
      BY <2>1, <2>2, <2>3 DEF Caching, DiskKnown
    <2>8. ASSUME NEW t \in Threads PROVE ReadOf(t)'
      <3>1. ReadOf(t) /\ (pc[t] # "idle" => file[t] \in Files)
        BY DEF Caching, CacheTypes
      <3>2. CASE pc[t] = "metadata"
        <4>1. ~raced'[t] => ~raced[t] /\ file[t] # g
          BY <2>2, <3>2
        <4>2. file[t] # g => disk'[file[t]] = disk[file[t]]
          BY <2>1, <2>3, <3>1, <3>2
        <4> QED
          BY <1>1, <3>1, <3>2, <4>1, <4>2 DEF ReadOf
      <3>3. CASE pc[t] = "insert"
        <4>1. raced'[t] = raced[t]
          BY <2>2, <3>3 DEF Caching, CacheTypes
        <4>2. past[file[t]] \subseteq past'[file[t]]
          BY <2>6, <3>1, <3>3
        <4> QED
          BY <1>1, <3>1, <3>3, <4>1, <4>2 DEF ReadOf, Known
      <3>4. CASE pc[t] \notin Reading
        BY <1>1, <3>4 DEF ReadOf, Reading
      <3> QED
        BY <3>2, <3>3, <3>4 DEF Reading
    <2>9. ASSUME NEW f \in DOMAIN cache' PROVE KeptOf(f)'
      <3>1. f \in DOMAIN cache /\ f \in Files /\ KeptOf(f)
        BY <1>1, <2>9 DEF Caching, CacheTypes
      <3>2. past[f] \subseteq past'[f]
        BY <2>6, <3>1
      <3> QED
        BY <1>1, <3>1, <3>2 DEF KeptOf, Known
    <2> QED
      BY <2>5, <2>7, <2>8, <2>9 DEF Caching
  <1> QED
    BY <1>2, <1>3 DEF World

(* A step of a thread that goes to no reading place, and at most takes     *)
(* something out of the cache.                                             *)
LEMMA ThreadQuietly ==
    ASSUME Caching, NEW t \in Threads, NEW to \in Places \ Reading,
           UNCHANGED <<diskVars, found, size, raced>>,
           pc' = [pc EXCEPT ![t] = to],
           file' = file \/ (\E f \in Files : pc[t] = "idle" /\ file' = [file EXCEPT ![t] = f]),
           to # "idle" => file'[t] \in Files,
           then' \in [Threads -> Places \ Reading],
           cache' = cache \/ \E f : cache' = Removed(f)
    PROVE  Caching'
  <1>1. UNCHANGED <<clock, disk, past>>
    BY DEF diskVars
  <1>2. pc \in [Threads -> Places] /\ DOMAIN file = Threads
    BY DEF Caching, CacheTypes
  <1>3. \A u \in Threads : u # t => pc'[u] = pc[u] /\ file'[u] = file[u]
    BY <1>2
  <1>4. pc'[t] = to /\ pc' \in [Threads -> Places] /\ DOMAIN file' = Threads
    BY <1>2
  <1>5. \A f \in DOMAIN cache' : f \in DOMAIN cache /\ cache'[f] = cache[f]
    BY DEF Removed
  <1>6. CacheTypes'
    <2>1. ASSUME NEW u \in Threads, pc'[u] # "idle" PROVE file'[u] \in Files
      BY <1>3, <1>4, <2>1 DEF Caching, CacheTypes
    <2> QED
      BY <1>1, <1>4, <1>5, <2>1 DEF Caching, CacheTypes
  <1>7. \A u \in Threads : pc'[u] \in Reading => pc[u] = pc'[u] /\ file'[u] = file[u]
    BY <1>3, <1>4
  <1> QED
    BY <1>1, <1>5, <1>6, <1>7, Quietly

(* What begins a call reads nothing yet; a hit only renews its time.       *)
LEMMA BeginKeeps ==
    ASSUME Caching, NEW t \in Threads, NEW f \in Files,
           Hit(t, f) \/ FindStale(t, f) \/ Miss(t, f) \/ Invalidate(t, f)
    PROVE  Caching'
  <1>1. CASE Hit(t, f)
    <2>1. /\ pc[t] = "idle" /\ file' = [file EXCEPT ![t] = f]
          /\ f \in DOMAIN cache /\ cache' = [cache EXCEPT ![f].accessed = clock]
          /\ UNCHANGED <<clock, disk, past, pc, found, size, raced, then>>
      BY <1>1 DEF Hit, Begin, diskVars, readVars, countVars
    <2>2. /\ cache[f] \in Entries /\ clock \in Nat
          /\ DOMAIN cache' = DOMAIN cache
          /\ \A g \in DOMAIN cache : g # f => cache'[g] = cache[g]
          /\ cache'[f] = [cache[f] EXCEPT !.accessed = clock]
      BY <2>1 DEF Caching, CacheTypes
    <2>3. /\ cache'[f] \in Entries
          /\ cache'[f].text = cache[f].text /\ cache'[f].modified = cache[f].modified
          /\ cache'[f].size = cache[f].size /\ cache'[f].raced = cache[f].raced
      BY <2>2 DEF Entries
    <2>4. /\ DOMAIN file' = Threads /\ file'[t] = f
          /\ \A u \in Threads : u # t => file'[u] = file[u]
      BY <2>1 DEF Caching, CacheTypes
    <2>5. CacheTypes'
      <3>1. \A g \in DOMAIN cache' : cache'[g] \in Entries
        BY <2>2, <2>3 DEF Caching, CacheTypes
      <3> QED
        BY <2>1, <2>2, <2>4, <3>1 DEF Caching, CacheTypes
    <2>6. \A u \in Threads : pc'[u] \in Reading => pc[u] = pc'[u] /\ file'[u] = file[u]
      BY <2>1, <2>4 DEF Reading
    <2> QED
      BY <2>1, <2>2, <2>3, <2>5, <2>6, Quietly
  <1>2. ASSUME NEW to \in {"read", "remove"}, NEW next \in {"read", "idle", then[t]},
               pc[t] = "idle", file' = [file EXCEPT ![t] = f],
               pc' = [pc EXCEPT ![t] = to], then' = [then EXCEPT ![t] = next],
               UNCHANGED <<diskVars, cache, found, size, raced>>
        PROVE  Caching'
    <2>1. then' \in [Threads -> Places \ Reading]
      BY <1>2 DEF Caching, CacheTypes, Places, Reading
    <2>2. to \in Places \ Reading
      BY DEF Places, Reading
    <2>3. file'[t] \in Files
      BY <1>2 DEF Caching, CacheTypes
    <2> QED
      BY <1>2, <2>1, <2>2, <2>3, ThreadQuietly
  <1>3. then = [then EXCEPT ![t] = then[t]]
    BY DEF Caching, CacheTypes
  <1>4. CASE FindStale(t, f)
    BY <1>2, <1>4 DEF FindStale, Begin, readVars
  <1>5. CASE Miss(t, f)
    BY <1>2, <1>3, <1>5 DEF Miss, Begin, readVars, countVars
  <1>6. CASE Invalidate(t, f)
    BY <1>2, <1>6 DEF Invalidate, Begin, readVars
  <1> QED
    BY <1>1, <1>4, <1>5, <1>6

(* Beginning to clear keeps the invariant.                                 *)
LEMMA ClearKeeps ==
    ASSUME Caching, NEW t \in Threads, Clear(t)
    PROVE  Caching'
  <1>1. PICK f \in Files : Begin(t, f)
    BY DEF Clear
  <1>2. /\ pc[t] = "idle" /\ file' = [file EXCEPT ![t] = f]
        /\ pc' = [pc EXCEPT ![t] = "clear"]
        /\ UNCHANGED <<diskVars, cache, found, size, raced, then>>
    BY <1>1 DEF Clear, Begin, readVars
  <1>3. file'[t] \in Files /\ then' \in [Threads -> Places \ Reading]
    BY <1>2 DEF Caching, CacheTypes
  <1>4. "clear" \in Places \ Reading
    BY DEF Places, Reading
  <1> QED
    BY <1>2, <1>3, <1>4, ThreadQuietly

(* The steps of a call between its beginning and its end, but for the      *)
(* three that read a file and keep what was read.                          *)
LEMMA StepKeeps ==
    ASSUME Caching, NEW t \in Threads,
           \/ Forget(t) \/ CountShard(t) \/ StoreUsage(t) \/ Fail(t)
           \/ LooksAtUsage(t) \/ LooksAtCount(t)
           \/ CollectShard(t) \/ StartEviction(t) \/ Evict(t) \/ EvictOne(t) \/ Evicted(t)
           \/ ClearShard(t) \/ ResetUsage(t)
    PROVE  Caching'
  <1>1. ASSUME NEW to \in Places \ Reading, NEW next \in Places \ Reading,
               pc[t] # "idle", pc' = [pc EXCEPT ![t] = to],
               then' = [then EXCEPT ![t] = next],
               UNCHANGED <<diskVars, file, found, size, raced>>,
               cache' = cache \/ \E f : cache' = Removed(f)
        PROVE  Caching'
    <2>1. then' \in [Threads -> Places \ Reading]
      BY <1>1 DEF Caching, CacheTypes
    <2>2. file'[t] \in Files
      BY <1>1 DEF Caching, CacheTypes
    <2> QED
      BY <1>1, <2>1, <2>2, ThreadQuietly
  <1>2. /\ then = [then EXCEPT ![t] = then[t]] /\ then[t] \in Places \ Reading
        /\ pc = [pc EXCEPT ![t] = pc[t]]
    BY DEF Caching, CacheTypes
  <1>3. {"idle", "count", "look at count", "collect", "evict", "evict one", "clear",
         "evict if needed", "nothing evicted"} \subseteq Places \ Reading
    BY DEF Places, Reading
  <1> USE DEF Goto, Count, readVars, countVars
  <1>4. CASE Forget(t)
    BY <1>1, <1>2, <1>3, <1>4 DEF Forget
  <1>5. CASE CountShard(t)
    BY <1>1, <1>2, <1>3, <1>5 DEF CountShard
  <1>6. CASE StoreUsage(t)
    BY <1>1, <1>2, <1>3, <1>6 DEF StoreUsage
  <1>7. CASE Fail(t)
    BY <1>1, <1>2, <1>3, <1>7 DEF Fail
  <1>8. CASE LooksAtUsage(t)
    BY <1>1, <1>2, <1>3, <1>8 DEF LooksAtUsage
  <1>9. CASE LooksAtCount(t)
    BY <1>1, <1>2, <1>3, <1>9 DEF LooksAtCount
  <1>10. CASE CollectShard(t)
    BY <1>1, <1>2, <1>3, <1>10 DEF CollectShard
  <1>11. CASE StartEviction(t)
    BY <1>1, <1>2, <1>3, <1>11 DEF StartEviction
  <1>12. CASE Evict(t)
    BY <1>1, <1>2, <1>3, <1>12 DEF Evict
  <1>13. CASE EvictOne(t)
    BY <1>1, <1>2, <1>3, <1>13 DEF EvictOne
  <1>14. CASE Evicted(t)
    BY <1>1, <1>2, <1>3, <1>14 DEF Evicted
  <1>15. CASE ClearShard(t)
    BY <1>1, <1>2, <1>3, <1>15 DEF ClearShard
  <1>16. CASE ResetUsage(t)
    BY <1>1, <1>2, <1>3, <1>16 DEF ResetUsage
  <1> QED
    BY <1>4, <1>5, <1>6, <1>7, <1>8, <1>9, <1>10, <1>11, <1>12, <1>13, <1>14, <1>15, <1>16

(* What was read is what the file is, until somebody writes it.            *)
LEMMA ReadKeeps ==
    ASSUME Caching, NEW t \in Threads, Read(t)
    PROVE  Caching'
  <1>1. /\ pc[t] = "read" /\ pc' = [pc EXCEPT ![t] = "metadata"]
        /\ disk[file[t]] # Gone /\ found' = [found EXCEPT ![t] = disk[file[t]]]
        /\ raced' = [raced EXCEPT ![t] = FALSE]
        /\ UNCHANGED <<clock, disk, past, cache, file, size, then>>
    BY DEF Read, Goto, diskVars, countVars
  <1>2. file[t] \in Files /\ disk[file[t]] \in Versions
    BY <1>1 DEF Caching, CacheTypes
  <1>3. \A u \in Threads : u # t =>
          pc'[u] = pc[u] /\ found'[u] = found[u] /\ raced'[u] = raced[u]
    BY <1>1 DEF Caching, CacheTypes
  <1>4. pc'[t] = "metadata" /\ found'[t] = disk[file[t]]
    BY <1>1 DEF Caching, CacheTypes
  <1>5. CacheTypes'
    <2>1. \A u \in Threads : pc'[u] # "idle" => file'[u] \in Files
      BY <1>1, <1>2, <1>3 DEF Caching, CacheTypes
    <2>2. pc' \in [Threads -> Places] /\ raced' \in [Threads -> BOOLEAN]
      BY <1>1 DEF Caching, CacheTypes, Places, Reading
    <2> QED
      BY <1>1, <2>1, <2>2 DEF Caching, CacheTypes
  <1>6. ASSUME NEW u \in Threads PROVE ReadOf(u)'
    <2>1. CASE u = t
      BY <1>1, <1>2, <1>4, <2>1 DEF ReadOf
    <2>2. CASE u # t
      <3>1. ReadOf(u)
        BY DEF Caching
      <3> QED
        BY <1>1, <1>3, <2>2, <3>1 DEF ReadOf, Known
    <2> QED
      BY <2>1, <2>2
  <1> QED
    BY <1>1, <1>5, <1>6 DEF Caching, DiskKnown, KeptOf, Known

(* The metadata that are put with it are those it had when it was read.    *)
LEMMA MetadataKeeps ==
    ASSUME Caching, NEW t \in Threads, ReadMetadata(t)
    PROVE  Caching'
  <1>1. /\ pc[t] = "metadata" /\ pc' = [pc EXCEPT ![t] = "insert"]
        /\ disk[file[t]] # Gone
        /\ found' = [found EXCEPT ![t].modified = disk[file[t]].modified]
        /\ size' = [size EXCEPT ![t] = Length[disk[file[t]].text]]
        /\ UNCHANGED <<clock, disk, past, cache, file, raced, then>>
    BY DEF ReadMetadata, Goto, diskVars, countVars
  <1>2. file[t] \in Files /\ disk[file[t]] \in Versions /\ disk[file[t]] \in past[file[t]]
    BY <1>1 DEF Caching, CacheTypes, DiskKnown
  <1>3. \A u \in Threads : u # t =>
          pc'[u] = pc[u] /\ found'[u] = found[u] /\ size'[u] = size[u]
    BY <1>1 DEF Caching, CacheTypes
  <1>4. /\ pc'[t] = "insert" /\ size'[t] = Length[disk[file[t]].text]
        /\ found'[t] = [found[t] EXCEPT !.modified = disk[file[t]].modified]
    BY <1>1 DEF Caching, CacheTypes
  <1>5. found[t] \in Versions /\ (~raced[t] => found[t] = disk[file[t]])
    BY <1>1 DEF Caching, ReadOf, Reading
  <1>6. CacheTypes'
    <2>1. \A u \in Threads : pc'[u] # "idle" => file'[u] \in Files
      BY <1>1, <1>2, <1>3 DEF Caching, CacheTypes
    <2>2. pc' \in [Threads -> Places]
      BY <1>1 DEF Caching, CacheTypes, Places, Reading
    <2> QED
      BY <1>1, <2>1, <2>2 DEF Caching, CacheTypes
  <1>7. ASSUME NEW u \in Threads PROVE ReadOf(u)'
    <2>1. CASE u = t
      <3>1. found'[t] \in Versions /\ size'[t] \in Nat
        BY <1>2, <1>4, <1>5, CacheAssumption DEF Versions, CacheAssumption
      <3>2. ASSUME ~raced'[t]
            PROVE  Known(file[t], found[t].text, found[t].modified, size'[t])
        BY <1>1, <1>2, <1>4, <1>5, <3>2 DEF Known
      <3>3. ~raced'[t] => found'[t].text = found[t].text /\ found'[t].modified = found[t].modified
        BY <1>1, <1>4, <1>5 DEF Versions
      <3> QED
        BY <1>1, <1>4, <2>1, <3>1, <3>2, <3>3 DEF ReadOf, Known
    <2>2. CASE u # t
      <3>1. ReadOf(u)
        BY DEF Caching
      <3> QED
        BY <1>1, <1>3, <2>2, <3>1 DEF ReadOf, Known
    <2> QED
      BY <2>1, <2>2
  <1> QED
    BY <1>1, <1>6, <1>7 DEF Caching, DiskKnown, KeptOf, Known

(* An entry is what was read.                                              *)
LEMMA InsertKeeps ==
    ASSUME Caching, NEW t \in Threads, Insert(t)
    PROVE  Caching'
  <1>1. /\ pc[t] = "insert" /\ pc' = [pc EXCEPT ![t] = "count"]
        /\ cache' = [f \in DOMAIN cache \cup {file[t]} |-> IF f = file[t] THEN Entry(t) ELSE cache[f]]
        /\ then' = [then EXCEPT ![t] = "evict if needed"]
        /\ UNCHANGED <<clock, disk, past, file, found, size, raced>>
    BY DEF Insert, Goto, Count, diskVars, readVars
  <1>2. /\ file[t] \in Files /\ found[t] \in Versions /\ size[t] \in Nat /\ clock \in Nat
        /\ raced[t] \in BOOLEAN
        /\ ~raced[t] => Known(file[t], found[t].text, found[t].modified, size[t])
    BY <1>1 DEF Caching, CacheTypes, ReadOf, Reading
  <1>3. Entry(t) \in Entries
    BY <1>2 DEF Entry, Entries, Versions
  <1>4. \A u \in Threads : u # t => pc'[u] = pc[u]
    BY <1>1 DEF Caching, CacheTypes
  <1>5. pc'[t] = "count"
    BY <1>1 DEF Caching, CacheTypes
  <1>6. CacheTypes'
    <2>1. \A u \in Threads : pc'[u] # "idle" => file'[u] \in Files
      BY <1>1, <1>2, <1>4 DEF Caching, CacheTypes
    <2>2. pc' \in [Threads -> Places] /\ then' \in [Threads -> Places \ Reading]
      BY <1>1 DEF Caching, CacheTypes, Places, Reading
    <2>3. DOMAIN cache' \subseteq Files /\ \A f \in DOMAIN cache' : cache'[f] \in Entries
      BY <1>1, <1>2, <1>3 DEF Caching, CacheTypes
    <2> QED
      BY <1>1, <2>1, <2>2, <2>3 DEF Caching, CacheTypes
  <1>7. ASSUME NEW u \in Threads PROVE ReadOf(u)'
    <2>1. CASE u = t
      BY <1>5, <2>1 DEF ReadOf, Reading
    <2>2. CASE u # t
      <3>1. ReadOf(u)
        BY DEF Caching
      <3> QED
        BY <1>1, <1>4, <2>2, <3>1 DEF ReadOf, Known
    <2> QED
      BY <2>1, <2>2
  <1>8. ASSUME NEW f \in DOMAIN cache' PROVE KeptOf(f)'
    <2>1. CASE f = file[t]
      <3>1. cache'[f] = Entry(t)
        BY <1>1, <2>1
      <3> QED
        BY <1>1, <1>2, <2>1, <3>1 DEF KeptOf, Known, Entry
    <2>2. CASE f # file[t]
      <3>1. f \in DOMAIN cache /\ cache'[f] = cache[f]
        BY <1>1, <1>8, <2>2
      <3>2. KeptOf(f)
        BY <3>1 DEF Caching
      <3> QED
        BY <1>1, <3>1, <3>2 DEF KeptOf, Known
    <2> QED
      BY <2>1, <2>2
  <1> QED
    BY <1>1, <1>6, <1>7, <1>8 DEF Caching, DiskKnown

-----------------------------------------------------------------------------

(* Every step keeps the invariant.                                         *)
LEMMA CachingNext == Caching /\ [Next]_vars => Caching'
  <1> SUFFICES ASSUME Caching, [Next]_vars PROVE Caching'
    OBVIOUS
  <1>1. CASE UNCHANGED vars
    <2>1. UNCHANGED <<clock, disk, past, cache, pc, file, found, size, raced, then>>
      BY <1>1 DEF vars, diskVars, readVars, countVars
    <2>2. CacheTypes'
      BY <2>1 DEF Caching, CacheTypes
    <2> QED
      BY <2>1, <2>2, Quietly
  <1>2. CASE World
    BY <1>2, WorldKeeps
  <1>3. ASSUME NEW t \in Threads, NEW f \in Files,
               Hit(t, f) \/ FindStale(t, f) \/ Miss(t, f) \/ Invalidate(t, f)
        PROVE  Caching'
    BY <1>3, BeginKeeps
  <1>4. ASSUME NEW t \in Threads, Clear(t) PROVE Caching'
    BY <1>4, ClearKeeps
  <1>5. ASSUME NEW t \in Threads, Step(t) PROVE Caching'
    BY <1>5, StepKeeps, ReadKeeps, MetadataKeeps, InsertKeeps DEF Step
  <1> QED
    BY <1>1, <1>2, <1>3, <1>4, <1>5 DEF Next

(* The inductive invariant behind the next one: unless somebody wrote the  *)
(* file while it was read, the text, the time and the length that are kept *)
(* of it, or are about to be, are those it had at one moment.              *)
THEOREM CachingInvariant == Spec => []Caching
  BY CachingInit, CachingNext, PTL DEF Spec

(* A text that is kept is the file's, or is_stale will say that it is not, *)
(* unless the file looks unchanged or was written while it was read:       *)
(* whatever threads store, evict, invalidate and clear at the same time.   *)
THEOREM StaleNoticed == Spec => []StaleIsNoticed
  <1>1. Caching => StaleIsNoticed
    <2> SUFFICES ASSUME Caching, NEW f \in DOMAIN cache, ~IsStale(f), ~cache[f].raced
                 PROVE  LooksUnchanged(f)
      BY DEF StaleIsNoticed
    <2>1. PICK v \in past[f] \ {Gone} :
            v.text = cache[f].text /\ v.modified = cache[f].modified
              /\ Length[v.text] = cache[f].size
      BY DEF Caching, KeptOf, Known
    <2>2. /\ disk[f].modified <= cache[f].modified
          /\ Length[disk[f].text] = cache[f].size
      BY DEF IsStale
    <2>3. v.modified >= disk[f].modified
      <3>1. disk[f] \in Versions /\ v \in Versions
        BY DEF IsStale, Caching, CacheTypes
      <3> QED
        BY <2>1, <2>2, <3>1 DEF Versions
    <2> QED
      BY <2>1, <2>2, <2>3 DEF LooksUnchanged
  <1> QED
    BY <1>1, CachingInvariant, PTL

-----------------------------------------------------------------------------
(* The limits.  A thread that has put an entry into the cache looks at the *)
(* limits later on, and has all entries in its list when it evicts.        *)

Collected(t) == {e[1] : e \in Range(oldest[t])}

SettleTypes ==
    /\ left \in [Threads -> SUBSET Files]
    /\ oldest \in [Threads -> Seq(Files \X Nat)]
    /\ sum \in [Threads -> Nat]
    /\ memory_usage \in Nat
    /\ overlapped \in BOOLEAN

WillEvict(t) ==
    \/ pc[t] = "count" /\ then[t] = "evict if needed"
    \/ pc[t] = "evict if needed"
    \/ pc[t] = "look at count" /\ left[t] = Files
    \/ pc[t] = "collect" /\ DOMAIN cache \subseteq left[t] \cup Collected(t)
    \/ pc[t] \in {"evict", "evict one"} /\ DOMAIN cache \subseteq Collected(t)

Room == Cardinality(DOMAIN cache) <= max_entries \/ \E t \in Threads : WillEvict(t)

(* What is certain of a thread whoever else is at work.                    *)
Prepared(t) ==
    /\ pc[t] = "remove" => then[t] \in {"read", "idle"}
    /\ pc[t] = "count" => then[t] \in {"read", "idle", "evict if needed"}
    /\ pc[t] = "look at count" => left[t] = Files
    /\ pc[t] = "evict one" => oldest[t] # <<>>

(* The usage, of all entries and of those that were counted.               *)
Uses(c) == [f \in DOMAIN c |-> Length[c[f].text] + Overhead]
Total(c) == SumFunctionOnSet(Uses(c), DOMAIN c)
CountedOf(c, rest) == SumFunctionOnSet(Uses(c), DOMAIN c \ rest)

InLimit == memory_usage = Total(cache) /\ memory_usage <= max_memory_usage

(* What a thread knows and leaves behind as long as it is alone.           *)
Accounted(t) ==
    /\ pc[t] \in {"idle", "remove", "read"} \cup Reading => InLimit
    /\ pc[t] = "count" =>
          /\ sum[t] = CountedOf(cache, left[t])
          /\ then[t] # "evict if needed" => Total(cache) <= max_memory_usage
    /\ pc[t] = "evict if needed" => memory_usage = Total(cache)
    /\ pc[t] = "look at count" => InLimit
    /\ pc[t] = "collect" =>
          /\ memory_usage = Total(cache)
          /\ DOMAIN cache \subseteq left[t] \cup Collected(t)
    /\ pc[t] \in {"evict", "evict one"} =>
          /\ Total(cache) <= memory_usage
          /\ then[t] = "nothing evicted" => memory_usage = Total(cache)
          /\ DOMAIN cache \subseteq Collected(t)
    /\ pc[t] = "clear" => DOMAIN cache \subseteq left[t]
    /\ pc[t] # "nothing evicted"

(* All others are idle, and it accounts for the usage.                     *)
Alone(t) == \A u \in Threads \ {t} : pc[u] = "idle"

Settling ==
    /\ SettleTypes
    /\ Room
    /\ \A t \in Threads : Prepared(t)
    /\ ~overlapped => IF AllIdle THEN InLimit
                      ELSE \E t \in Threads : Alone(t) /\ Accounted(t)

-----------------------------------------------------------------------------

(* What is inserted is in the list, and so is all that was in it.          *)
LEMMA Inserted ==
    ASSUME NEW S, NEW s \in Seq(S), NEW e \in S, NEW k \in 1 .. Len(s) + 1
    PROVE  /\ InsertAt(s, k, e) \in Seq(S)
           /\ Range(s) \cup {e} \subseteq Range(InsertAt(s, k, e))
  <1> DEFINE a == SubSeq(s, 1, k - 1)
             b == SubSeq(s, k, Len(s))
             r == InsertAt(s, k, e)
  <1>1. a \in Seq(S) /\ Len(a) = k - 1 /\ \A i \in 1 .. k - 1 : a[i] = s[i]
    OBVIOUS
  <1>2. b \in Seq(S) /\ Len(b) = Len(s) - k + 1 /\ \A i \in 1 .. Len(b) : b[i] = s[k + i - 1]
    OBVIOUS
  <1>3. r = a \o <<e>> \o b
    BY DEF InsertAt
  <1> HIDE DEF a, b, r
  <1>4. /\ r \in Seq(S) /\ Len(r) = Len(s) + 1
        /\ \A i \in 1 .. k - 1 : r[i] = a[i]
        /\ r[k] = e
        /\ \A i \in 1 .. Len(b) : r[k + i] = b[i]
    BY <1>1, <1>2, <1>3
  <1>5. ASSUME NEW i \in DOMAIN s PROVE \E j \in DOMAIN r : r[j] = s[i]
    <2>1. CASE i < k
      <3>1. r[i] = s[i] /\ i \in DOMAIN r
        BY <1>1, <1>4, <2>1
      <3> QED
        BY <3>1
    <2>2. CASE i >= k
      <3>1. r[i + 1] = s[i] /\ i + 1 \in DOMAIN r
        <4>1. k \in Int /\ i \in Int /\ Len(s) \in Int /\ i <= Len(s)
          OBVIOUS
        <4>2. i - k + 1 \in 1 .. Len(b) /\ k + (i - k + 1) = i + 1 /\ k + (i - k + 1) - 1 = i
          <5>1. Len(b) \in Int /\ Len(b) = Len(s) - k + 1
            BY <1>2
          <5> QED
            BY <2>2, <4>1, <5>1
        <4> QED
          BY <1>2, <1>4, <4>2
      <3> QED
        BY <3>1
    <2> QED
      BY <2>1, <2>2
  <1>6. k \in DOMAIN r /\ r[k] = e
    BY <1>4
  <1>7. Range(s) \cup {e} \subseteq Range(r)
    BY <1>5, <1>6 DEF Range
  <1> QED
    BY <1>4, <1>7 DEF r

(* Entries are counted in bytes.                                           *)
Accountable(c) == DOMAIN c \subseteq Files /\ \A f \in DOMAIN c : c[f].text \in Texts

(* Uses are counted in natural numbers.                                    *)
LEMMA UsesNatural ==
    ASSUME NEW c, Accountable(c)
    PROVE  /\ IsFiniteSet(DOMAIN c)
           /\ \A f \in DOMAIN c : Uses(c)[f] = Length[c[f].text] + Overhead
           /\ \A f \in DOMAIN c : Uses(c)[f] \in Nat /\ Uses(c)[f] \in Int
           /\ Total(c) \in Nat
  <1>1. IsFiniteSet(DOMAIN c)
    BY CacheAssumption, FS_Subset DEF CacheAssumption, Accountable
  <1>2. \A f \in DOMAIN c : Uses(c)[f] = Length[c[f].text] + Overhead
    BY DEF Uses
  <1>3. \A f \in DOMAIN c : Uses(c)[f] \in Nat
    BY <1>2, CacheAssumption DEF CacheAssumption, Accountable
  <1>4. Total(c) \in Nat
    BY <1>1, <1>3, SumNatural DEF Total
  <1> QED
    BY <1>1, <1>2, <1>3, <1>4

(* Caches of the same texts use the same.                                  *)
LEMMA TotalSame ==
    ASSUME NEW c, NEW d, Accountable(c), DOMAIN d = DOMAIN c,
           \A f \in DOMAIN c : d[f].text = c[f].text
    PROVE  Total(d) = Total(c) /\ \A rest : CountedOf(d, rest) = CountedOf(c, rest)
  <1>1. Uses(d) = Uses(c)
    BY DEF Uses
  <1> QED
    BY <1>1 DEF Total, CountedOf

Without(c, f) == [g \in DOMAIN c \ {f} |-> c[g]]

(* An entry less uses no more.                                             *)
LEMMA TotalRemoved ==
    ASSUME NEW c, NEW f, Accountable(c)
    PROVE  Total(Without(c, f)) \in Nat /\ Total(Without(c, f)) <= Total(c)
  <1> DEFINE d == Without(c, f)
  <1>1. IsFiniteSet(DOMAIN c) /\ Total(c) \in Nat
        /\ \A g \in DOMAIN c : Uses(c)[g] \in Nat /\ Uses(c)[g] \in Int
    BY UsesNatural
  <1>2. Accountable(d)
    BY DEF Accountable, Without
  <1>3. Total(d) \in Nat
    BY <1>2, UsesNatural
  <1>4. CASE f \notin DOMAIN c
    <2>1. DOMAIN d = DOMAIN c /\ \A g \in DOMAIN c : d[g].text = c[g].text
      BY <1>4 DEF Without
    <2>2. Total(d) = Total(c)
      BY <2>1, TotalSame
    <2> QED
      BY <2>2, <1>1
  <1>5. CASE f \in DOMAIN c
    <2>1. Total(c) = Uses(c)[f] + SumFunctionOnSet(Uses(c), DOMAIN c \ {f})
      BY <1>1, <1>5, SumWithout DEF Total
    <2>2. Total(d) = SumFunctionOnSet(Uses(c), DOMAIN c \ {f})
      <3>1. IsFiniteSet(DOMAIN c \ {f}) /\ DOMAIN d = DOMAIN c \ {f}
        BY <1>1, FS_RemoveElement DEF Without
      <3>2. \A g \in DOMAIN c \ {f} : Uses(d)[g] = Uses(c)[g]
        BY DEF Uses, Without
      <3> HIDE DEF d
      <3>3. SumFunctionOnSet(Uses(d), DOMAIN c \ {f}) = SumFunctionOnSet(Uses(c), DOMAIN c \ {f})
        BY <3>1, <3>2, SumSame
      <3> QED
        BY <3>1, <3>3 DEF Total
    <2>3. Uses(c)[f] \in Nat
      BY <1>1, <1>5
    <2>4. \A x, y, z \in Nat : x = y + z => z <= x
      OBVIOUS
    <2>5. Total(c) = Uses(c)[f] + Total(d)
      BY <2>1, <2>2, Zenon
    <2>6. Total(c) \in Nat
      BY <1>1
    <2>7. Total(d) <= Total(c)
      BY <1>3, <2>3, <2>4, <2>5, <2>6, Zenon
    <2> QED
      BY <1>3, <2>7
  <1> QED
    BY <1>3, <1>4, <1>5

(* Nothing uses nothing.                                                   *)
LEMMA TotalNothing ==
    ASSUME NEW c, DOMAIN c = {}
    PROVE  Total(c) = 0
  BY SumEmpty DEF Total

(* One shard more is counted.                                              *)
LEMMA CountedNext ==
    ASSUME NEW c, NEW rest, NEW f \in rest, Accountable(c)
    PROVE  CountedOf(c, rest \ {f}) =
             IF f \in DOMAIN c THEN CountedOf(c, rest) + Length[c[f].text] + Overhead
             ELSE CountedOf(c, rest)
  <1>1. IsFiniteSet(DOMAIN c) /\ \A g \in DOMAIN c : Uses(c)[g] \in Int
    BY UsesNatural
  <1>2. CASE f \notin DOMAIN c
    <2>1. DOMAIN c \ (rest \ {f}) = DOMAIN c \ rest
      BY <1>2
    <2> QED
      BY <1>2, <2>1 DEF CountedOf
  <1>3. CASE f \in DOMAIN c
    <2> DEFINE A == DOMAIN c \ (rest \ {f})
               B == DOMAIN c \ rest
    <2>1. IsFiniteSet(A) /\ f \in A /\ A \ {f} = B /\ \A g \in A : Uses(c)[g] \in Int
      BY <1>1, <1>3, FS_Subset
    <2>2. IsFiniteSet(B) /\ \A g \in B : Uses(c)[g] \in Int
      BY <1>1, FS_Subset
    <2>3. CountedOf(c, rest \ {f}) = SumFunctionOnSet(Uses(c), A)
          /\ CountedOf(c, rest) = SumFunctionOnSet(Uses(c), B)
      BY DEF CountedOf
    <2> HIDE DEF A, B
    <2>4. SumFunctionOnSet(Uses(c), A) = Uses(c)[f] + SumFunctionOnSet(Uses(c), B)
      BY <2>1, SumWithout
    <2>5. SumFunctionOnSet(Uses(c), B) \in Int
      BY <2>2, SumInteger
    <2>6. Uses(c)[f] = Length[c[f].text] + Overhead /\ Length[c[f].text] \in Int /\ Overhead \in Int
      BY <1>3, UsesNatural, CacheAssumption DEF CacheAssumption, Accountable
    <2> QED
      BY <1>3, <2>3, <2>4, <2>5, <2>6
  <1> QED
    BY <1>2, <1>3

(* The count is natural, nothing at first and everything in the end.       *)
LEMMA CountedAll ==
    ASSUME NEW c, Accountable(c)
    PROVE  CountedOf(c, Files) = 0 /\ CountedOf(c, {}) = Total(c)
  <1>1. DOMAIN c \ Files = {} /\ DOMAIN c \ {} = DOMAIN c
    BY DEF Accountable
  <1> QED
    BY <1>1, SumEmpty DEF CountedOf, Total

-----------------------------------------------------------------------------

(* The entries of the cache have a size that can be added up.              *)
LEMMA CacheAccountable ==
    ASSUME Caching
    PROVE  Accountable(cache) /\ IsFiniteSet(DOMAIN cache) /\ Cardinality(DOMAIN cache) \in Nat
  <1>1. Accountable(cache)
    BY DEF Caching, CacheTypes, Accountable, Entries
  <1> QED
    BY <1>1, UsesNatural, FS_CardinalityType

(* An empty cache has settled.                                             *)
LEMMA SettlingInit == Init => Settling
  <1> SUFFICES ASSUME Init PROVE Settling
    OBVIOUS
  <1>1. DOMAIN cache = {} /\ memory_usage = 0 /\ \A t \in Threads : pc[t] = "idle"
    BY DEF Init
  <1>2. SettleTypes
    <2>1. /\ sum = [t \in Threads |-> 0] /\ left = [t \in Threads |-> {}]
          /\ oldest = [t \in Threads |-> <<>>] /\ overlapped = FALSE /\ memory_usage = 0
      BY DEF Init
    <2>2. <<>> \in Seq(Files \X Nat)
      OBVIOUS
    <2> QED
      BY <2>1, <2>2 DEF SettleTypes
  <1>3. Cardinality(DOMAIN cache) = 0 /\ max_entries \in Nat /\ max_memory_usage \in Nat
    BY <1>1, FS_EmptySet, CacheAssumption DEF CacheAssumption
  <1>4. Room
    BY <1>3 DEF Room
  <1>5. AllIdle /\ InLimit
    BY <1>1, <1>3, TotalNothing DEF AllIdle, InLimit
  <1>6. \A t \in Threads : Prepared(t)
    BY <1>1 DEF Prepared
  <1> QED
    BY <1>2, <1>4, <1>5, <1>6 DEF Settling

(* What is the same for all threads but one.                               *)
OnlyFor(t) ==
    \A u \in Threads \ {t} :
        pc'[u] = pc[u] /\ then'[u] = then[u] /\ left'[u] = left[u] /\ oldest'[u] = oldest[u]

(* A step of one thread: if there was to be room there still is.           *)
LEMMA RoomStays ==
    ASSUME Caching, Settling, NEW t \in Threads, OnlyFor(t),
           DOMAIN cache' \subseteq DOMAIN cache,
           WillEvict(t) => WillEvict(t)' \/ Cardinality(DOMAIN cache') <= max_entries
    PROVE  Room'
  <1>1. Cardinality(DOMAIN cache') \in Nat /\ Cardinality(DOMAIN cache) \in Nat
        /\ Cardinality(DOMAIN cache') <= Cardinality(DOMAIN cache)
    BY CacheAccountable, FS_Subset, FS_CardinalityType
  <1>2. max_entries \in Nat
    BY CacheAssumption DEF CacheAssumption
  <1>3. CASE Cardinality(DOMAIN cache) <= max_entries
    BY <1>1, <1>2, <1>3 DEF Room
  <1>4. ASSUME NEW u \in Threads \ {t}, WillEvict(u) PROVE WillEvict(u)'
    <2>1. pc'[u] = pc[u] /\ then'[u] = then[u] /\ left'[u] = left[u] /\ oldest'[u] = oldest[u]
      BY DEF OnlyFor
    <2>2. Collected(u)' = Collected(u)
      BY <2>1 DEF Collected
    <2> QED
      BY <1>4, <2>1, <2>2 DEF WillEvict
  <1> QED
    BY <1>3, <1>4 DEF Room, Settling

(* ... and what it accounts for it accounts for alone.                     *)
LEMMA SettlesStep ==
    ASSUME Caching, Settling, NEW t \in Threads, OnlyFor(t), SettleTypes',
           DOMAIN cache' \subseteq DOMAIN cache,
           WillEvict(t) => WillEvict(t)' \/ Cardinality(DOMAIN cache') <= max_entries,
           Prepared(t)',
           ~overlapped' => Alone(t) /\ Accounted(t)'
    PROVE  Settling'
  <1>1. Room'
    BY RoomStays
  <1>2. \A u \in Threads : Prepared(u)'
    BY DEF Settling, Prepared, OnlyFor
  <1>3. ASSUME ~overlapped' PROVE Alone(t)' /\ Accounted(t)'
    BY <1>3 DEF Alone, OnlyFor
  <1>4. AllIdle' /\ Accounted(t)' => InLimit'
    BY DEF AllIdle, Accounted
  <1> QED
    BY <1>1, <1>2, <1>3, <1>4 DEF Settling

(* Who is not idle is alone, unless calls have overlapped.                 *)
LEMMA AtWork ==
    ASSUME Settling, NEW t \in Threads, pc[t] # "idle", ~overlapped
    PROVE  Alone(t) /\ Accounted(t)
  <1>1. PICK u \in Threads : Alone(u) /\ Accounted(u)
    BY DEF Settling, AllIdle
  <1>2. u = t
    BY <1>1 DEF Alone
  <1> QED
    BY <1>1, <1>2

(* Nothing of what the limits are about changes.                           *)
LEMMA SettlesStill ==
    ASSUME Settling, UNCHANGED <<cache, memory_usage, pc, sum, left, then, oldest, overlapped>>
    PROVE  Settling'
  <1>1. SettleTypes'
    BY DEF Settling, SettleTypes
  <1>2. \A t \in Threads :
          /\ Collected(t)' = Collected(t) /\ WillEvict(t)' = WillEvict(t)
          /\ Prepared(t)' = Prepared(t) /\ Accounted(t)' = Accounted(t) /\ Alone(t)' = Alone(t)
    BY DEF Collected, WillEvict, Prepared, Accounted, Alone, InLimit
  <1>3. Room' /\ (AllIdle' <=> AllIdle) /\ (InLimit' <=> InLimit)
    BY <1>2 DEF Settling, Room, AllIdle, InLimit
  <1>4. \A t \in Threads : Prepared(t)'
    BY <1>2 DEF Settling
  <1> QED
    BY <1>1, <1>2, <1>3, <1>4 DEF Settling

(* The beginning of a call.                                                *)
LEMMA BeginSettles ==
    ASSUME Caching, Settling, NEW t \in Threads, NEW f \in Files,
           Hit(t, f) \/ FindStale(t, f) \/ Miss(t, f) \/ Invalidate(t, f)
             \/ (Clear(t) /\ Begin(t, f))
    PROVE  Settling'
  <1>1. pc[t] = "idle" /\ overlapped' = (overlapped \/ \E u \in Threads : pc[u] # "idle")
    BY DEF Hit, FindStale, Miss, Invalidate, Begin
  <1>2. ~overlapped' => ~overlapped /\ AllIdle /\ InLimit /\ Alone(t)
    BY <1>1 DEF Settling, AllIdle, Alone
  <1>3. ~WillEvict(t)
    BY <1>1 DEF WillEvict
  <1>4. SettleTypes /\ overlapped' \in BOOLEAN
    BY <1>1 DEF Settling, SettleTypes
  <1>5. pc \in [Threads -> Places] /\ then \in [Threads -> Places \ Reading]
    BY DEF Caching, CacheTypes
  <1>6. DOMAIN cache \subseteq Files
    BY DEF Caching, CacheTypes
  <1>7. CASE Hit(t, f)
    <2>1. /\ UNCHANGED <<memory_usage, pc, sum, left, then, oldest>>
          /\ cache' = [cache EXCEPT ![f].accessed = clock] /\ f \in DOMAIN cache
      BY <1>7 DEF Hit, countVars
    <2>2. DOMAIN cache' = DOMAIN cache /\ \A g \in DOMAIN cache : cache'[g].text = cache[g].text
      BY <2>1 DEF Caching, CacheTypes, Entries
    <2>3. Total(cache') = Total(cache)
      BY <2>2, TotalSame, CacheAccountable
    <2>4. InLimit => InLimit'
      BY <2>1, <2>3 DEF InLimit
    <2>5. SettleTypes'
      BY <1>4, <2>1 DEF SettleTypes
    <2>6. OnlyFor(t) /\ Prepared(t)'
      BY <1>1, <2>1 DEF OnlyFor, Prepared
    <2>7. ~overlapped' => Accounted(t)'
      BY <1>1, <1>2, <2>1, <2>4 DEF Accounted, Reading
    <2> QED
      BY <1>2, <1>3, <2>2, <2>5, <2>6, <2>7, SettlesStep
  <1>8. ASSUME UNCHANGED <<cache, memory_usage, sum, oldest>>,
               NEW to \in {"read", "remove", "clear"}, pc' = [pc EXCEPT ![t] = to],
               NEW next \in {"read", "idle", then[t]}, then' = [then EXCEPT ![t] = next],
               to = "remove" => next \in {"read", "idle"},
               (left' = left /\ to # "clear") \/ left' = [left EXCEPT ![t] = Files]
        PROVE  Settling'
    <2>1. SettleTypes'
      BY <1>4, <1>8 DEF SettleTypes
    <2>2. pc'[t] = to /\ then'[t] = next /\ (to = "clear" => left'[t] = Files)
      BY <1>4, <1>5, <1>8 DEF SettleTypes
    <2>3. OnlyFor(t)
      BY <1>4, <1>5, <1>8 DEF OnlyFor, SettleTypes
    <2>4. Prepared(t)'
      BY <1>8, <2>2 DEF Prepared
    <2>5. InLimit => InLimit'
      BY <1>8 DEF InLimit
    <2>6. ~overlapped' => Accounted(t)'
      BY <1>2, <1>6, <1>8, <2>2, <2>5 DEF Accounted, Reading
    <2> QED
      BY <1>2, <1>3, <1>8, <2>1, <2>3, <2>4, <2>6, SettlesStep
  <1>9. then = [then EXCEPT ![t] = then[t]]
    BY <1>5
  <1>10. CASE FindStale(t, f)
    BY <1>8, <1>10 DEF FindStale
  <1>11. CASE Miss(t, f)
    BY <1>8, <1>9, <1>11 DEF Miss, countVars
  <1>12. CASE Invalidate(t, f)
    BY <1>8, <1>12 DEF Invalidate
  <1>13. CASE Clear(t) /\ Begin(t, f)
    BY <1>8, <1>9, <1>13 DEF Clear
  <1> QED
    BY <1>7, <1>10, <1>11, <1>12, <1>13

(* A step of a thread within a call.                                       *)
Moved(t, to, next, n, rest, list) ==
    /\ pc' = [pc EXCEPT ![t] = to]
    /\ then' = [then EXCEPT ![t] = next]
    /\ sum' = [sum EXCEPT ![t] = n]
    /\ left' = [left EXCEPT ![t] = rest]
    /\ oldest' = [oldest EXCEPT ![t] = list]
    /\ overlapped' = overlapped

(* The values of the thread that moves, and that only it has moved.        *)
LEMMA Moving ==
    ASSUME Caching, Settling, NEW t \in Threads, NEW to, NEW next, NEW n \in Nat,
           NEW rest \in SUBSET Files, NEW list \in Seq(Files \X Nat),
           Moved(t, to, next, n, rest, list), memory_usage' \in Nat
    PROVE  /\ SettleTypes' /\ OnlyFor(t)
           /\ pc'[t] = to /\ then'[t] = next /\ sum'[t] = n /\ left'[t] = rest
           /\ oldest'[t] = list
  BY DEF Moved, Settling, SettleTypes, Caching, CacheTypes, OnlyFor

(* What is not mentioned stays.                                            *)
LEMMA Staying ==
    ASSUME Caching, Settling, NEW t \in Threads
    PROVE  /\ pc = [pc EXCEPT ![t] = pc[t]]
           /\ then = [then EXCEPT ![t] = then[t]]
           /\ sum = [sum EXCEPT ![t] = sum[t]] /\ sum[t] \in Nat
           /\ left = [left EXCEPT ![t] = left[t]] /\ left[t] \in SUBSET Files
           /\ oldest = [oldest EXCEPT ![t] = oldest[t]] /\ oldest[t] \in Seq(Files \X Nat)
           /\ memory_usage \in Nat
           /\ DOMAIN cache \subseteq Files
           /\ Total(cache) \in Nat
           /\ max_entries \in Nat /\ max_memory_usage \in Nat
           /\ <<>> \in Seq(Files \X Nat)
  <1>1. Total(cache) \in Nat
    BY CacheAccountable, UsesNatural
  <1> QED
    BY <1>1, CacheAssumption DEF Settling, SettleTypes, Caching, CacheTypes, CacheAssumption

(* The usage is counted.                                                   *)
LEMMA CountSettles ==
    ASSUME Caching, Settling, NEW t \in Threads,
           Forget(t) \/ CountShard(t) \/ StoreUsage(t)
    PROVE  Settling'
  <1>1. CASE Forget(t)
    <2>1. /\ pc[t] = "remove" /\ cache' = Without(cache, file[t]) /\ UNCHANGED memory_usage
          /\ Moved(t, "count", then[t], 0, Files, oldest[t])
      BY <1>1, Staying DEF Forget, Goto, Count, Removed, Without, Moved
    <2>2. /\ SettleTypes' /\ OnlyFor(t) /\ pc'[t] = "count" /\ then'[t] = then[t]
          /\ sum'[t] = 0 /\ left'[t] = Files
      BY <2>1, Staying, Moving
    <2>3. DOMAIN cache' \subseteq DOMAIN cache
      BY <2>1 DEF Without
    <2>4. Prepared(t)' /\ ~WillEvict(t)
      BY <2>1, <2>2 DEF Settling, Prepared, WillEvict
    <2>5. Total(cache') \in Nat /\ Total(cache') <= Total(cache) /\ Total(cache) \in Nat
      BY <2>1, TotalRemoved, CacheAccountable, Staying
    <2>6. CountedOf(cache', Files) = 0
      <3>1. Accountable(cache')
        BY <2>1, CacheAccountable DEF Accountable, Without
      <3> QED
        BY <3>1, CountedAll
    <2>7. ASSUME ~overlapped' PROVE Alone(t) /\ Accounted(t)'
      <3>1. Alone(t) /\ Accounted(t)
        BY <2>1, <2>7, AtWork DEF Moved
      <3>2. InLimit
        BY <2>1, <3>1 DEF Accounted
      <3>3. Total(cache') <= max_memory_usage
        BY <2>5, <3>2, Staying DEF InLimit
      <3>4. CountedOf(cache', left'[t]) = 0
        BY <2>2, <2>6
      <3> QED
        BY <2>2, <3>1, <3>2, <3>3, <3>4 DEF Accounted, Reading
    <2> QED
      BY <2>2, <2>3, <2>4, <2>7, SettlesStep
  <1>2. CASE CountShard(t)
    <2> DEFINE f == Shard(t)
    <2>1. left[t] # {} /\ left[t] \subseteq Nat
      BY <1>2, Staying, CacheAssumption DEF CountShard, CacheAssumption
    <2>2. f \in left[t]
      <3>1. \E g \in left[t] : \A h \in left[t] : g <= h
        BY <2>1, LeastNatural
      <3> QED
        BY <3>1 DEF Shard
    <2> DEFINE n == IF f \in DOMAIN cache THEN sum[t] + Length[cache[f].text] + Overhead
                    ELSE sum[t]
    <2>3. n \in Nat
      BY Staying, CacheAccountable, CacheAssumption DEF Accountable, CacheAssumption
    <2>4. /\ pc[t] = "count" /\ UNCHANGED <<cache, memory_usage>>
          /\ Moved(t, "count", then[t], n, left[t] \ {f}, oldest[t])
      BY <1>2, Staying DEF CountShard, Moved
    <2> HIDE DEF f
    <2>5. n = IF f \in DOMAIN cache THEN sum[t] + Length[cache[f].text] + Overhead ELSE sum[t]
      OBVIOUS
    <2> HIDE DEF n
    <2>6. /\ SettleTypes' /\ OnlyFor(t) /\ pc'[t] = "count" /\ then'[t] = then[t]
          /\ sum'[t] = n /\ left'[t] = left[t] \ {f}
      BY <2>3, <2>4, Staying, Moving
    <2>7. Prepared(t)' /\ (WillEvict(t) => WillEvict(t)')
      BY <2>4, <2>6 DEF Settling, Prepared, WillEvict
    <2>8. ASSUME ~overlapped' PROVE Alone(t) /\ Accounted(t)'
      <3>1. Alone(t) /\ Accounted(t)
        BY <2>4, <2>8, AtWork DEF Moved
      <3>2. sum[t] = CountedOf(cache, left[t])
        BY <2>4, <3>1 DEF Accounted
      <3>3. n = CountedOf(cache, left[t] \ {f})
        BY <2>2, <2>5, <3>2, CountedNext, CacheAccountable, Zenon
      <3>4. sum'[t] = CountedOf(cache', left'[t])
        BY <2>4, <2>6, <3>3
      <3> QED
        BY <2>4, <2>6, <3>1, <3>4 DEF Accounted, Reading
    <2> QED
      BY <2>4, <2>6, <2>7, <2>8, SettlesStep
  <1>3. CASE StoreUsage(t)
    <2>1. /\ pc[t] = "count" /\ UNCHANGED cache /\ memory_usage' = sum[t] /\ left[t] = {}
          /\ Moved(t, then[t], then[t], sum[t], left[t], oldest[t])
      BY <1>3, Staying DEF StoreUsage, Goto, Moved, countVars
    <2>2. /\ SettleTypes' /\ OnlyFor(t) /\ pc'[t] = then[t] /\ then'[t] = then[t]
          /\ sum'[t] = sum[t] /\ left'[t] = left[t]
      <3>1. memory_usage' \in Nat
        BY <2>1, Staying
      <3> QED
        BY <2>1, <3>1, Staying, Moving
    <2>3. WillEvict(t) => WillEvict(t)'
      BY <2>1, <2>2 DEF WillEvict
    <2>4. Prepared(t)' /\ then[t] \in {"read", "idle", "evict if needed"}
      BY <2>1, <2>2 DEF Settling, Prepared
    <2>5. ASSUME ~overlapped' PROVE Alone(t) /\ Accounted(t)'
      <3>1. Alone(t) /\ Accounted(t)
        BY <2>1, <2>5, AtWork DEF Moved
      <3>2. memory_usage' = Total(cache)
        BY <2>1, <3>1, CountedAll, CacheAccountable DEF Accounted
      <3> QED
        BY <2>1, <2>2, <2>4, <3>1, <3>2 DEF Accounted, Reading, InLimit
    <2> QED
      BY <2>1, <2>2, <2>3, <2>4, <2>5, SettlesStep
  <1> QED
    BY <1>1, <1>2, <1>3

(* The file is read and put into the cache.                                *)
LEMMA ReadSettles ==
    ASSUME Caching, Settling, NEW t \in Threads,
           Read(t) \/ ReadMetadata(t) \/ Fail(t) \/ Insert(t)
    PROVE  Settling'
  <1>1. ASSUME pc[t] \in {"read", "metadata"}, NEW to \in {"idle"} \cup Reading,
               Moved(t, to, then[t], sum[t], left[t], oldest[t]),
               UNCHANGED <<cache, memory_usage>>
        PROVE  Settling'
    <2>1. SettleTypes' /\ OnlyFor(t) /\ pc'[t] = to
      BY <1>1, Staying, Moving
    <2>2. Prepared(t)' /\ ~WillEvict(t)
      BY <1>1, <2>1 DEF Prepared, WillEvict, Reading
    <2>3. ASSUME ~overlapped' PROVE Alone(t) /\ Accounted(t)'
      <3>1. Alone(t) /\ Accounted(t)
        BY <1>1, <2>3, AtWork DEF Moved
      <3>2. InLimit'
        BY <1>1, <3>1 DEF Accounted, Reading, InLimit
      <3> QED
        BY <2>1, <3>1, <3>2 DEF Accounted, Reading
    <2> QED
      BY <1>1, <2>1, <2>2, <2>3, SettlesStep
  <1>2. CASE Read(t)
    BY <1>1, <1>2, Staying DEF Read, Goto, Moved, countVars, Reading
  <1>3. CASE ReadMetadata(t)
    BY <1>1, <1>3, Staying DEF ReadMetadata, Goto, Moved, countVars, Reading
  <1>4. CASE Fail(t)
    BY <1>1, <1>4, Staying DEF Fail, Goto, Moved, countVars
  <1>5. CASE Insert(t)
    <2>1. /\ pc[t] = "insert" /\ UNCHANGED memory_usage
          /\ Moved(t, "count", "evict if needed", 0, Files, oldest[t])
      BY <1>5, Staying DEF Insert, Goto, Count, Moved
    <2>2. /\ SettleTypes' /\ OnlyFor(t) /\ pc'[t] = "count" /\ then'[t] = "evict if needed"
          /\ sum'[t] = 0 /\ left'[t] = Files
      <3>1. /\ memory_usage' \in Nat /\ sum[t] \in Nat /\ left[t] \in SUBSET Files
            /\ 0 \in Nat /\ Files \in SUBSET Files /\ oldest[t] \in Seq(Files \X Nat)
            /\ <<>> \in Seq(Files \X Nat)
        BY <2>1, Staying
      <3> QED
        BY <2>1, <3>1, Moving, ZenonT(30)
    <2>3. Caching'
      BY <1>5, InsertKeeps
    <2>4. WillEvict(t)' /\ Prepared(t)'
      BY <2>2 DEF WillEvict, Prepared
    <2>5. Room' /\ \A u \in Threads : Prepared(u)'
      BY <2>2, <2>4 DEF Room, Settling, Prepared, OnlyFor
    <2>6. CountedOf(cache', Files) = 0
      <3>1. Accountable(cache')
        BY <2>3 DEF Caching, CacheTypes, Accountable, Entries
      <3> QED
        BY <3>1, CountedAll
    <2>7. ASSUME ~overlapped' PROVE Alone(t)' /\ Accounted(t)'
      <3>1. Alone(t)
        BY <2>1, <2>7, AtWork DEF Moved
      <3>2. Alone(t)'
        BY <2>2, <3>1 DEF Alone, OnlyFor
      <3>3. CountedOf(cache', left'[t]) = 0
        BY <2>2, <2>6
      <3> QED
        BY <2>2, <3>2, <3>3 DEF Accounted, Reading
    <2>8. ~AllIdle'
      BY <2>2 DEF AllIdle
    <2> QED
      BY <2>2, <2>5, <2>7, <2>8 DEF Settling
  <1> QED
    BY <1>2, <1>3, <1>4, <1>5

(* The limits are looked at, and the list is made.                         *)
LEMMA LookSettles ==
    ASSUME Caching, Settling, NEW t \in Threads,
           LooksAtUsage(t) \/ LooksAtCount(t) \/ CollectShard(t) \/ StartEviction(t)
    PROVE  Settling'
  <1>1. CASE LooksAtUsage(t)
    <2> DEFINE to == IF memory_usage > max_memory_usage THEN "collect" ELSE "look at count"
    <2>1. /\ pc[t] = "evict if needed" /\ UNCHANGED <<cache, memory_usage>>
          /\ Moved(t, to, then[t], sum[t], Files, <<>>)
      BY <1>1, Staying DEF LooksAtUsage, Goto, Moved
    <2>2. /\ SettleTypes' /\ OnlyFor(t) /\ pc'[t] = to /\ left'[t] = Files
      <3>1. /\ memory_usage' \in Nat /\ sum[t] \in Nat /\ left[t] \in SUBSET Files
            /\ 0 \in Nat /\ Files \in SUBSET Files /\ oldest[t] \in Seq(Files \X Nat)
            /\ <<>> \in Seq(Files \X Nat)
        BY <2>1, Staying
      <3> QED
        BY <2>1, <3>1, Moving, ZenonT(30)
    <2>3. Prepared(t)' /\ WillEvict(t)'
      BY <2>1, <2>2, Staying DEF Prepared, WillEvict
    <2>4. ASSUME ~overlapped' PROVE Alone(t) /\ Accounted(t)'
      <3>1. Alone(t) /\ Accounted(t)
        BY <2>1, <2>4, AtWork DEF Moved
      <3>2. memory_usage = Total(cache)
        BY <2>1, <3>1 DEF Accounted
      <3>3. CASE memory_usage > max_memory_usage
        BY <2>1, <2>2, <3>1, <3>2, <3>3, Staying DEF Accounted, Reading
      <3>4. CASE ~(memory_usage > max_memory_usage)
        <4>1. InLimit'
          <5>1. memory_usage \in Nat /\ max_memory_usage \in Nat
            BY Staying
          <5>2. memory_usage <= max_memory_usage
            BY <3>4, <5>1
          <5> QED
            BY <2>1, <3>2, <5>2 DEF InLimit
        <4> QED
          BY <2>1, <2>2, <3>1, <3>4, <4>1 DEF Accounted, Reading
      <3> QED
        BY <3>3, <3>4
    <2> QED
      BY <2>1, <2>2, <2>3, <2>4, SettlesStep
  <1>2. CASE LooksAtCount(t)
    <2> DEFINE to == IF Cardinality(DOMAIN cache) > max_entries THEN "collect" ELSE "idle"
    <2>1. /\ pc[t] = "look at count" /\ UNCHANGED <<cache, memory_usage>>
          /\ Moved(t, to, then[t], sum[t], left[t], oldest[t]) /\ left[t] = Files
      BY <1>2, Staying DEF LooksAtCount, Goto, Moved, countVars, Settling, Prepared
    <2>2. /\ SettleTypes' /\ OnlyFor(t) /\ pc'[t] = to /\ left'[t] = Files
      <3>1. /\ memory_usage' \in Nat /\ sum[t] \in Nat /\ left[t] \in SUBSET Files
            /\ 0 \in Nat /\ Files \in SUBSET Files /\ oldest[t] \in Seq(Files \X Nat)
            /\ <<>> \in Seq(Files \X Nat)
        BY <2>1, Staying
      <3>2. Moved(t, to, then[t], sum[t], left[t], oldest[t])
        BY <2>1
      <3>3. /\ SettleTypes' /\ OnlyFor(t) /\ left'[t] = left[t] /\ oldest'[t] = oldest[t]
            /\ pc'[t] = to
        BY <3>1, <3>2, Moving, ZenonT(30)
      <3> QED
        BY <2>1, <3>3
    <2>3. Prepared(t)'
      BY <2>2 DEF Prepared
    <2>4. WillEvict(t)' \/ Cardinality(DOMAIN cache') <= max_entries
      <3>1. Cardinality(DOMAIN cache) \in Nat /\ max_entries \in Nat
            /\ DOMAIN cache \subseteq Files
        BY Staying, CacheAccountable
      <3>2. CASE Cardinality(DOMAIN cache) > max_entries
        BY <2>1, <2>2, <3>1, <3>2 DEF WillEvict
      <3>3. CASE ~(Cardinality(DOMAIN cache) > max_entries)
        <4>1. \A x, y \in Nat : x <= y \/ x > y
          OBVIOUS
        <4>2. Cardinality(DOMAIN cache) <= max_entries
          BY <3>1, <3>3, <4>1, Zenon
        <4> QED
          BY <2>1, <4>2
      <3> QED
        BY <3>2, <3>3
    <2>5. ASSUME ~overlapped' PROVE Alone(t) /\ Accounted(t)'
      <3>1. Alone(t) /\ Accounted(t)
        BY <2>1, <2>5, AtWork DEF Moved
      <3>2. InLimit /\ InLimit'
        BY <2>1, <3>1 DEF Accounted, InLimit
      <3> QED
        BY <2>1, <2>2, <3>1, <3>2, Staying DEF Accounted, Reading, InLimit
    <2> QED
      BY <2>1, <2>2, <2>3, <2>4, <2>5, SettlesStep
  <1>3. CASE CollectShard(t)
    <2> DEFINE f == Shard(t)
               at == Cardinality({i \in DOMAIN oldest[t] : oldest[t][i][2] <= cache[f].accessed}) + 1
               list == IF f \in DOMAIN cache
                       THEN InsertAt(oldest[t], at, <<f, cache[f].accessed>>)
                       ELSE oldest[t]
    <2>1. /\ pc[t] = "collect" /\ UNCHANGED <<cache, memory_usage>>
          /\ Moved(t, "collect", then[t], sum[t], left[t] \ {f}, list)
      BY <1>3, Staying DEF CollectShard, Moved
    <2>2. oldest[t] \in Seq(Files \X Nat)
      BY Staying
    <2>3. at \in 1 .. Len(oldest[t]) + 1
      <3> DEFINE B == {i \in DOMAIN oldest[t] : oldest[t][i][2] <= cache[f].accessed}
      <3>1. B \subseteq 1 .. Len(oldest[t]) /\ Len(oldest[t]) \in Nat
        BY <2>2
      <3>2. IsFiniteSet(1 .. Len(oldest[t])) /\ Cardinality(1 .. Len(oldest[t])) = Len(oldest[t])
        BY <3>1, FS_Interval
      <3>3. Cardinality(B) \in Nat /\ Cardinality(B) <= Len(oldest[t])
        BY <3>1, <3>2, FS_Subset, FS_CardinalityType
      <3> QED
        BY <3>1, <3>3
    <2> HIDE DEF at
    <2>4. f \in DOMAIN cache => <<f, cache[f].accessed>> \in Files \X Nat
      BY DEF Caching, CacheTypes, Entries
    <2>5. /\ list \in Seq(Files \X Nat)
          /\ f \in DOMAIN cache => <<f, cache[f].accessed>> \in Range(list)
          /\ Range(oldest[t]) \subseteq Range(list)
      <3>1. CASE f \in DOMAIN cache
        <4> DEFINE e == <<f, cache[f].accessed>>
        <4>1. e \in Files \X Nat /\ list = InsertAt(oldest[t], at, e)
          BY <2>4, <3>1
        <4> HIDE DEF e, list, f
        <4>2. /\ InsertAt(oldest[t], at, e) \in Seq(Files \X Nat)
              /\ Range(oldest[t]) \cup {e} \subseteq Range(InsertAt(oldest[t], at, e))
          BY <2>2, <2>3, <4>1, Inserted
        <4>3. list \in Seq(Files \X Nat) /\ Range(oldest[t]) \cup {e} \subseteq Range(list)
          BY <4>1, <4>2
        <4>4. e \in Range(list)
          BY <4>3
        <4> QED
          BY <4>3, <4>4 DEF e
      <3>2. CASE f \notin DOMAIN cache
        BY <2>2, <3>2
      <3> QED
        BY <3>1, <3>2
    <2> HIDE DEF list, f
    <2>6. /\ SettleTypes' /\ OnlyFor(t) /\ pc'[t] = "collect" /\ left'[t] = left[t] \ {f}
          /\ oldest'[t] = list
      BY <2>1, <2>5, Staying, Moving
    <2>7. Collected(t) \subseteq Collected(t)' /\ (f \in DOMAIN cache => f \in Collected(t)')
      <3>1. Collected(t)' = {e[1] : e \in Range(list)}
        BY <2>6 DEF Collected
      <3>2. f \in DOMAIN cache => <<f, cache[f].accessed>>[1] \in Collected(t)'
        BY <2>5, <3>1
      <3> QED
        BY <2>5, <3>1, <3>2 DEF Collected
    <2>8. DOMAIN cache \subseteq left[t] \cup Collected(t)
            => DOMAIN cache' \subseteq left'[t] \cup Collected(t)'
      BY <2>1, <2>6, <2>7
    <2>9. Prepared(t)' /\ (WillEvict(t) => WillEvict(t)')
      BY <2>1, <2>6, <2>8 DEF Prepared, WillEvict
    <2>10. ASSUME ~overlapped' PROVE Alone(t) /\ Accounted(t)'
      <3>1. Alone(t) /\ Accounted(t)
        BY <2>1, <2>10, AtWork DEF Moved
      <3> QED
        BY <2>1, <2>6, <2>8, <3>1 DEF Accounted, Reading
    <2> QED
      BY <2>1, <2>6, <2>9, <2>10, SettlesStep
  <1>4. CASE StartEviction(t)
    <2>1. /\ pc[t] = "collect" /\ UNCHANGED <<cache, memory_usage>> /\ left[t] = {}
          /\ Moved(t, "evict", "nothing evicted", sum[t], left[t], oldest[t])
      BY <1>4, Staying DEF StartEviction, Goto, Moved
    <2>2. /\ SettleTypes' /\ OnlyFor(t) /\ pc'[t] = "evict" /\ oldest'[t] = oldest[t]
      <3>1. /\ memory_usage' \in Nat /\ sum[t] \in Nat /\ left[t] \in SUBSET Files
            /\ 0 \in Nat /\ Files \in SUBSET Files /\ oldest[t] \in Seq(Files \X Nat)
            /\ <<>> \in Seq(Files \X Nat)
        BY <2>1, Staying
      <3>2. Moved(t, "evict", "nothing evicted", sum[t], left[t], oldest[t])
        BY <2>1
      <3>3. /\ SettleTypes' /\ OnlyFor(t) /\ left'[t] = left[t] /\ oldest'[t] = oldest[t]
            /\ pc'[t] = "evict"
        <4>1. SettleTypes'
          BY <3>1, <3>2, Moving, Zenon
        <4>2. OnlyFor(t)
          BY <3>1, <3>2, Moving, Zenon
        <4>3. oldest'[t] = oldest[t] /\ left'[t] = left[t]
          BY <3>2, Staying DEF Moved, Settling, SettleTypes
        <4>4. pc'[t] = "evict"
          BY <3>1, <3>2, Moving, Zenon
        <4> QED
          BY <4>1, <4>2, <4>3, <4>4
      <3> QED
        BY <2>1, <3>3
    <2>3. Collected(t)' = Collected(t)
      BY <2>2 DEF Collected
    <2>4. Prepared(t)' /\ (WillEvict(t) => WillEvict(t)')
      BY <2>1, <2>2, <2>3 DEF Prepared, WillEvict
    <2>5. ASSUME ~overlapped' PROVE Alone(t) /\ Accounted(t)'
      <3>1. Alone(t) /\ Accounted(t)
        BY <2>1, <2>5, AtWork DEF Moved
      <3>2. memory_usage = Total(cache) /\ DOMAIN cache \subseteq Collected(t)
        BY <2>1, <3>1 DEF Accounted
      <3>3. Total(cache') <= memory_usage'
        <4>1. \A x \in Nat : x <= x
          OBVIOUS
        <4>2. memory_usage \in Nat
          BY Staying
        <4>3. memory_usage <= memory_usage
          BY <4>1, <4>2
        <4> QED
          BY <2>1, <3>2, <4>3
      <3> QED
        BY <2>1, <2>2, <2>3, <3>1, <3>2, <3>3 DEF Accounted, Reading
    <2> QED
      BY <2>1, <2>2, <2>4, <2>5, SettlesStep
  <1> QED
    BY <1>1, <1>2, <1>3, <1>4

(* Eight tenths of a limit are within it.                                  *)
LEMMA Target == \A n \in Nat : (n * 80) \div 100 \in Nat /\ (n * 80) \div 100 <= n
  OBVIOUS

(* All but the first.                                                      *)
LEMMA TailListed ==
    ASSUME NEW S, NEW s \in Seq(S), s # <<>>
    PROVE  /\ Tail(s) \in Seq(S)
           /\ \A e \in Range(s) : e = Head(s) \/ e \in Range(Tail(s))
  <1>1. Tail(s) \in Seq(S) /\ Len(Tail(s)) = Len(s) - 1 /\ Len(s) \in Nat
        /\ \A i \in 1 .. Len(s) - 1 : Tail(s)[i] = s[i + 1]
    OBVIOUS
  <1>2. ASSUME NEW i \in 1 .. Len(s) PROVE s[i] = Head(s) \/ s[i] \in Range(Tail(s))
    <2>1. CASE i = 1
      BY <2>1
    <2>2. CASE i # 1
      <3>1. i - 1 \in 1 .. Len(s) - 1 /\ (i - 1) + 1 = i
        BY <1>1, <2>2
      <3>2. Tail(s)[i - 1] = s[i] /\ i - 1 \in DOMAIN Tail(s)
        BY <1>1, <3>1
      <3> QED
        BY <3>2 DEF Range
    <2> QED
      BY <2>1, <2>2
  <1> QED
    BY <1>1, <1>2 DEF Range

(* Where the targets are met the limits are, and so they are by a cache    *)
(* without entries.                                                        *)
LEMMA EvictedEnough ==
    ASSUME Caching, Settling, NEW t \in Threads, oldest[t] = <<>> \/ UnderTargets,
           DOMAIN cache \subseteq Collected(t)
    PROVE  /\ Cardinality(DOMAIN cache) <= max_entries
           /\ Total(cache) <= memory_usage => Total(cache) <= max_memory_usage
           /\ memory_usage = Total(cache) => InLimit
  <1>1. /\ memory_usage \in Nat /\ Total(cache) \in Nat /\ max_entries \in Nat
        /\ max_memory_usage \in Nat /\ Cardinality(DOMAIN cache) \in Nat
    BY Staying, CacheAccountable
  <1>2. \A x, y \in Nat : x <= (y * 80) \div 100 => x <= y
    BY Target
  <1>3. \A x, y, z \in Nat : x <= y /\ y <= z => x <= z
    OBVIOUS
  <1>4. \A x \in Nat : 0 <= x
    OBVIOUS
  <1>5. CASE oldest[t] = <<>>
    <2>1. Range(oldest[t]) = {}
      BY <1>5 DEF Range
    <2>2. DOMAIN cache = {}
      BY <2>1 DEF Collected
    <2>3. Cardinality(DOMAIN cache) = 0 /\ Total(cache) = 0
      BY <2>2, FS_EmptySet, TotalNothing
    <2> QED
      BY <1>1, <1>4, <2>3, Zenon DEF InLimit
  <1>6. CASE UnderTargets
    <2>1. Cardinality(DOMAIN cache) <= max_entries
      BY <1>1, <1>2, <1>6, Zenon DEF UnderTargets
    <2>2. memory_usage <= max_memory_usage
      BY <1>1, <1>2, <1>6, Zenon DEF UnderTargets
    <2>3. Total(cache) <= memory_usage => Total(cache) <= max_memory_usage
      BY <1>1, <1>3, <2>2, Zenon
    <2> QED
      BY <2>1, <2>2, <2>3 DEF InLimit
  <1> QED
    BY <1>5, <1>6

(* Eviction ends within the limits.                                        *)
LEMMA EvictSettles ==
    ASSUME Caching, Settling, NEW t \in Threads, Evict(t) \/ EvictOne(t) \/ Evicted(t)
    PROVE  Settling'
  <1>1. CASE Evict(t)
    <2>1. /\ pc[t] = "evict" /\ UNCHANGED <<cache, memory_usage>> /\ oldest[t] # <<>>
          /\ Moved(t, "evict one", then[t], sum[t], left[t], oldest[t])
      BY <1>1, Staying DEF Evict, Moved, countVars
    <2>2. /\ SettleTypes' /\ OnlyFor(t) /\ pc'[t] = "evict one" /\ then'[t] = then[t]
          /\ oldest'[t] = oldest[t]
      <3>1. /\ memory_usage' \in Nat /\ sum[t] \in Nat /\ left[t] \in SUBSET Files
            /\ oldest[t] \in Seq(Files \X Nat)
        BY <2>1, Staying
      <3> QED
        BY <2>1, <3>1, Moving, ZenonT(30)
    <2>3. Collected(t)' = Collected(t)
      BY <2>2 DEF Collected
    <2>4. Prepared(t)' /\ (WillEvict(t) => WillEvict(t)')
      BY <2>1, <2>2, <2>3 DEF Prepared, WillEvict
    <2>5. ASSUME ~overlapped' PROVE Alone(t) /\ Accounted(t)'
      <3>1. Alone(t) /\ Accounted(t)
        BY <2>1, <2>5, AtWork DEF Moved
      <3> QED
        BY <2>1, <2>2, <2>3, <3>1 DEF Accounted, Reading
    <2> QED
      BY <2>1, <2>2, <2>4, <2>5, SettlesStep
  <1>2. CASE EvictOne(t)
    <2> DEFINE f == Head(oldest[t])[1]
    <2>1. /\ pc[t] = "evict one" /\ cache' = Without(cache, f) /\ UNCHANGED memory_usage
          /\ oldest[t] # <<>> /\ oldest[t] \in Seq(Files \X Nat)
          /\ Moved(t, "evict", "idle", sum[t], left[t], Tail(oldest[t]))
      BY <1>2, Staying DEF EvictOne, Goto, Moved, Removed, Without, Settling, Prepared
    <2>2. /\ Tail(oldest[t]) \in Seq(Files \X Nat)
          /\ \A e \in Range(oldest[t]) : e = Head(oldest[t]) \/ e \in Range(Tail(oldest[t]))
      BY <2>1, TailListed
    <2>3. /\ SettleTypes' /\ OnlyFor(t) /\ pc'[t] = "evict" /\ then'[t] = "idle"
          /\ oldest'[t] = Tail(oldest[t])
      <3>1. memory_usage' \in Nat /\ sum[t] \in Nat /\ left[t] \in SUBSET Files
            /\ Tail(oldest[t]) \in Seq(Files \X Nat)
        BY <2>1, <2>2, Staying
      <3>2. Moved(t, "evict", "idle", sum[t], left[t], Tail(oldest[t]))
        BY <2>1
      <3> QED
        BY <3>1, <3>2, Moving, ZenonT(30)
    <2>4. \A g \in Collected(t) : g = f \/ g \in Collected(t)'
      BY <2>2, <2>3 DEF Collected
    <2>5. DOMAIN cache' = DOMAIN cache \ {f}
      BY <2>1 DEF Without
    <2>6. DOMAIN cache \subseteq Collected(t) => DOMAIN cache' \subseteq Collected(t)'
      BY <2>4, <2>5
    <2> HIDE DEF f
    <2>7. Prepared(t)' /\ (WillEvict(t) => WillEvict(t)')
      BY <2>1, <2>3, <2>6 DEF Prepared, WillEvict
    <2>8. ASSUME ~overlapped' PROVE Alone(t) /\ Accounted(t)'
      <3>1. Alone(t) /\ Accounted(t)
        BY <2>1, <2>8, AtWork DEF Moved
      <3>2. Total(cache) <= memory_usage /\ DOMAIN cache \subseteq Collected(t)
        BY <2>1, <3>1 DEF Accounted
      <3>3. Total(cache') \in Nat /\ Total(cache') <= Total(cache)
        BY <2>1, TotalRemoved, CacheAccountable
      <3>4. Total(cache') <= memory_usage'
        <4>1. \A x, y, z \in Nat : x <= y /\ y <= z => x <= z
          OBVIOUS
        <4>2. Total(cache) \in Nat /\ memory_usage \in Nat
          BY Staying
        <4>3. Total(cache') <= memory_usage
          BY <3>2, <3>3, <4>1, <4>2, Zenon
        <4> QED
          BY <2>1, <4>3
      <3> QED
        BY <2>3, <2>6, <3>1, <3>2, <3>4 DEF Accounted, Reading
    <2> QED
      BY <2>1, <2>3, <2>5, <2>7, <2>8, SettlesStep
  <1>3. CASE Evicted(t) /\ then[t] = "nothing evicted"
    <2>1. /\ pc[t] = "evict" /\ UNCHANGED <<cache, memory_usage>>
          /\ oldest[t] = <<>> \/ UnderTargets
          /\ Moved(t, "idle", then[t], sum[t], left[t], oldest[t])
      BY <1>3, Staying DEF Evicted, Goto, Moved, countVars
    <2>2. /\ SettleTypes' /\ OnlyFor(t) /\ pc'[t] = "idle"
      <3>1. /\ memory_usage' \in Nat /\ sum[t] \in Nat /\ left[t] \in SUBSET Files
            /\ oldest[t] \in Seq(Files \X Nat)
        BY <2>1, Staying
      <3>2. Moved(t, "idle", then[t], sum[t], left[t], oldest[t])
        BY <2>1
      <3> QED
        BY <3>1, <3>2, Moving, Zenon
    <2>3. Prepared(t)'
      BY <2>2 DEF Prepared
    <2>4. WillEvict(t) => Cardinality(DOMAIN cache') <= max_entries
      BY <2>1, EvictedEnough DEF WillEvict
    <2>5. ASSUME ~overlapped' PROVE Alone(t) /\ Accounted(t)'
      <3>1. Alone(t) /\ Accounted(t)
        BY <2>1, <2>5, AtWork DEF Moved
      <3>2. memory_usage = Total(cache) /\ DOMAIN cache \subseteq Collected(t)
        BY <1>3, <2>1, <3>1 DEF Accounted
      <3>3. InLimit
        BY <2>1, <3>2, EvictedEnough
      <3>4. InLimit'
        BY <2>1, <3>3 DEF InLimit
      <3> QED
        BY <2>2, <3>1, <3>4 DEF Accounted, Reading
    <2> QED
      BY <2>1, <2>2, <2>3, <2>4, <2>5, SettlesStep
  <1>4. CASE Evicted(t) /\ then[t] # "nothing evicted"
    <2>1. /\ pc[t] = "evict" /\ UNCHANGED <<cache, memory_usage>>
          /\ oldest[t] = <<>> \/ UnderTargets
          /\ Moved(t, "count", "idle", 0, Files, oldest[t])
      BY <1>4, Staying DEF Evicted, Goto, Count, Moved
    <2>2. /\ SettleTypes' /\ OnlyFor(t) /\ pc'[t] = "count" /\ then'[t] = "idle"
          /\ sum'[t] = 0 /\ left'[t] = Files
      <3>1. /\ memory_usage' \in Nat /\ 0 \in Nat /\ Files \in SUBSET Files
            /\ oldest[t] \in Seq(Files \X Nat)
        BY <2>1, Staying
      <3>2. Moved(t, "count", "idle", 0, Files, oldest[t])
        BY <2>1
      <3> QED
        BY <3>1, <3>2, Moving, Zenon
    <2>3. Prepared(t)'
      BY <2>2 DEF Prepared
    <2>4. WillEvict(t) => Cardinality(DOMAIN cache') <= max_entries
      BY <2>1, EvictedEnough DEF WillEvict
    <2>5. ASSUME ~overlapped' PROVE Alone(t) /\ Accounted(t)'
      <3>1. Alone(t) /\ Accounted(t)
        BY <2>1, <2>5, AtWork DEF Moved
      <3>2. Total(cache) <= memory_usage /\ DOMAIN cache \subseteq Collected(t)
        BY <2>1, <3>1 DEF Accounted
      <3>3. Total(cache) <= max_memory_usage
        BY <2>1, <3>2, EvictedEnough
      <3>4. sum'[t] = CountedOf(cache', left'[t]) /\ Total(cache') <= max_memory_usage
        BY <2>1, <2>2, <3>3, CountedAll, CacheAccountable
      <3> QED
        BY <2>2, <3>1, <3>4 DEF Accounted, Reading
    <2> QED
      BY <2>1, <2>2, <2>3, <2>4, <2>5, SettlesStep
  <1> QED
    BY <1>1, <1>2, <1>3, <1>4

(* Clearing leaves nothing to settle.                                      *)
LEMMA ClearSettles ==
    ASSUME Caching, Settling, NEW t \in Threads, ClearShard(t) \/ ResetUsage(t)
    PROVE  Settling'
  <1>1. CASE ClearShard(t)
    <2> DEFINE f == Shard(t)
    <2>1. /\ pc[t] = "clear" /\ cache' = Without(cache, f) /\ UNCHANGED memory_usage
          /\ Moved(t, "clear", then[t], sum[t], left[t] \ {f}, oldest[t])
      BY <1>1, Staying DEF ClearShard, Moved, Removed, Without
    <2> HIDE DEF f
    <2>2. SettleTypes' /\ OnlyFor(t) /\ pc'[t] = "clear" /\ left'[t] = left[t] \ {f}
      <3>1. /\ memory_usage' \in Nat /\ sum[t] \in Nat /\ left[t] \ {f} \in SUBSET Files
            /\ oldest[t] \in Seq(Files \X Nat)
        BY <2>1, Staying
      <3>2. PICK rest \in SUBSET Files : rest = left[t] \ {f}
        BY <3>1
      <3>3. Moved(t, "clear", then[t], sum[t], rest, oldest[t])
        BY <2>1, <3>2
      <3>4. SettleTypes' /\ OnlyFor(t) /\ pc'[t] = "clear" /\ left'[t] = rest
        BY <3>1, <3>3, Moving, Zenon
      <3> QED
        BY <3>2, <3>4
    <2>3. DOMAIN cache' = DOMAIN cache \ {f}
      BY <2>1 DEF Without
    <2>4. Prepared(t)' /\ ~WillEvict(t)
      BY <2>1, <2>2 DEF Prepared, WillEvict
    <2>5. ASSUME ~overlapped' PROVE Alone(t) /\ Accounted(t)'
      <3>1. Alone(t) /\ Accounted(t)
        BY <2>1, <2>5, AtWork DEF Moved
      <3>2. DOMAIN cache \subseteq left[t]
        BY <2>1, <3>1 DEF Accounted
      <3>3. DOMAIN cache' \subseteq left'[t]
        BY <2>2, <2>3, <3>2
      <3> QED
        BY <2>2, <3>1, <3>3 DEF Accounted, Reading
    <2> QED
      BY <2>2, <2>3, <2>4, <2>5, SettlesStep
  <1>2. CASE ResetUsage(t)
    <2>1. /\ pc[t] = "clear" /\ UNCHANGED cache /\ memory_usage' = 0 /\ left[t] = {}
          /\ Moved(t, "idle", then[t], sum[t], left[t], oldest[t])
      BY <1>2, Staying DEF ResetUsage, Goto, Moved, countVars
    <2>2. SettleTypes' /\ OnlyFor(t) /\ pc'[t] = "idle"
      <3>1. /\ memory_usage' \in Nat /\ sum[t] \in Nat /\ left[t] \in SUBSET Files
            /\ oldest[t] \in Seq(Files \X Nat)
        BY <2>1, Staying
      <3>2. Moved(t, "idle", then[t], sum[t], left[t], oldest[t])
        BY <2>1
      <3> QED
        BY <3>1, <3>2, Moving, Zenon
    <2>3. Prepared(t)' /\ ~WillEvict(t)
      BY <2>1, <2>2 DEF Prepared, WillEvict
    <2>4. ASSUME ~overlapped' PROVE Alone(t) /\ Accounted(t)'
      <3>1. Alone(t) /\ Accounted(t)
        BY <2>1, <2>4, AtWork DEF Moved
      <3>2. DOMAIN cache = {}
        BY <2>1, <3>1 DEF Accounted
      <3>3. InLimit'
        BY <2>1, <3>2, TotalNothing, Staying DEF InLimit
      <3> QED
        BY <2>2, <3>1, <3>3 DEF Accounted, Reading
    <2> QED
      BY <2>1, <2>2, <2>3, <2>4, SettlesStep
  <1> QED
    BY <1>1, <1>2

(* Every step keeps the invariant.                                         *)
LEMMA SettlingNext == Caching /\ Settling /\ [Next]_vars => Settling'
  <1> SUFFICES ASSUME Caching, Settling, [Next]_vars PROVE Settling'
    OBVIOUS
  <1>1. CASE UNCHANGED vars
    BY <1>1, SettlesStill DEF vars, countVars
  <1>2. CASE World
    BY <1>2, SettlesStill DEF World, countVars
  <1>3. ASSUME NEW t \in Threads, NEW f \in Files,
               Hit(t, f) \/ FindStale(t, f) \/ Miss(t, f) \/ Invalidate(t, f)
        PROVE  Settling'
    BY <1>3, BeginSettles
  <1>4. ASSUME NEW t \in Threads, Clear(t) PROVE Settling'
    <2>1. PICK f \in Files : Begin(t, f)
      BY <1>4 DEF Clear
    <2> QED
      BY <1>4, <2>1, BeginSettles
  <1>5. ASSUME NEW t \in Threads, Step(t) PROVE Settling'
    BY <1>5, CountSettles, ReadSettles, LookSettles, EvictSettles, ClearSettles DEF Step
  <1> QED
    BY <1>1, <1>2, <1>3, <1>4, <1>5 DEF Next

(* Whenever all calls are over, however they overlapped, there are no more *)
(* entries than allowed: of the threads that put one into the cache, the   *)
(* last one to do so looks at the limit once more and has all entries in   *)
(* its list.  If no two calls overlapped the usage is that of the entries, *)
(* and within its limit (evict_if_needed, update_memory_usage).            *)
THEOREM Settles == Spec => []CacheSettles
  <1>1. Settling => CacheSettles
    <2> SUFFICES ASSUME Settling, AllIdle PROVE
          /\ Cardinality(DOMAIN cache) <= max_entries
          /\ ~overlapped => InLimit
      BY DEF CacheSettles, InLimit, Total, Uses, Used, SumFunction
    <2>1. \A t \in Threads : ~WillEvict(t)
      BY DEF AllIdle, WillEvict
    <2> QED
      BY <2>1 DEF Settling, Room
  <1>2. Spec => []Settling
    BY SettlingInit, SettlingNext, CachingInvariant, PTL DEF Spec
  <1> QED
    BY <1>1, <1>2, PTL
=============================================================================
