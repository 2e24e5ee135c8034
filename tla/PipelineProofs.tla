--------------------------- MODULE PipelineProofs ---------------------------
(***************************************************************************)
(* Types, the digest cache, the coverage of the watches, and the verdicts on  *)
(* what goes to quarantine, for any trees, files, engines and capacities.    *)
(***************************************************************************)
EXTENDS Pipeline, Collections, TLAPS

---------------------------------------------------------------------------
(* Sequences and sets                                                      *)

---------------------------------------------------------------------------
(* The cache                                                               *)

\* The metadata of the key that process_events is reading a file for is no
\* newer than the file's.
ReadingOld ==
  At("read") => /\ proc.key.path = proc.path
                /\ proc.path \in Paths => proc.key.mtime \in Nat /\ proc.key.mtime <= mtime[proc.path]

\* Nor are the keys of the cache.
CachedOld ==
  \A k \in DOMAIN cache : k.path \in Paths => k.mtime \in Nat /\ k.mtime <= mtime[k.path]

Clocked ==
  /\ now \in Nat /\ mtime \in [Paths -> Nat] /\ \A p \in Paths : mtime[p] <= now
  /\ file \in [Paths -> Contents \cup {None}]

Shaped ==
  proc = [pc |-> proc.pc, path |-> proc.path, key |-> proc.key, digest |-> proc.digest,
          found |-> proc.found, torn |-> proc.torn]

Cached == Clocked /\ Shaped /\ ReadingOld /\ CachedOld /\ DigestTrue

\* What a step may do to files without a word to the cache: take them away.
Fades == /\ UNCHANGED <<now, mtime, again>>
         /\ file' \in [Paths -> Contents \cup {None}]
         /\ \A p \in Paths : file'[p] \in {file[p], None}
\* What process_events may do without starting to read: go on to another step.
Onward == Shaped' /\ (proc'.pc = "read" => proc' = proc)

LEMMA StillFades ==
  ASSUME Cached, UNCHANGED <<now, mtime, again, file>>
  PROVE  Fades
BY DEF Fades, Cached, Clocked

LEMMA StillOnward == ASSUME Cached, UNCHANGED proc PROVE Onward
BY DEF Onward, Shaped, Cached

LEMMA GoneFades == ASSUME Cached, NEW p, Gone(p), UNCHANGED <<now, mtime, again>> PROVE Fades
BY DEF Gone, Fades, Cached, Clocked

\* While the cache is left alone or emptied, and files only go, it stays true.
LEMMA FadingKeeps ==
  ASSUME Cached, Fades, Onward, cache' = cache \/ cache' = <<>>
  PROVE  Cached'
<1>1. Clocked' /\ Shaped'
  BY DEF Cached, Clocked, Fades, Onward
<1>2. ReadingOld'
  BY DEF Cached, ReadingOld, Fades, Onward, At
<1>3. DOMAIN cache' \subseteq DOMAIN cache /\ \A k \in DOMAIN cache' : cache'[k] = cache[k]
  <2>1. CASE cache' = <<>>
    <3>1. DOMAIN cache' = {}
      BY <2>1
    <3> QED BY <3>1
  <2> QED BY <2>1
<1>4. CachedOld'
  BY <1>3 DEF Cached, CachedOld, Fades
<1>5. DigestTrue'
  <2>1. SUFFICES ASSUME NEW p \in Paths, file'[p] # None, p \notin again, CacheKey(p)' \in DOMAIN cache'
                 PROVE  cache'[CacheKey(p)'] = file'[p]
    BY DEF DigestTrue, Fades
  <2>2. file'[p] = file[p] /\ mtime' = mtime
    BY <2>1 DEF Fades
  <2>3. CacheKey(p)' = CacheKey(p)
    BY <2>2 DEF CacheKey
  <2> QED BY <1>3, <2>1, <2>2, <2>3 DEF Cached, DigestTrue
<1> QED BY <1>1, <1>2, <1>4, <1>5 DEF Cached

\* A write leaves its file under a new key, or written twice at one mtime.
LEMMA PutKeeps ==
  ASSUME Cached, NEW p \in Paths, NEW c \in Contents, NEW kind, Put(p, c, kind)
  PROVE  Cached'
<1>1. PICK t \in now..(now + 1) :
        /\ now' = t
        /\ mtime' = [mtime EXCEPT ![p] = t]
        /\ again' = IF t = mtime[p] THEN again \cup {p} ELSE again \ {p}
  BY DEF Put
<1>2. /\ file' = [file EXCEPT ![p] = c]
      /\ proc' = proc \/ proc' = [proc EXCEPT !.torn = TRUE]
      /\ cache' = cache
  BY DEF Put, engine
<1>3. now \in Nat /\ t \in Nat /\ now <= t /\ mtime[p] \in Nat /\ mtime[p] <= t
  BY <1>1 DEF Cached, Clocked
<1>4. mtime' \in [Paths -> Nat] /\ \A q \in Paths : mtime[q] \in Nat /\ mtime'[q] \in Nat /\ mtime[q] <= mtime'[q]
  BY <1>1, <1>3 DEF Cached, Clocked
<1>5. Clocked'
  <2>1. \A q \in Paths : mtime'[q] <= now'
    BY <1>1, <1>3 DEF Cached, Clocked
  <2> QED BY <1>1, <1>2, <1>3, <1>4, <2>1 DEF Cached, Clocked
<1>6. Shaped' /\ proc'.pc = proc.pc /\ proc'.key = proc.key /\ proc'.path = proc.path
  BY <1>2 DEF Cached, Shaped
<1>7. ReadingOld'
  BY <1>4, <1>6 DEF Cached, ReadingOld, At
<1>8. CachedOld'
  BY <1>2, <1>4 DEF Cached, CachedOld
<1>9. DigestTrue'
  <2>1. SUFFICES ASSUME NEW q \in Paths, file'[q] # None, q \notin again', CacheKey(q)' \in DOMAIN cache'
                 PROVE  cache'[CacheKey(q)'] = file'[q]
    BY DEF DigestTrue
  <2>2. CASE q = p
    <3>1. t # mtime[p]
      BY <1>1, <2>1, <2>2
    <3>2. CacheKey(p)'.path = p /\ CacheKey(p)'.mtime = t
      BY <1>1 DEF CacheKey, Cached, Clocked
    <3>3. t <= mtime[p]
      BY <1>2, <2>1, <2>2, <3>2 DEF Cached, CachedOld
    <3> QED BY <1>3, <3>1, <3>3
  <2>3. CASE q # p
    <3>1. file'[q] = file[q] /\ mtime'[q] = mtime[q] /\ q \notin again
      BY <1>1, <1>2, <2>1, <2>3 DEF Cached, Clocked
    <3>2. CacheKey(q)' = CacheKey(q)
      BY <3>1 DEF CacheKey
    <3> QED BY <1>2, <2>1, <3>1, <3>2 DEF Cached, DigestTrue
  <2> QED BY <2>2, <2>3
<1> QED BY <1>5, <1>6, <1>7, <1>8, <1>9 DEF Cached

\* Lookup: the key a file is read under has the metadata of now.
LEMMA LookupKeeps == ASSUME Cached, Lookup PROVE Cached'
<1>1. UNCHANGED <<now, mtime, again, file, cache>> /\ Fades
  BY DEF Lookup, Step, outside, Fades, Cached, Clocked
<1>2. CASE Onward
  BY <1>1, <1>2, FadingKeeps
<1>3. CASE ~Onward
  <2>1. proc' = [proc EXCEPT !.pc = "read", !.key = CacheKey(proc.path)]
    BY <1>3 DEF Lookup, Step, Onward, Cached, Shaped, At
  <2>2. Shaped' /\ proc'.path = proc.path /\ proc'.key = CacheKey(proc.path)
    BY <2>1 DEF Cached, Shaped
  <2>3. ReadingOld'
    BY <1>1, <2>2 DEF ReadingOld, CacheKey, Cached, Clocked
  <2>4. Clocked' /\ CachedOld'
    BY <1>1 DEF Clocked, CachedOld, Cached
  <2>5. DigestTrue'
    BY <1>1 DEF DigestTrue, CacheKey, Cached
  <2> QED BY <2>2, <2>3, <2>4, <2>5 DEF Cached
<1> QED BY <1>2, <1>3

\* Read: the digest is that of the file as it is, whatever the key says.
LEMMA ReadKeeps == ASSUME Cached, Read PROVE Cached'
<1>1. UNCHANGED <<now, mtime, again, file>> /\ Fades
  BY DEF Read, Step, outside, Fades, Cached, Clocked
<1>2. Onward
  BY DEF Read, Step, Onward, Cached, Shaped
<1>3. CASE Content = None
  BY <1>1, <1>2, <1>3, FadingKeeps DEF Read
<1>4. CASE Content # None
  <2> DEFINE k0 == proc.key
  <2>1. cache' = [k \in DOMAIN cache \cup {k0} |-> IF k = k0 THEN file[proc.path] ELSE cache[k]]
    BY <1>4 DEF Read, Content
  <2>2. k0.path = proc.path /\ (proc.path \in Paths => k0.mtime \in Nat /\ k0.mtime <= mtime[proc.path])
    BY DEF Read, Cached, ReadingOld
  <2> HIDE DEF k0
  <2>3. CachedOld'
    BY <1>1, <2>1, <2>2 DEF CachedOld, Cached
  <2>4. DigestTrue'
    <3>1. SUFFICES ASSUME NEW p \in Paths, file[p] # None, p \notin again, CacheKey(p) \in DOMAIN cache'
                   PROVE  cache'[CacheKey(p)] = file[p]
      BY <1>1 DEF DigestTrue, CacheKey
    <3>2. CacheKey(p).path = p
      BY DEF CacheKey
    <3> QED BY <2>1, <2>2, <3>1, <3>2 DEF Cached, DigestTrue
  <2>5. Clocked' /\ Shaped' /\ ReadingOld'
    <3>1. proc'.pc = "yara"
      BY <1>4 DEF Read, Step, Cached, Shaped
    <3> QED BY <1>1, <1>2, <3>1 DEF Clocked, Onward, ReadingOld, At, Cached
  <2> QED BY <2>3, <2>4, <2>5 DEF Cached
<1> QED BY <1>3, <1>4

LEMMA CachedInit == Init => Cached
BY DEF Init, Cached, Clocked, Shaped, ReadingOld, CachedOld, DigestTrue, Idle, At

LEMMA CachedStep == Cached /\ [Next]_vars => Cached'
<1> SUFFICES ASSUME Cached, [Next]_vars PROVE Cached'
  OBVIOUS
<1>1. CASE Programs
  <2>1. CASE \E p \in Paths, c \in Contents : Write(p, c) \/ Create(p, c)
    BY <2>1, PutKeeps DEF Write, Create
  <2>2. CASE \E p \in Paths : Delete(p)
    <3>1. PICK p \in Paths : Delete(p)
      BY <2>2
    <3>2. UNCHANGED <<now, mtime, again, proc, cache>> /\ Gone(p)
      BY <3>1 DEF Delete, engine
    <3> QED BY <3>2, GoneFades, StillOnward, FadingKeeps
  <2>3. CASE \E d \in Dirs : MakeDir(d) \/ RemoveDir(d)
    <3>1. UNCHANGED <<now, mtime, again, file, proc, cache>>
      BY <2>3 DEF MakeDir, RemoveDir, engine
    <3> QED BY <3>1, StillFades, StillOnward, FadingKeeps
  <2> QED BY <1>1, <2>1, <2>2, <2>3 DEF Programs
<1>2. CASE Monitor
  <2>1. UNCHANGED <<now, mtime, again, file, proc, cache>>
    BY <1>2 DEF Monitor, Start, Watch, List, Started, Handle, FirstScan, Poll, fs, engine
  <2> QED BY <2>1, StillFades, StillOnward, FadingKeeps
<1>3. CASE Processor
  <2>1. CASE Lookup
    BY <2>1, LookupKeeps
  <2>2. CASE Read
    BY <2>2, ReadKeeps
  <2>3. CASE Subscribe \/ Lagged \/ Receive \/ Yara \/ StaticAndEvaluate \/ Notify
    <3>1. UNCHANGED <<now, mtime, again, file, cache>>
      BY <2>3 DEF Subscribe, Lagged, Receive, Yara, StaticAndEvaluate, Notify, Step, outside, fs, engine
    <3> USE <3>1, StillFades, FadingKeeps
    <3>2. CASE Subscribe \/ Lagged
      <4>1. UNCHANGED proc
        BY <3>2 DEF Subscribe, Lagged
      <4> QED BY <4>1, StillOnward
    <3>3. CASE Receive
      BY <3>3 DEF Receive, Onward, Shaped, Idle
    <3>4. CASE Yara
      BY <3>4 DEF Yara, Step, Onward, Shaped, Cached
    <3>5. CASE StaticAndEvaluate
      <4>1. \/ proc' = Idle
            \/ \E fd : \/ proc' = [proc EXCEPT !.found = fd, !.pc = "notify"]
                      \/ proc' = [proc EXCEPT !.found = fd, !.pc = "respond"]
        BY <3>5 DEF StaticAndEvaluate, Step
      <4>2. CASE proc' = Idle
        BY <4>2 DEF Onward, Shaped, Idle
      <4>3. ASSUME NEW fd, NEW s, s \in {"notify", "respond"}, proc' = [proc EXCEPT !.found = fd, !.pc = s]
            PROVE  Onward
        BY <4>3 DEF Onward, Shaped, Cached
      <4> QED BY <4>1, <4>2, <4>3
    <3>6. CASE Notify
      BY <3>6 DEF Notify, Step, Onward, Shaped, Idle, Cached
    <3> QED BY <2>3, <3>2, <3>3, <3>4, <3>5, <3>6
  <2>4. CASE Respond
    <3>1. UNCHANGED <<now, mtime, again, cache>> /\ proc' = Idle /\ (Gone(proc.path) \/ UNCHANGED file)
      BY <2>4 DEF Respond, outside
    <3>2. Fades
      BY <3>1, GoneFades, StillFades
    <3>3. Onward
      BY <3>1 DEF Onward, Shaped, Idle
    <3> QED BY <3>1, <3>2, <3>3, FadingKeeps
  <2> QED BY <1>3, <2>1, <2>2, <2>3, <2>4 DEF Processor
<1>4. CASE Intelligence
  <2>1. UNCHANGED <<now, mtime, again, file, proc>> /\ (cache' = cache \/ cache' = <<>>)
    BY <1>4 DEF Intelligence, Insert, LoadHashes, ClearCache, fs
  <2> QED BY <2>1, StillFades, StillOnward, FadingKeeps
<1>5. CASE Scanner
  <2>1. UNCHANGED <<now, mtime, again, proc, cache>> /\ (Gone(cli.path) \/ UNCHANGED file)
    BY <1>5 DEF Scanner, ScanFile, ScanResponds, outside, fs, engine
  <2> QED BY <2>1, GoneFades, StillFades, StillOnward, FadingKeeps
<1>6. CASE UNCHANGED vars
  <2>1. UNCHANGED <<now, mtime, again, file, proc, cache>>
    BY <1>6 DEF vars, fs, engine
  <2> QED BY <2>1, StillFades, StillOnward, FadingKeeps
<1> QED BY <1>1, <1>2, <1>3, <1>4, <1>5, <1>6 DEF Next

\* A cached digest is that of the content its file has under the key, for any number
\* of files and writes at any moment between the metadata and the reading, unless a
\* file is written twice at one mtime (HashEngine::compute_sha256).
THEOREM DigestsAreTrue == Spec => []DigestTrue
<1>1. Cached => DigestTrue
  BY DEF Cached
<1> QED BY <1>1, CachedInit, CachedStep, PTL DEF Spec

---------------------------------------------------------------------------
(* The watches                                                             *)

\* What is watched is there; before the start nothing is; the queue and the calls
\* of add_watch_recursive are sequences.
Watching ==
  /\ live \subseteq dirs /\ dirs \subseteq Dirs /\ spent \in Nat
  /\ mon = "off" => todo = <<>> /\ live = {}
  /\ IsListed(queue) /\ IsListed(todo)
  /\ DOMAIN known \subseteq Paths

Seen == Watching /\ Covered

\* d is on its way to be watched, in the words of Covered.
Coming(d) ==
  \/ [kind |-> "created", what |-> d] \in Range(queue)
  \/ d \in unseen
  \/ Call("watch", d) \in Range(todo)
  \/ Call("list", Parent[d]) \in Range(todo)

LEMMA CoveredComing ==
  ASSUME IsListed(todo)
  PROVE  Covered <=> \A d \in dirs \ Excluded : \/ Parent[d] \notin live
                                               \/ d \in live
                                               \/ spent >= Budget
                                               \/ Coming(d)
<1>1. \A d : (\E i \in 1..Len(todo) : todo[i] \in {Call("watch", d), Call("list", Parent[d])})
             <=> (Call("watch", d) \in Range(todo) \/ Call("list", Parent[d]) \in Range(todo))
  <2>1. DOMAIN todo = 1..Len(todo)
    BY DEF IsListed
  <2> QED BY <2>1 DEF Range
<1> QED BY <1>1 DEF Covered, Coming

LEMMA CoveredComingNext ==
  ASSUME IsListed(todo')
  PROVE  Covered' <=> \A d \in dirs' \ Excluded : \/ Parent[d] \notin live'
                                                 \/ d \in live'
                                                 \/ spent' >= Budget
                                                 \/ Coming(d)'
<1>1. \A d : (\E i \in 1..Len(todo') : todo'[i] \in {Call("watch", d), Call("list", Parent[d])})
             <=> (Call("watch", d) \in Range(todo') \/ Call("list", Parent[d]) \in Range(todo'))
  <2>1. DOMAIN todo' = 1..Len(todo')
    BY DEF IsListed
  <2> QED BY <2>1 DEF Range
<1> QED BY <1>1 DEF Covered, Coming

\* An event that is raised is in the queue when it is Queued, and drives none out.
LEMMA RaiseEffect ==
  ASSUME IsListed(queue), NEW d, NEW e, Raise(d, e)
  PROVE  /\ IsListed(queue') /\ Range(queue) \subseteq Range(queue')
         /\ Queued(d, e) => e \in Range(queue')
<1> DEFINE S == Range(queue) \cup {e}
<1>1. queue \in Seq(S) /\ e \in S
  BY DEF IsListed
<1>2. CASE queue' = Append(queue, e)
  <2>1. queue' \in Seq(S) /\ Range(queue') = Range(queue) \cup {e}
    BY <1>1, <1>2, MembersOfAppend
  <2> QED BY <2>1, ListedOfSeq
<1>3. CASE queue' = queue /\ ~(Queued(d, e) /\ ~Merged(e))
  <2>1. ASSUME Merged(e) PROVE e \in Range(queue)
    <3>1. queue # <<>> /\ e = queue[Len(queue)]
      BY <2>1 DEF Merged, Last
    <3>2. Len(queue) \in DOMAIN queue
      BY <1>1, <3>1
    <3> QED BY <3>1, <3>2 DEF Range
  <2> QED BY <1>3, <2>1
<1> QED BY <1>2, <1>3 DEF Raise

\* Steps that take nothing from the queue and leave directories and watches alone.
LEMMA Untouched ==
  ASSUME Seen, UNCHANGED <<dirs, live, spent, todo>>,
         IsListed(queue'), Range(queue) \subseteq Range(queue'), unseen' = unseen,
         mon' = mon \/ mon' # "off", DOMAIN known' \subseteq Paths
  PROVE  Seen'
<1>1. Watching'
  BY DEF Seen, Watching
<1>2. \A d : Coming(d) => Coming(d)'
  BY DEF Coming
<1>3. Covered'
  BY <1>1, <1>2, CoveredComing, CoveredComingNext DEF Seen, Watching
<1> QED BY <1>1, <1>3 DEF Seen

LEMMA GoneUntouched ==
  ASSUME Seen, NEW p, Gone(p), UNCHANGED <<dirs, unseen, monitor>>
  PROVE  Seen'
<1>1. Raise(DirOf[p], [kind |-> "deleted", what |-> p])
  BY DEF Gone
<1>2. IsListed(queue') /\ Range(queue) \subseteq Range(queue')
  BY <1>1, RaiseEffect DEF Seen, Watching
<1> QED BY <1>2, Untouched DEF monitor, Seen, Watching

\* A new directory is announced to its parent's watch, or the queue is full.
LEMMA MakeDirSeen == ASSUME Seen, NEW d \in Dirs, MakeDir(d) PROVE Seen'
<1> DEFINE e == [kind |-> "created", what |-> d]
<1>1. /\ d \notin dirs /\ dirs' = dirs \cup {d}
      /\ Raise(Parent[d], e)
      /\ unseen' = IF Queued(Parent[d], e) THEN unseen \ {d} ELSE unseen \cup {d}
      /\ UNCHANGED <<live, spent, todo, mon, known>>
  BY DEF MakeDir, monitor
<1>2. IsListed(queue') /\ Range(queue) \subseteq Range(queue') /\ (Queued(Parent[d], e) => e \in Range(queue'))
  BY <1>1, RaiseEffect DEF Seen, Watching
<1>3. Watching'
  BY <1>1, <1>2 DEF Seen, Watching
<1>4. Coming(d)'
  BY <1>1, <1>2 DEF Coming
<1>5. \A s : s # d /\ Coming(s) => Coming(s)'
  BY <1>1, <1>2 DEF Coming
<1>6. Covered'
  <2>1. \A s \in dirs \ Excluded : s # d => \/ Parent[s] \notin live
                                            \/ s \in live
                                            \/ spent >= Budget
                                            \/ Coming(s)'
    BY <1>5, CoveredComing DEF Seen, Watching
  <2> QED BY <1>1, <1>3, <1>4, <2>1, CoveredComingNext DEF Watching
<1> QED BY <1>3, <1>6 DEF Seen

\* The watch of a directory that goes is gone, and so are all below.
LEMMA RemoveDirSeen == ASSUME Seen, NEW d \in Dirs, RemoveDir(d) PROVE Seen'
<1>1. /\ dirs' = dirs \ {d} /\ live' = live \ {d}
      /\ Raise(Parent[d], [kind |-> "deleted", what |-> d])
      /\ UNCHANGED <<spent, todo, mon, known, unseen>>
  BY DEF RemoveDir
<1>2. IsListed(queue') /\ Range(queue) \subseteq Range(queue')
  BY <1>1, RaiseEffect DEF Seen, Watching
<1>3. Watching'
  BY <1>1, <1>2 DEF Seen, Watching
<1>4. \A s : Coming(s) => Coming(s)'
  BY <1>1, <1>2 DEF Coming
<1>5. Covered'
  <2>1. \A s \in dirs \ Excluded : \/ Parent[s] \notin live
                                   \/ s \in live
                                   \/ spent >= Budget
                                   \/ Coming(s)'
    BY <1>4, CoveredComing DEF Seen, Watching
  <2> QED BY <1>1, <1>3, <2>1, CoveredComingNext DEF Watching
<1> QED BY <1>3, <1>5 DEF Seen

\* The roots that are there are roots.
LEMMA WatchedListed == Watched \in Seq(Dirs)
<1> DEFINE I == {i \in DOMAIN Roots : Roots[i] \in dirs}
<1>1. Roots \in Seq(Dirs) /\ DOMAIN Roots = 1..Len(Roots) /\ Len(Roots) \in Nat
  BY PipelineAssumption
<1>2. I \subseteq 1..Len(Roots) /\ I \subseteq Int
  BY <1>1
<1>3. IsFiniteSet(I) /\ Cardinality(I) \in Nat
  <2>1. IsFiniteSet(1..Len(Roots))
    BY <1>1, FS_Interval
  <2> HIDE DEF I
  <2> QED BY <1>2, <2>1, FS_Subset, FS_CardinalityType
<1>4. Watched = [k \in 1..Cardinality(I) |-> Roots[Nth(I, k)]]
  BY DEF Watched, Chosen
<1> HIDE DEF I
<1>5. \A k \in 1..Cardinality(I) : Roots[Nth(I, k)] \in Dirs
  <2>1. \A k \in 1..Cardinality(I) : Nth(I, k) \in I
    BY <1>2, <1>3, NthIsThere
  <2>2. \A i \in I : Roots[i] \in Dirs
    BY <1>1, <1>2
  <2> QED BY <2>1, <2>2
<1> QED BY <1>3, <1>4, <1>5

\* The monitor starts with nothing watched: there is nothing to be behind with.
LEMMA StartSeen == ASSUME Seen, Start PROVE Seen'
<1>1. mon = "off" /\ mon' # "off" /\ UNCHANGED <<dirs, live, spent, queue, unseen, known>>
  BY DEF Start, fs
<1>2. Len(Watched) \in Nat
  BY WatchedListed
<1>3. IsListed(todo')
  <2>1. CASE todo' = [i \in 1..Len(Watched) |-> Call("watch", Watched[i])]
    <3>1. todo' \in Seq({Call("watch", Watched[i]) : i \in 1..Len(Watched)})
      BY <1>2, <2>1
    <3> QED BY <3>1, ListedOfSeq
  <2>2. CASE todo' = todo
    BY <2>2 DEF Seen, Watching
  <2> QED BY <2>1, <2>2 DEF Start
<1>4. Watching' /\ live' = {}
  BY <1>1, <1>3 DEF Seen, Watching
<1> QED BY <1>3, <1>4, CoveredComingNext DEF Seen

\* A call of add_watch_recursive ends with a watch and a list to do, or with the
\* directory gone or the budget spent.
LEMMA WatchSeen == ASSUME Seen, Watch PROVE Seen'
<1> DEFINE d == Head(todo).dir
           S == Range(todo) \cup {Call("list", d)}
<1>1. todo # <<>> /\ Head(todo).op = "watch" /\ UNCHANGED <<dirs, queue, unseen, mon, known>>
  BY DEF Watch, fs
<1>2. todo \in Seq(S)
  BY DEF Seen, Watching, IsListed
<1>3. Tail(todo) \in Seq(S) /\ Range(todo) = {Head(todo)} \cup Range(Tail(todo))
  BY <1>1, <1>2, MembersOfTail
<1>4. CASE spent < Budget /\ d \in dirs
  <2>1. /\ live' = live \cup {d} /\ spent' \in {spent, spent + 1}
        /\ todo' = <<Call("list", d)>> \o Tail(todo)
    BY <1>4 DEF Watch
  <2>2. <<Call("list", d)>> \in Seq(S) /\ Range(<<Call("list", d)>>) = {Call("list", d)}
    <3>1. DOMAIN <<Call("list", d)>> = {1} /\ <<Call("list", d)>>[1] = Call("list", d)
      OBVIOUS
    <3> QED BY <3>1 DEF Range
  <2>3. todo' \in Seq(S) /\ Range(todo') = {Call("list", d)} \cup Range(Tail(todo))
    <3> DEFINE s == <<Call("list", d)>>
               t == Tail(todo)
    <3>1. s \in Seq(S) /\ t \in Seq(S) /\ Range(s) = {Call("list", d)} /\ todo' = s \o t
      BY <1>3, <2>1, <2>2
    <3> HIDE DEF S, s, t
    <3>2. s \o t \in Seq(S) /\ Range(s \o t) = Range(s) \cup Range(t)
      BY <3>1, MembersOfConcat
    <3> QED BY <3>1, <3>2 DEF t
  <2>4. Watching'
    <3>1. IsListed(todo') /\ todo' # <<>>
      <4>1. Call("list", d) \in Range(todo')
        BY <2>3
      <4>2. todo' # <<>>
        BY <4>1 DEF Range
      <4> QED BY <2>3, <4>2, ListedOfSeq
    <3>2. live' \subseteq dirs' /\ spent' \in Nat /\ mon # "off"
      BY <1>1, <1>4, <2>1 DEF Seen, Watching
    <3> QED BY <1>1, <3>1, <3>2 DEF Seen, Watching
  <2>5. \A s : Coming(s) => s = d \/ Coming(s)'
    BY <1>1, <1>3, <2>3 DEF Coming, Call
  <2>6. \A s : Parent[s] = d => Coming(s)'
    BY <2>3 DEF Coming
  <2>7. Covered'
    <3>1. \A s \in dirs \ Excluded : Parent[s] \notin live \/ s \in live \/ Coming(s)
      BY <1>4, PipelineAssumption, CoveredComing DEF Seen, Watching
    <3> QED BY <1>1, <2>1, <2>4, <2>5, <2>6, <3>1, CoveredComingNext DEF Watching
  <2> QED BY <2>4, <2>7 DEF Seen
<1>5. CASE ~(spent < Budget /\ d \in dirs)
  <2>1. todo' = Tail(todo) /\ UNCHANGED <<live, spent>>
    BY <1>5 DEF Watch
  <2>2. Watching'
    BY <1>1, <1>3, <2>1, ListedOfSeq DEF Seen, Watching
  <2>3. \A s : Coming(s) => s = d \/ Coming(s)'
    BY <1>1, <1>3, <2>1 DEF Coming, Call
  <2>4. Covered'
    <3>1. \A s \in dirs \ Excluded : Parent[s] \notin live \/ s \in live \/ spent >= Budget \/ Coming(s)
      BY CoveredComing DEF Seen, Watching
    <3>2. spent < Budget => d \notin dirs
      BY <1>5
    <3>3. spent \in Nat /\ Budget \in Nat /\ UNCHANGED <<dirs, live, spent>> /\ IsListed(todo')
      BY <1>1, <2>1, <2>2, PipelineAssumption DEF Watching
    <3>4. \A s \in dirs \ Excluded : Parent[s] \notin live \/ s \in live \/ spent >= Budget \/ Coming(s)'
      BY <2>3, <3>1, <3>2, <3>3
    <3> QED BY <3>3, <3>4, CoveredComingNext
  <2> QED BY <2>2, <2>4 DEF Seen
<1> QED BY <1>4, <1>5

LEMMA ImageIsFinite ==
  ASSUME NEW X, IsFiniteSet(X), NEW f, f \in [X -> Range(f)]
  PROVE  IsFiniteSet(Range(f))
<1>1. f \in Surjection(X, Range(f))
  BY DEF Surjection, Range
<1> QED BY <1>1, FS_Surjection

\* The entries of a watched directory are watched in their turn.
LEMMA ListSeen == ASSUME Seen, List PROVE Seen'
<1> DEFINE d == Head(todo).dir
           C == {Call("watch", s) : s \in Below(d)}
           S == Range(todo) \cup C
<1>1. /\ todo # <<>> /\ Head(todo).op = "list" /\ UNCHANGED <<dirs, live, spent, queue, unseen, mon, known>>
      /\ todo' = SetToSeq(C) \o Tail(todo)
  BY DEF List, fs
<1>2. todo \in Seq(S)
  BY DEF Seen, Watching, IsListed
<1>3. Tail(todo) \in Seq(S) /\ Range(todo) = {Head(todo)} \cup Range(Tail(todo))
  BY <1>1, <1>2, MembersOfTail
<1>4. IsFiniteSet(C)
  <2>1. IsFiniteSet(Below(d))
    BY PipelineAssumption, FS_Subset DEF Below, Seen, Watching
  <2> DEFINE g == [s \in Below(d) |-> Call("watch", s)]
  <2>2. Range(g) = C
    BY DEF Range
  <2>3. g \in [Below(d) -> Range(g)]
    BY <2>2
  <2> HIDE DEF g, C
  <2> QED BY <2>1, <2>2, <2>3, ImageIsFinite
<1> HIDE DEF C
<1>5. SetToSeq(C) \in Seq(S) /\ Range(SetToSeq(C)) = C
  BY <1>4, SetToSeqLists
<1>6. todo' \in Seq(S) /\ Range(todo') = C \cup Range(Tail(todo))
  <2> DEFINE s == SetToSeq(C)
             t == Tail(todo)
  <2>1. s \in Seq(S) /\ t \in Seq(S) /\ Range(s) = C /\ todo' = s \o t
    BY <1>1, <1>3, <1>5
  <2> HIDE DEF S, s, t
  <2>2. s \o t \in Seq(S) /\ Range(s \o t) = Range(s) \cup Range(t)
    BY <2>1, MembersOfConcat
  <2> QED BY <2>1, <2>2 DEF t
<1>7. Watching'
  BY <1>1, <1>6, ListedOfSeq DEF Seen, Watching
<1>8. \A s \in dirs \ Excluded : Coming(s) => Coming(s)'
  <2>1. SUFFICES ASSUME NEW s \in dirs \ Excluded, Call("list", Parent[s]) = Head(todo)
                 PROVE  Call("watch", s) \in C
    BY <1>1, <1>3, <1>6 DEF Coming, Call
  <2>2. Parent[s] = d
    BY <2>1 DEF Call
  <2> QED BY <2>1, <2>2 DEF C, Below
<1>9. Covered'
  <2>1. \A s \in dirs \ Excluded : Parent[s] \notin live \/ s \in live \/ spent >= Budget \/ Coming(s)
    BY CoveredComing DEF Seen, Watching
  <2> QED BY <1>1, <1>7, <1>8, <2>1, CoveredComingNext DEF Watching
<1> QED BY <1>7, <1>9 DEF Seen

\* The creation of a directory leaves the queue for a call of add_watch_recursive.
LEMMA HandleSeen == ASSUME Seen, Handle PROVE Seen'
<1> DEFINE e == Head(queue)
<1>1. /\ todo = <<>> /\ queue # <<>> /\ queue' = Tail(queue)
      /\ UNCHANGED <<dirs, live, spent, unseen, mon, known>> /\ mon # "off"
  BY DEF Handle, fs
<1>2. queue \in Seq(Range(queue))
  BY DEF Seen, Watching, IsListed
<1>3. queue' \in Seq(Range(queue)) /\ Range(queue) = {e} \cup Range(queue')
  BY <1>1, <1>2, MembersOfTail
<1>4. \/ todo' = todo
      \/ e.what \in Dirs /\ todo' = <<Call("watch", e.what)>>
  BY DEF Handle, Send
<1>5. IsListed(todo') /\ Range(todo) = {}
      /\ (e.what \in Dirs \ Excluded /\ e.kind = "created" => Call("watch", e.what) \in Range(todo'))
  <2>1. Range(todo) = {}
    BY <1>1 DEF Range
  <2>2. CASE todo' = <<Call("watch", e.what)>>
    <3>1. DOMAIN todo' = {1} /\ todo'[1] = Call("watch", e.what) /\ todo' \in Seq({Call("watch", e.what)})
      BY <2>2
    <3> QED BY <2>1, <3>1, ListedOfSeq DEF Range
  <2>3. CASE todo' # <<Call("watch", e.what)>>
    BY <1>4, <2>1, <2>3 DEF Handle, Seen, Watching
  <2> QED BY <2>2, <2>3
<1>6. Watching'
  BY <1>1, <1>3, <1>5, ListedOfSeq DEF Seen, Watching
<1>7. \A s \in dirs \ Excluded : Coming(s) => Coming(s)'
  <2>1. SUFFICES ASSUME NEW s \in dirs \ Excluded, [kind |-> "created", what |-> s] = e
                 PROVE  Call("watch", s) \in Range(todo')
    BY <1>1, <1>3, <1>5 DEF Coming
  <2>2. e.what = s /\ e.kind = "created" /\ s \in Dirs
    BY <2>1 DEF Seen, Watching
  <2> QED BY <1>5, <2>1, <2>2
<1>8. Covered'
  <2>1. \A s \in dirs \ Excluded : Parent[s] \notin live \/ s \in live \/ spent >= Budget \/ Coming(s)
    BY CoveredComing DEF Seen, Watching
  <2> QED BY <1>1, <1>6, <1>7, <2>1, CoveredComingNext DEF Watching
<1> QED BY <1>6, <1>8 DEF Seen

LEMMA EventsListed ==
  ASSUME NEW kind, NEW ps, ps \subseteq Paths
  PROVE  LET s == SetToSeq({[kind |-> kind, what |-> p] : p \in ps}) IN s \in Seq(Range(s))
<1> DEFINE g == [p \in ps |-> [kind |-> kind, what |-> p]]
           E == {[kind |-> kind, what |-> p] : p \in ps}
<1>1. Range(g) = E /\ g \in [ps -> E]
  BY DEF Range
<1>2. IsFiniteSet(ps)
  BY PipelineAssumption, FS_Subset
<1> HIDE DEF g
<1>3. IsFiniteSet(E)
  BY <1>1, <1>2, ImageIsFinite
<1> QED BY <1>3, SetToSeqLists

LEMMA ConcatListed ==
  ASSUME NEW s, NEW t, s \in Seq(Range(s)), t \in Seq(Range(t))
  PROVE  s \o t \in Seq(Range(s \o t))
<1> DEFINE S == Range(s) \cup Range(t)
<1>1. s \in Seq(S) /\ t \in Seq(S)
  OBVIOUS
<1>2. s \o t \in Seq(S)
  BY <1>1, MembersOfConcat
<1> QED BY <1>2, ListedOfSeq DEF IsListed

\* A round of polling begins when all of the last one is sent.
LEMMA PollSeen == ASSUME Seen, Poll PROVE Seen'
<1> DEFINE seen == Scan({roots[turn]})
           says(kind, ps) == SetToSeq({[kind |-> kind, what |-> p] : p \in ps})
           made == DOMAIN seen \ DOMAIN known
           changed == {p \in DOMAIN seen \cap DOMAIN known : seen[p] > known[p]}
           left == DOMAIN known \ DOMAIN seen
<1>1. mon = "poll" /\ queue = <<>> /\ UNCHANGED <<dirs, live, spent, todo, unseen, mon>>
  BY DEF Poll, fs
<1>2. \/ UNCHANGED <<queue, known>>
      \/ known' = seen /\ queue' = says("created", made) \o says("modified", changed) \o says("deleted", left)
  BY DEF Poll
<1>3. DOMAIN seen \subseteq Paths
  BY DEF Scan
<1> HIDE DEF seen
<1>4. made \subseteq Paths /\ changed \subseteq Paths /\ left \subseteq Paths
  BY <1>3 DEF Seen, Watching
<1>5. IsListed(queue')
  <2>1. CASE UNCHANGED queue
    BY <2>1 DEF Seen, Watching
  <2>2. CASE queue' = says("created", made) \o says("modified", changed) \o says("deleted", left)
    <3> HIDE DEF made, changed, left
    <3>1. IsListed(says("created", made)) /\ IsListed(says("modified", changed)) /\ IsListed(says("deleted", left))
      BY <1>4, EventsListed DEF IsListed
    <3> HIDE DEF says
    <3>2. IsListed(says("created", made) \o says("modified", changed))
      BY <3>1, ConcatListed DEF IsListed
    <3> QED BY <2>2, <3>1, <3>2, ConcatListed DEF IsListed
  <2> QED BY <1>2, <2>1, <2>2
<1>6. Range(queue) = {} /\ DOMAIN known' \subseteq Paths
  BY <1>1, <1>2, <1>3 DEF Range, Seen, Watching
<1> QED BY <1>1, <1>5, <1>6, Untouched

LEMMA SeenInit == Init => Seen
<1> SUFFICES ASSUME Init PROVE Seen
  OBVIOUS
<1>1. dirs \subseteq Dirs
  <2>1. \A n \in 1..Len(Roots) : {Roots[i] : i \in 1..n} \subseteq Dirs
    BY PipelineAssumption
  <2> QED BY <2>1 DEF Init
<1>2. IsListed(queue) /\ IsListed(todo)
  BY DEF Init, IsListed
<1>3. DOMAIN known = {}
  BY DEF Init
<1>4. Watching
  BY <1>1, <1>2, <1>3 DEF Init, Watching
<1> QED BY <1>4 DEF Init, Seen, Covered

LEMMA SeenStep == Seen /\ [Next]_vars => Seen'
<1> SUFFICES ASSUME Seen, [Next]_vars PROVE Seen'
  OBVIOUS
<1> DEFINE Still == UNCHANGED <<dirs, live, spent, todo, queue, unseen, known, mon>>
<1>0. Still => Seen'
  BY Untouched DEF Seen, Watching
<1>1. CASE Programs
  <2>1. ASSUME NEW p \in Paths, NEW c \in Contents, NEW kind, Put(p, c, kind) PROVE Seen'
    <3>1. Raise(DirOf[p], [kind |-> kind, what |-> p]) /\ UNCHANGED <<dirs, unseen, monitor>>
      BY <2>1 DEF Put
    <3>2. IsListed(queue') /\ Range(queue) \subseteq Range(queue')
      BY <3>1, RaiseEffect DEF Seen, Watching
    <3> QED BY <3>1, <3>2, Untouched DEF monitor, Seen, Watching
  <2>2. ASSUME NEW p \in Paths, Delete(p) PROVE Seen'
    BY <2>2, GoneUntouched DEF Delete
  <2> QED BY <1>1, <2>1, <2>2, MakeDirSeen, RemoveDirSeen DEF Programs, Write, Create
<1>2. CASE Monitor
  <2>1. CASE Started \/ FirstScan
    <3>1. /\ UNCHANGED <<dirs, live, spent, todo, queue, unseen>> /\ mon' # "off"
          /\ known' = known \/ known' = Scan(Range(roots))
      BY <2>1 DEF Started, FirstScan, fs
    <3>2. DOMAIN known' \subseteq Paths
      BY <3>1 DEF Scan, Seen, Watching
    <3> QED BY <3>1, <3>2, Untouched DEF Seen, Watching
  <2> QED BY <1>2, <2>1, StartSeen, WatchSeen, ListSeen, HandleSeen, PollSeen DEF Monitor
<1>3. CASE Processor
  <2>1. CASE Respond
    <3>1. UNCHANGED <<dirs, unseen, monitor>> /\ (Gone(proc.path) \/ UNCHANGED queue)
      BY <2>1 DEF Respond, outside
    <3> QED BY <1>0, <3>1, GoneUntouched DEF monitor
  <2>2. CASE ~Respond
    <3>1. Still
      BY <1>3, <2>2 DEF Processor, Subscribe, Lagged, Receive, Lookup, Read, Yara, StaticAndEvaluate, Notify,
            Step, outside, monitor, fs
    <3> QED BY <1>0, <3>1
  <2> QED BY <2>1, <2>2
<1>4. CASE Intelligence
  <2>1. Still
    BY <1>4 DEF Intelligence, Insert, LoadHashes, ClearCache, fs, monitor
  <2> QED BY <1>0, <2>1
<1>5. CASE Scanner
  <2>1. UNCHANGED <<dirs, unseen, monitor>> /\ (Gone(cli.path) \/ UNCHANGED queue)
    BY <1>5 DEF Scanner, ScanFile, ScanResponds, outside, fs
  <2> QED BY <1>0, <2>1, GoneUntouched DEF monitor
<1>6. CASE UNCHANGED vars
  <2>1. Still
    BY <1>6 DEF vars, fs, monitor
  <2> QED BY <1>0, <2>1
<1> QED BY <1>1, <1>2, <1>3, <1>4, <1>5, <1>6 DEF Next

\* For any tree, budget and queue: a directory in a watched one is watched, or its
\* watch is on the way, or the budget is spent, or the kernel's queue was full when it
\* came (InotifyBackend::add_watch_recursive and run).
THEOREM TreesAreCovered == Spec => []Covered
<1>1. Seen => Covered
  BY DEF Seen
<1> QED BY <1>1, SeenInit, SeenStep, PTL DEF Spec

---------------------------------------------------------------------------
(* The verdict                                                             *)

Detection ==
  [engine : {"Hash", "Yara", "StaticAnalysis"}, rule : DOMAIN Rule \cup {"STATIC-RISK", "HASH-MALWARE"},
   score : 0..100, conf : 0..100]
WeightsOf(ds) == [d \in ds |-> Weight[d.engine]]
ScoresOf(ds) == [d \in ds |-> Weighted(d)]

\* What MapThenSumSet adds up is a sum.
LEMMA WeightsAdd ==
  ASSUME NEW ds, IsFiniteSet(ds)
  PROVE  \E f : Sums(f, WeightsOf(ds), ds) /\ MapThenSumSet(LAMBDA d : Weight[d.engine], ds) = f[ds]
<1> DEFINE g == WeightsOf(ds)
           Adding(f) == [s \in SUBSET ds |->
                         IF s = {} THEN 0
                         ELSE Weight[(CHOOSE x \in s : TRUE).engine] + f[s \ {CHOOSE x \in s : TRUE}]]
           sum == CHOOSE f : f = Adding(f)
<1>1. ASSUME NEW f PROVE Sums(f, g, ds) <=> f = Adding(f)
  <2>1. \A s \in SUBSET ds : s # {} => g[Picked(s)] = Weight[(CHOOSE x \in s : TRUE).engine]
    BY PickedIn DEF Picked, WeightsOf
  <2>2. [s \in SUBSET ds |-> IF s = {} THEN 0 ELSE g[Picked(s)] + f[s \ {Picked(s)}]] = Adding(f)
    BY <2>1 DEF Picked
  <2> QED BY <2>2 DEF Sums
<1>2. MapThenSumSet(LAMBDA d : Weight[d.engine], ds) = sum[ds]
  BY DEF MapThenSumSet, MapThenFoldSet
<1> HIDE DEF Adding, g
<1>3. PICK f : Sums(f, g, ds)
  BY SumExists
<1>4. sum = Adding(sum)
  BY <1>1, <1>3
<1> HIDE DEF sum
<1>5. Sums(sum, g, ds)
  BY <1>1, <1>4
<1> QED BY <1>2, <1>5 DEF g

LEMMA ScoresAdd ==
  ASSUME NEW ds, IsFiniteSet(ds)
  PROVE  \E f : Sums(f, ScoresOf(ds), ds) /\ MapThenSumSet(Weighted, ds) = f[ds]
<1> DEFINE g == ScoresOf(ds)
           Adding(f) == [s \in SUBSET ds |->
                         IF s = {} THEN 0
                         ELSE Weighted(CHOOSE x \in s : TRUE) + f[s \ {CHOOSE x \in s : TRUE}]]
           sum == CHOOSE f : f = Adding(f)
<1>1. ASSUME NEW f PROVE Sums(f, g, ds) <=> f = Adding(f)
  <2>1. \A s \in SUBSET ds : s # {} => g[Picked(s)] = Weighted(CHOOSE x \in s : TRUE)
    BY PickedIn DEF Picked, ScoresOf
  <2>2. [s \in SUBSET ds |-> IF s = {} THEN 0 ELSE g[Picked(s)] + f[s \ {Picked(s)}]] = Adding(f)
    BY <2>1 DEF Picked
  <2> QED BY <2>2 DEF Sums
<1>2. MapThenSumSet(Weighted, ds) = sum[ds]
  BY DEF MapThenSumSet, MapThenFoldSet
<1> HIDE DEF Adding, g
<1>3. PICK f : Sums(f, g, ds)
  BY SumExists
<1>4. sum = Adding(sum)
  BY <1>1, <1>3
<1> HIDE DEF sum
<1>5. Sums(sum, g, ds)
  BY <1>1, <1>4
<1> QED BY <1>2, <1>5 DEF g

\* No detection counts for more than the weight of its engine.
LEMMA WeightedBelow ==
  ASSUME NEW d \in Detection
  PROVE  /\ Weight[d.engine] \in Nat \ {0} /\ Weighted(d) \in Nat
         /\ Weighted(d) <= Weight[d.engine]
<1> DEFINE w == Weight[d.engine]
           n == (d.score * d.conf) \div 100
<1>1. w \in Nat \ {0} /\ d.score \in 0..100 /\ d.conf \in 0..100
  BY DEF Detection, Weight
<1> HIDE DEF w
<1>2. d.score * d.conf \in Nat /\ d.score * d.conf <= 100 * 100
  <2> DEFINE a == d.score
             b == d.conf
  <2>1. a \in 0..100 /\ b \in 0..100
    BY <1>1
  <2> HIDE DEF a, b
  <2>2. a * b \in Nat /\ a * b <= 100 * b /\ 100 * b <= 100 * 100
    BY <2>1
  <2>3. a * b <= 100 * 100
    BY <2>1, <2>2
  <2> QED BY <2>2, <2>3 DEF a, b
<1>3. n \in Nat /\ n <= 100
  BY <1>2
<1> HIDE DEF n
<1>4. n * w \in Nat /\ n * w <= 100 * w
  BY <1>1, <1>3
<1>5. (n * w) \div 100 \in Nat /\ (n * w) \div 100 <= w
  BY <1>1, <1>4
<1>6. Weighted(d) = (n * w) \div 100
  BY DEF Weighted, n, w
<1> QED BY <1>1, <1>5, <1>6 DEF w

LEMMA AverageGrows ==
  ASSUME NEW W \in Nat, NEW T \in Nat \ {0}, NEW h \in Nat, W <= T
  PROVE  (W * 100) \div T <= ((W + h) * 100) \div (T + h)
<1> DEFINE q == (W * 100) \div T
<1>1. q \in Nat /\ q * T <= W * 100
  OBVIOUS
<1>2. q <= 100
  OBVIOUS
<1> HIDE DEF q
<1>3. q * h <= 100 * h
  BY <1>1, <1>2
<1>4. q * (T + h) = q * T + q * h
  BY <1>1
<1>5. q * (T + h) <= (W + h) * 100
  BY <1>1, <1>3, <1>4
<1> DEFINE n == (W + h) * 100
           k == T + h
<1>6. n \in Nat /\ k \in Nat \ {0} /\ q * k <= n
  BY <1>5
<1> HIDE DEF n, k
<1>7. q <= n \div k
  BY <1>1, <1>6
<1> QED BY <1>7 DEF q, n, k
\* The verdict on detections, with their sums.
LEMMA EvaluateIs ==
  ASSUME NEW ds \in SUBSET Detection, IsFiniteSet(ds)
  PROVE  \E W \in Nat, T \in Nat :
           /\ W <= T /\ (T = 0 <=> ds = {})
           /\ \E f : Sums(f, ScoresOf(ds), ds) /\ f[ds] = W
           /\ \E f : Sums(f, WeightsOf(ds), ds) /\ f[ds] = T
           /\ Evaluate(ds) = IF T = 0 THEN 0 ELSE (W * 100) \div T
<1>1. PICK f : Sums(f, WeightsOf(ds), ds) /\ MapThenSumSet(LAMBDA d : Weight[d.engine], ds) = f[ds]
  BY WeightsAdd
<1>2. PICK h : Sums(h, ScoresOf(ds), ds) /\ MapThenSumSet(Weighted, ds) = h[ds]
  BY ScoresAdd
<1>3. \A x \in ds : /\ WeightsOf(ds)[x] \in Nat \ {0} /\ ScoresOf(ds)[x] \in Nat
                    /\ ScoresOf(ds)[x] <= WeightsOf(ds)[x]
  BY WeightedBelow DEF WeightsOf, ScoresOf
<1>4. h \in [SUBSET ds -> Nat] /\ f \in [SUBSET ds -> Nat]
  BY <1>1, <1>2, <1>3, SumNat
<1>5. h[ds] <= f[ds]
  BY <1>1, <1>2, <1>3, SumBelow
<1>6. f[ds] = 0 <=> ds = {}
  <2>1. ds = {} => f[ds] = 0
    BY <1>1 DEF Sums
  <2>2. ASSUME ds # {} PROVE f[ds] # 0
    <3> DEFINE x == Picked(ds)
    <3>1. x \in ds /\ f[ds] = WeightsOf(ds)[x] + f[ds \ {x}]
      BY <1>1, <2>2, PickedIn DEF Sums
    <3> HIDE DEF x
    <3> QED BY <1>3, <1>4, <3>1
  <2> QED BY <2>1, <2>2
<1>7. Evaluate(ds) = IF f[ds] = 0 THEN 0 ELSE (h[ds] * 100) \div f[ds]
  BY <1>1, <1>2 DEF Evaluate
<1> QED BY <1>1, <1>2, <1>4, <1>5, <1>6, <1>7

\* For any detections of the engines: the hash of known malware never lowers the
\* verdict, average that it is; any other detection may (RiskEngine::evaluate).
THEOREM HashNeverLowers ==
  ASSUME NEW ds \in SUBSET Detection, IsFiniteSet(ds), KnownHash \notin ds
  PROVE  /\ Evaluate(ds) \in Nat
         /\ Evaluate(ds) <= Evaluate(ds \cup {KnownHash})
<1> DEFINE all == ds \cup {KnownHash}
<1>1. KnownHash \in Detection /\ Weighted(KnownHash) = 80 /\ Weight[KnownHash.engine] = 80
  <2>1. KnownHash \in Detection
    BY DEF KnownHash, Detection
  <2>2. /\ KnownHash.score = 100 /\ KnownHash.conf = 100 /\ KnownHash.engine = "Hash"
        /\ Weight["Hash"] = 80
    BY DEF KnownHash, Weight
  <2>3. (100 * 100) \div 100 = 100 /\ (100 * 80) \div 100 = 80
    OBVIOUS
  <2> QED BY <2>1, <2>2, <2>3 DEF Weighted
<1>2. all \in SUBSET Detection /\ IsFiniteSet(all) /\ all # {}
  BY <1>1, FS_AddElement
<1>3. PICK W \in Nat, T \in Nat :
           /\ W <= T /\ (T = 0 <=> ds = {})
           /\ \E f : Sums(f, ScoresOf(ds), ds) /\ f[ds] = W
           /\ \E f : Sums(f, WeightsOf(ds), ds) /\ f[ds] = T
           /\ Evaluate(ds) = IF T = 0 THEN 0 ELSE (W * 100) \div T
  BY EvaluateIs
<1>4. PICK V \in Nat, U \in Nat :
           /\ V <= U /\ (U = 0 <=> all = {})
           /\ \E f : Sums(f, ScoresOf(all), all) /\ f[all] = V
           /\ \E f : Sums(f, WeightsOf(all), all) /\ f[all] = U
           /\ Evaluate(all) = IF U = 0 THEN 0 ELSE (V * 100) \div U
  <2> HIDE DEF all
  <2> QED BY <1>2, EvaluateIs
<1>5. V = 80 + W
  <2>1. PICK f : Sums(f, ScoresOf(ds), ds) /\ f[ds] = W
    BY <1>3
  <2>2. PICK h : Sums(h, ScoresOf(all), all) /\ h[all] = V
    BY <1>4
  <2>3. Sums(f, ScoresOf(all), ds)
    <3>1. \A x \in ds : ScoresOf(ds)[x] = ScoresOf(all)[x]
      BY DEF ScoresOf
    <3> HIDE DEF all
    <3> QED BY <2>1, <3>1, SumSame
  <2>4. (\A x \in all : ScoresOf(all)[x] \in Nat) /\ ScoresOf(all)[KnownHash] = 80
    BY <1>1, <1>2, WeightedBelow DEF ScoresOf
  <2>5. PICK g : g = ScoresOf(all)
    OBVIOUS
  <2>6. h[ds \cup {KnownHash}] = g[KnownHash] + f[ds]
    <3>1. Sums(f, g, ds) /\ Sums(h, g, ds \cup {KnownHash})
      BY <2>2, <2>3, <2>5
    <3>2. \A x \in ds \cup {KnownHash} : g[x] \in Nat
      BY <2>4, <2>5
    <3> HIDE DEF all
    <3> QED BY <3>1, <3>2, SumWithOne
  <2> QED BY <2>1, <2>2, <2>4, <2>5, <2>6
<1>6. U = 80 + T
  <2>1. PICK f : Sums(f, WeightsOf(ds), ds) /\ f[ds] = T
    BY <1>3
  <2>2. PICK h : Sums(h, WeightsOf(all), all) /\ h[all] = U
    BY <1>4
  <2>3. Sums(f, WeightsOf(all), ds)
    <3>1. \A x \in ds : WeightsOf(ds)[x] = WeightsOf(all)[x]
      BY DEF WeightsOf
    <3> HIDE DEF all
    <3> QED BY <2>1, <3>1, SumSame
  <2>4. (\A x \in all : WeightsOf(all)[x] \in Nat) /\ WeightsOf(all)[KnownHash] = 80
    BY <1>1, <1>2, WeightedBelow DEF WeightsOf
  <2>5. PICK g : g = WeightsOf(all)
    OBVIOUS
  <2>6. h[ds \cup {KnownHash}] = g[KnownHash] + f[ds]
    <3>1. Sums(f, g, ds) /\ Sums(h, g, ds \cup {KnownHash})
      BY <2>2, <2>3, <2>5
    <3>2. \A x \in ds \cup {KnownHash} : g[x] \in Nat
      BY <2>4, <2>5
    <3> HIDE DEF all
    <3> QED BY <3>1, <3>2, SumWithOne
  <2> QED BY <2>1, <2>2, <2>4, <2>5, <2>6
<1>7. Evaluate(all) = ((W + 80) * 100) \div (T + 80)
  BY <1>4, <1>5, <1>6
<1>8. CASE T = 0
  BY <1>3, <1>7, <1>8
<1>9. CASE T # 0
  BY <1>3, <1>7, <1>9, AverageGrows
<1> QED BY <1>8, <1>9

---------------------------------------------------------------------------
(* Types                                                                   *)

Busy == proc.pc \notin {"idle", "dead"}

FsTyped ==
  /\ now \in 1..MaxTime /\ mtime \in [Paths -> 0..MaxTime] /\ ops \in 0..MaxOps
  /\ file \in [Paths -> Contents \cup {None}] /\ dirs \subseteq Dirs
  /\ queue \in Seq(Event)
  /\ again \subseteq Paths /\ unseen \subseteq Dirs /\ owed \subseteq Paths

\* The root to scan next is one of those there are, when polling begins the first.
MonTyped ==
  /\ mon \in {"off", "watching", "run", "first", "poll"}
  /\ live \subseteq dirs /\ spent \in 0..Budget
  /\ todo \in Seq([op : {"watch", "list"}, dir : Dirs])
  /\ DOMAIN known \subseteq Paths
  /\ roots \in Seq(Dirs) /\ turn \in {1} \cup DOMAIN roots
  /\ mon = "off" => turn = 1

BusTyped ==
  /\ bus \in Seq(Event) /\ Len(bus) <= BusCap
  /\ subscribed \in BOOLEAN /\ lagged \in BOOLEAN

\* process_events has a file, and a key while it reads.
ProcTyped ==
  /\ Shaped
  /\ proc.pc \in {"idle", "lookup", "read", "yara", "static", "notify", "respond", "dead"}
  /\ proc.digest \in Contents \cup {None} /\ proc.key \in Keys \cup {None}
  /\ Busy => proc.path \in Paths
  /\ At("read") => proc.key \in Keys

EngineTyped ==
  /\ DOMAIN cache \subseteq Keys /\ \A k \in DOMAIN cache : cache[k] \in Contents
  /\ hashes \subseteq Contents /\ table \subseteq {Indicator(e) : e \in Accepted}
  /\ stale \in BOOLEAN

CliTyped == cli.pc \in {"idle", "respond"} /\ (cli.pc = "respond" => cli.path \in Paths)

Typed == FsTyped /\ MonTyped /\ BusTyped /\ ProcTyped /\ EngineTyped /\ CliTyped

LEMMA TypedImplies == Typed => TypeOK
BY DEF Typed, FsTyped, MonTyped, BusTyped, ProcTyped, EngineTyped, TypeOK

LEMMA TypedInit == Init => Typed
<1> SUFFICES ASSUME Init PROVE Typed
  OBVIOUS
<1>1. dirs \subseteq Dirs
  <2>1. \A n \in 1..Len(Roots) : {Roots[i] : i \in 1..n} \subseteq Dirs
    BY PipelineAssumption
  <2> QED BY <2>1 DEF Init
<1>2. FsTyped
  BY <1>1, PipelineAssumption DEF Init, FsTyped
<1>3. MonTyped
  <2>1. DOMAIN known = {} /\ todo \in Seq([op : {"watch", "list"}, dir : Dirs]) /\ roots \in Seq(Dirs)
    BY DEF Init
  <2> QED BY <1>1, <2>1, PipelineAssumption DEF Init, MonTyped
<1>4. BusTyped
  <2>1. bus = <<>> /\ subscribed = FALSE /\ lagged = FALSE
    BY DEF Init
  <2>2. bus \in Seq(Event) /\ Len(bus) = 0 /\ 0 <= BusCap
    BY <2>1, PipelineAssumption
  <2> QED BY <2>1, <2>2 DEF BusTyped
<1>5. ProcTyped /\ CliTyped
  BY DEF Init, ProcTyped, CliTyped, Idle, Shaped, Busy, At
<1>6. EngineTyped
  <2>1. DOMAIN cache = {}
    BY DEF Init
  <2> QED BY <2>1 DEF Init, EngineTyped
<1> QED BY <1>2, <1>3, <1>4, <1>5, <1>6 DEF Typed

LEMMA RaiseTyped ==
  ASSUME queue \in Seq(Event), NEW d, NEW e \in Event, Raise(d, e)
  PROVE  queue' \in Seq(Event)
BY DEF Raise

LEMMA GoneTyped ==
  ASSUME FsTyped, NEW p \in Paths, Gone(p)
  PROVE  /\ file' \in [Paths -> Contents \cup {None}] /\ owed' \subseteq Paths
         /\ queue' \in Seq(Event)
<1>1. [kind |-> "deleted", what |-> p] \in Event
  BY DEF Event
<1> QED BY <1>1, RaiseTyped DEF Gone, FsTyped

LEMMA EventsTyped ==
  ASSUME NEW kind \in {"created", "modified", "deleted"}, NEW ps, ps \subseteq Paths
  PROVE  SetToSeq({[kind |-> kind, what |-> p] : p \in ps}) \in Seq(Event)
<1> DEFINE g == [p \in ps |-> [kind |-> kind, what |-> p]]
           E == {[kind |-> kind, what |-> p] : p \in ps}
<1>1. Range(g) = E /\ g \in [ps -> E] /\ E \subseteq Event
  BY DEF Range, Event
<1>2. IsFiniteSet(ps)
  BY PipelineAssumption, FS_Subset
<1> HIDE DEF g, E
<1>3. IsFiniteSet(E)
  BY <1>1, <1>2, ImageIsFinite
<1>4. SetToSeq(E) \in Seq(E)
  BY <1>3, SetToSeqLists
<1>5. SetToSeq(E) \in Seq(Event)
  BY <1>1, <1>4
<1> QED BY <1>5 DEF E

LEMMA FsTypedStep == Typed /\ [Next]_vars => FsTyped'
<1> SUFFICES ASSUME Typed, [Next]_vars PROVE FsTyped'
  OBVIOUS
<1> USE DEF FsTyped
<1>0. FsTyped /\ queue \in Seq(Event)
  BY DEF Typed
<1>1. CASE Programs
  <2>1. ASSUME NEW p \in Paths, NEW c \in Contents, NEW kind \in {"created", "modified"}, Put(p, c, kind)
        PROVE  FsTyped'
    <3>1. PICK t \in now..(now + 1) :
            /\ t <= MaxTime
            /\ now' = t
            /\ mtime' = [mtime EXCEPT ![p] = t]
            /\ again' = IF t = mtime[p] THEN again \cup {p} ELSE again \ {p}
            /\ owed' \subseteq owed \cup {p}
      BY <2>1 DEF Put
    <3>2. t \in 1..MaxTime
      BY <1>0, <3>1, PipelineAssumption
    <3>3. now' \in 1..MaxTime /\ mtime' \in [Paths -> 0..MaxTime] /\ again' \subseteq Paths /\ owed' \subseteq Paths
      BY <1>0, <3>1, <3>2, PipelineAssumption
    <3>4. queue' \in Seq(Event)
      <4>1. [kind |-> kind, what |-> p] \in Event
        BY DEF Event
      <4> QED BY <1>0, <2>1, <4>1, RaiseTyped DEF Put
    <3>5. ops' \in 0..MaxOps /\ file' \in [Paths -> Contents \cup {None}] /\ UNCHANGED <<dirs, unseen>>
      BY <1>0, <2>1, PipelineAssumption DEF Put
    <3> QED BY <1>0, <3>3, <3>4, <3>5
  <2>2. ASSUME NEW p \in Paths, Delete(p) PROVE FsTyped'
    <3>1. ops' \in 0..MaxOps
      BY <1>0, <2>2, PipelineAssumption DEF Delete
    <3> QED BY <1>0, <2>2, <3>1, GoneTyped DEF Delete
  <2>3. ASSUME NEW d \in Dirs, MakeDir(d) \/ RemoveDir(d) PROVE FsTyped'
    <3>1. ops' \in 0..MaxOps
      BY <1>0, <2>3, PipelineAssumption DEF MakeDir, RemoveDir
    <3>2. [kind |-> "created", what |-> d] \in Event /\ [kind |-> "deleted", what |-> d] \in Event
      BY DEF Event
    <3>3. queue' \in Seq(Event)
      BY <1>0, <2>3, <3>2, RaiseTyped DEF MakeDir, RemoveDir
    <3>4. dirs' \subseteq Dirs /\ unseen' \subseteq Dirs /\ UNCHANGED <<now, mtime, file, again, owed>>
      BY <1>0, <2>3 DEF MakeDir, RemoveDir
    <3> QED BY <1>0, <3>1, <3>3, <3>4
  <2> QED BY <1>1, <2>1, <2>2, <2>3 DEF Programs, Write, Create
<1>2. CASE Monitor
  <2>1. UNCHANGED fs
    BY <1>2 DEF Monitor, Start, Watch, List, Started, Handle, FirstScan, Poll
  <2>2. CASE Poll
    <3> DEFINE seen == Scan({roots[turn]})
               says(kind, ps) == SetToSeq({[kind |-> kind, what |-> p] : p \in ps})
               made == DOMAIN seen \ DOMAIN known
               changed == {p \in DOMAIN seen \cap DOMAIN known : seen[p] > known[p]}
               left == DOMAIN known \ DOMAIN seen
    <3>1. \/ UNCHANGED queue
          \/ queue' = says("created", made) \o says("modified", changed) \o says("deleted", left)
      BY <2>2 DEF Poll
    <3>2. made \subseteq Paths /\ changed \subseteq Paths /\ left \subseteq Paths
      BY DEF Scan, Typed, MonTyped
    <3> HIDE DEF made, changed, left
    <3>3. /\ says("created", made) \in Seq(Event) /\ says("modified", changed) \in Seq(Event)
          /\ says("deleted", left) \in Seq(Event)
      BY <3>2, EventsTyped
    <3>4. queue' \in Seq(Event)
      <4>1. PICK a, b, c : a = says("created", made) /\ b = says("modified", changed) /\ c = says("deleted", left)
        OBVIOUS
      <4> HIDE DEF says
      <4>2. a \in Seq(Event) /\ b \in Seq(Event) /\ c \in Seq(Event) /\ (UNCHANGED queue \/ queue' = a \o b \o c)
        BY <3>1, <3>3, <4>1
      <4>3. a \o b \in Seq(Event)
        BY <4>2
      <4>4. a \o b \o c \in Seq(Event)
        BY <4>2, <4>3
      <4> QED BY <1>0, <4>2, <4>4
    <3>5. UNCHANGED owed
      BY <2>2 DEF Poll
    <3> QED BY <3>5, <1>0, <2>1, <3>4 DEF fs
  <2>3. CASE Handle
    <3>1. queue' \in Seq(Event)
      BY <1>0, <2>3 DEF Handle
    <3>2. owed' \subseteq owed
      BY <2>3 DEF Handle, Send
    <3> QED BY <1>0, <2>1, <3>1, <3>2 DEF fs
  <2>4. CASE ~Poll /\ ~Handle
    <3>1. UNCHANGED <<queue, owed>>
      BY <1>2, <2>4 DEF Monitor, Start, Watch, List, Started, FirstScan
    <3> QED BY <1>0, <2>1, <3>1 DEF fs
  <2> QED BY <2>2, <2>3, <2>4
<1>3. CASE Processor
  <2>1. CASE Respond
    <3>1. proc.path \in Paths
      BY <2>1 DEF Respond, At, Typed, ProcTyped, Busy
    <3>2. UNCHANGED <<now, mtime, ops, dirs, again, unseen>> /\ (Gone(proc.path) \/ UNCHANGED <<file, queue, owed>>)
      BY <2>1 DEF Respond, outside
    <3> QED BY <1>0, <3>1, <3>2, GoneTyped
  <2>2. CASE ~Respond
    <3>1. UNCHANGED <<fs, queue, owed>>
      BY <1>3, <2>2 DEF Processor, Subscribe, Lagged, Receive, Lookup, Read, Yara, StaticAndEvaluate, Notify,
            Step, outside, fs
    <3> QED BY <1>0, <3>1 DEF fs
  <2> QED BY <2>1, <2>2
<1>4. CASE Intelligence \/ UNCHANGED vars
  <2>1. UNCHANGED <<fs, queue, owed>>
    BY <1>4 DEF Intelligence, Insert, LoadHashes, ClearCache, vars
  <2> QED BY <1>0, <2>1 DEF fs
<1>5. CASE Scanner
  <2>1. CASE \E p \in Paths : ScanFile(p)
    <3>1. UNCHANGED <<fs, queue, owed>>
      BY <2>1 DEF ScanFile
    <3> QED BY <1>0, <3>1 DEF fs
  <2>2. CASE ScanResponds
    <3>1. cli.path \in Paths
      BY <2>2 DEF ScanResponds, Typed, CliTyped
    <3>2. UNCHANGED <<now, mtime, ops, dirs, again, unseen>> /\ (Gone(cli.path) \/ UNCHANGED <<file, queue, owed>>)
      BY <2>2 DEF ScanResponds, outside
    <3> QED BY <1>0, <3>1, <3>2, GoneTyped
  <2> QED BY <1>5, <2>1, <2>2 DEF Scanner
<1> QED BY <1>1, <1>2, <1>3, <1>4, <1>5 DEF Next

LEMMA MonTypedStep == Typed /\ [Next]_vars => MonTyped'
<1> SUFFICES ASSUME Typed, [Next]_vars PROVE MonTyped'
  OBVIOUS
<1> DEFINE Todo == [op : {"watch", "list"}, dir : Dirs]
<1>0. MonTyped /\ todo \in Seq(Todo) /\ dirs \subseteq Dirs /\ queue \in Seq(Event)
  BY DEF Typed, MonTyped, FsTyped
<1>1. ASSUME UNCHANGED monitor, dirs \subseteq dirs' PROVE MonTyped'
  BY <1>0, <1>1 DEF MonTyped, monitor
<1>2. CASE Programs
  <2>1. ASSUME NEW d \in Dirs, RemoveDir(d) PROVE MonTyped'
    BY <1>0, <2>1 DEF RemoveDir, MonTyped
  <2>2. CASE ~\E d \in Dirs : RemoveDir(d)
    <3>1. UNCHANGED monitor /\ dirs \subseteq dirs'
      BY <1>2, <2>2 DEF Programs, Write, Create, Put, Delete, MakeDir
    <3> QED BY <1>1, <3>1
  <2> QED BY <2>1, <2>2
<1>3. CASE Monitor
  <2>0. dirs' = dirs
    BY <1>3 DEF Monitor, Start, Watch, List, Started, Handle, FirstScan, Poll, fs
  <2>1. CASE Start
    <3>1. roots' = Watched /\ turn' = 1 /\ UNCHANGED <<live, spent, known>> /\ mon' \in {"watching", "first"}
      BY <1>0, <2>1 DEF Start, MonTyped
    <3>2. todo' \in Seq(Todo)
      <4>1. Watched \in Seq(Dirs)
        BY WatchedListed
      <4>2. [i \in 1..Len(Watched) |-> Call("watch", Watched[i])] \in Seq(Todo)
        <5>1. PICK w : w = Watched
          OBVIOUS
        <5>2. w \in Seq(Dirs) /\ Len(w) \in Nat /\ \A i \in 1..Len(w) : w[i] \in Dirs
          BY <4>1, <5>1
        <5>3. \A i \in 1..Len(w) : Call("watch", w[i]) \in Todo
          BY <5>2 DEF Call
        <5> HIDE DEF Todo
        <5>4. [i \in 1..Len(w) |-> Call("watch", w[i])] \in Seq(Todo)
          BY <5>2, <5>3
        <5> QED BY <5>1, <5>4
      <4> QED BY <1>0, <2>1, <4>2 DEF Start
    <3>3. roots' \in Seq(Dirs)
      BY <3>1, WatchedListed
    <3> QED BY <1>0, <2>0, <3>1, <3>2, <3>3 DEF MonTyped
  <2>2. CASE Watch
    <3> DEFINE d == Head(todo).dir
    <3>1. Head(todo) \in Todo /\ Tail(todo) \in Seq(Todo)
      <4>1. todo # <<>>
        BY <2>2 DEF Watch
      <4> HIDE DEF Todo
      <4> QED BY <1>0, <4>1
    <3>2. UNCHANGED <<mon, roots, known, turn>>
      BY <2>2 DEF Watch
    <3>3. CASE spent < Budget /\ d \in dirs
      <4>1. /\ live' = live \cup {d} /\ spent' \in {spent, spent + 1}
            /\ todo' = <<Call("list", d)>> \o Tail(todo)
        BY <2>2, <3>3 DEF Watch
      <4>2. todo' \in Seq(Todo)
        <5>1. Call("list", d) \in Todo
          BY <3>1 DEF Call
        <5> HIDE DEF Todo, d
        <5>2. <<Call("list", d)>> \in Seq(Todo)
          BY <5>1
        <5> QED BY <3>1, <4>1, <5>2
      <4>3. spent' \in 0..Budget
        BY <1>0, <3>3, <4>1, PipelineAssumption DEF MonTyped
      <4>4. live' \subseteq dirs'
        BY <1>0, <2>0, <3>3, <4>1 DEF MonTyped
      <4> QED BY <1>0, <3>2, <4>2, <4>3, <4>4 DEF MonTyped
    <3>4. CASE ~(spent < Budget /\ d \in dirs)
      <4>1. todo' = Tail(todo) /\ UNCHANGED <<live, spent>>
        BY <2>2, <3>4 DEF Watch
      <4> QED BY <1>0, <2>0, <3>1, <3>2, <4>1 DEF MonTyped
    <3> QED BY <3>3, <3>4
  <2>3. CASE List
    <3> DEFINE d == Head(todo).dir
               C == {Call("watch", s) : s \in Below(d)}
    <3>1. todo' = SetToSeq(C) \o Tail(todo) /\ Tail(todo) \in Seq(Todo) /\ UNCHANGED <<mon, roots, live, spent, known, turn>>
      BY <1>0, <2>3 DEF List
    <3>2. IsFiniteSet(C)
      <4>1. IsFiniteSet(Below(d))
        BY <1>0, PipelineAssumption, FS_Subset DEF Below
      <4> DEFINE g == [s \in Below(d) |-> Call("watch", s)]
      <4>2. Range(g) = C
        BY DEF Range
      <4>3. g \in [Below(d) -> Range(g)]
        BY <4>2
      <4> HIDE DEF g, C
      <4> QED BY <4>1, <4>2, <4>3, ImageIsFinite
    <3>3. C \subseteq Todo
      BY <1>0 DEF Below, Call
    <3> HIDE DEF C, Todo
    <3>4. SetToSeq(C) \in Seq(C)
      BY <3>2, SetToSeqLists
    <3>5. SetToSeq(C) \in Seq(Todo)
      BY <3>3, <3>4
    <3>6. todo' \in Seq(Todo)
      BY <3>1, <3>5
    <3> QED BY <1>0, <2>0, <3>1, <3>6 DEF MonTyped, Todo
  <2>4. CASE Handle
    <3>1. UNCHANGED <<mon, roots, live, spent, known, turn>>
      BY <2>4 DEF Handle
    <3>2. todo' = todo \/ (Head(queue).what \in Dirs /\ todo' = <<Call("watch", Head(queue).what)>>)
      BY <2>4 DEF Handle, Send
    <3>3. todo' \in Seq(Todo)
      <4>1. CASE todo' = todo
        BY <1>0, <4>1
      <4>2. CASE Head(queue).what \in Dirs /\ todo' = <<Call("watch", Head(queue).what)>>
        <5>1. Call("watch", Head(queue).what) \in Todo
          BY <4>2 DEF Call
        <5> HIDE DEF Todo
        <5> QED BY <4>2, <5>1
      <4> QED BY <3>2, <4>1, <4>2
    <3> QED BY <1>0, <2>0, <3>1, <3>3 DEF MonTyped
  <2>5. CASE Started \/ FirstScan
    <3>1. /\ UNCHANGED <<roots, live, spent, todo, turn>> /\ mon' \in {"run", "first", "poll"}
          /\ known' = known \/ known' = Scan(Range(roots))
      BY <2>5 DEF Started, FirstScan
    <3>2. DOMAIN known' \subseteq Paths
      BY <1>0, <3>1 DEF Scan, MonTyped
    <3> QED BY <1>0, <2>0, <3>1, <3>2 DEF MonTyped
  <2>6. CASE Poll
    <3>1. /\ UNCHANGED <<mon, roots, live, spent, todo>> /\ mon # "off" /\ roots # <<>>
          /\ turn' = (turn % Len(roots)) + 1
          /\ known' = known \/ known' = Scan({roots[turn]})
      BY <2>6 DEF Poll
    <3>2. DOMAIN known' \subseteq Paths
      BY <1>0, <3>1 DEF Scan, MonTyped
    <3>3. turn' \in DOMAIN roots
      <4>1. Len(roots) \in Nat \ {0} /\ DOMAIN roots = 1..Len(roots) /\ turn \in Nat
        BY <1>0, <3>1 DEF MonTyped
      <4>2. turn % Len(roots) \in 0..(Len(roots) - 1)
        BY <4>1
      <4> QED BY <3>1, <4>1, <4>2
    <3> QED BY <1>0, <2>0, <3>1, <3>2, <3>3 DEF MonTyped
  <2> QED BY <1>3, <2>1, <2>2, <2>3, <2>4, <2>5, <2>6 DEF Monitor
<1>4. CASE Processor \/ Intelligence \/ Scanner \/ UNCHANGED vars
  <2>1. UNCHANGED <<monitor, dirs>>
    <3>1. CASE Processor
      BY <3>1 DEF Processor, Subscribe, Lagged, Receive, Lookup, Read, Yara, StaticAndEvaluate, Notify,
            Respond, Step, outside, fs
    <3>2. CASE Intelligence
      BY <3>2 DEF Intelligence, Insert, LoadHashes, ClearCache, fs
    <3>3. CASE Scanner
      BY <3>3 DEF Scanner, ScanFile, ScanResponds, outside, fs
    <3>4. CASE UNCHANGED vars
      BY <3>4 DEF vars, fs
    <3> QED BY <1>4, <3>1, <3>2, <3>3, <3>4
  <2> QED BY <1>1, <2>1
<1> QED BY <1>2, <1>3, <1>4 DEF Next

LEMMA BusTypedStep == Typed /\ [Next]_vars => BusTyped'
<1> SUFFICES ASSUME Typed, [Next]_vars PROVE BusTyped'
  OBVIOUS
<1>0. BusTyped /\ queue \in Seq(Event)
  BY DEF Typed, FsTyped
<1>1. CASE UNCHANGED channel
  BY <1>0, <1>1 DEF BusTyped, channel
<1>2. CASE Handle
  <2>1. Head(queue) \in Event /\ subscribed' = subscribed
    BY <1>0, <1>2 DEF Handle
  <2>2. CASE UNCHANGED <<bus, lagged>>
    BY <1>0, <2>1, <2>2 DEF BusTyped
  <2>3. CASE ~UNCHANGED <<bus, lagged>>
    <3>1. /\ bus' = Append(IF Len(bus) = BusCap THEN Tail(bus) ELSE bus, Head(queue))
          /\ lagged' = (lagged \/ Len(bus) = BusCap)
      BY <1>2, <2>3 DEF Handle, Send
    <3>2. bus \in Seq(Event) /\ Len(bus) \in Nat /\ Len(bus) <= BusCap /\ BusCap \in Nat \ {0}
      BY <1>0, PipelineAssumption DEF BusTyped
    <3>3. CASE Len(bus) = BusCap
      <4>1. Tail(bus) \in Seq(Event) /\ Len(Tail(bus)) = Len(bus) - 1
        BY <3>2, <3>3
      <4>2. bus' = Append(Tail(bus), Head(queue))
        BY <3>1, <3>3
      <4>3. bus' \in Seq(Event) /\ Len(bus') = Len(bus)
        BY <2>1, <3>2, <4>1, <4>2
      <4> QED BY <1>0, <2>1, <3>1, <3>2, <4>3 DEF BusTyped
    <3>4. CASE Len(bus) # BusCap
      <4>1. bus' = Append(bus, Head(queue))
        BY <3>1, <3>4
      <4>2. bus' \in Seq(Event) /\ Len(bus') = Len(bus) + 1
        BY <2>1, <3>2, <4>1
      <4> QED BY <1>0, <2>1, <3>1, <3>2, <3>4, <4>2 DEF BusTyped
    <3> QED BY <3>3, <3>4
  <2> QED BY <2>2, <2>3
<1>3. CASE Subscribe \/ Lagged
  <2>1. bus' = bus /\ subscribed' \in {subscribed, TRUE} /\ lagged' \in {lagged, FALSE}
    BY <1>3 DEF Subscribe, Lagged
  <2> QED BY <1>0, <2>1 DEF BusTyped
<1>4. CASE Receive
  <2>1. bus # <<>> /\ bus' = Tail(bus) /\ UNCHANGED <<subscribed, lagged>>
    BY <1>4 DEF Receive
  <2>2. bus \in Seq(Event) /\ Len(bus) <= BusCap /\ BusCap \in Nat
    BY <1>0, PipelineAssumption DEF BusTyped
  <2>3. bus' \in Seq(Event) /\ Len(bus') = Len(bus) - 1 /\ Len(bus) \in Nat
    BY <2>1, <2>2
  <2> QED BY <1>0, <2>1, <2>2, <2>3 DEF BusTyped
<1>5. CASE ~(Handle \/ Subscribe \/ Lagged \/ Receive)
  <2>1. Programs => UNCHANGED channel
    BY DEF Programs, Write, Create, Put, Delete, MakeDir, RemoveDir
  <2>2. Monitor => UNCHANGED channel
    BY <1>5 DEF Monitor, Start, Watch, List, Started, FirstScan, Poll
  <2>3. Processor => UNCHANGED channel
    BY <1>5 DEF Processor, Lookup, Read, Yara, StaticAndEvaluate, Notify, Respond, Step
  <2>4. Intelligence => UNCHANGED channel
    BY DEF Intelligence, Insert, LoadHashes, ClearCache
  <2>5. Scanner => UNCHANGED channel
    BY DEF Scanner, ScanFile, ScanResponds
  <2>6. UNCHANGED channel
    BY <2>1, <2>2, <2>3, <2>4, <2>5 DEF Next, vars, channel
  <2> QED BY <1>1, <2>6
<1> QED BY <1>2, <1>3, <1>4, <1>5

\* What is read is under a key of the file as it is.
LEMMA KeyTyped ==
  ASSUME Typed, NEW p \in Paths, file[p] # None
  PROVE  CacheKey(p) \in Keys /\ file[p] \in Contents
<1>1. file[p] \in Contents /\ mtime[p] \in 0..MaxTime
  BY DEF Typed, FsTyped
<1> QED BY <1>1 DEF CacheKey, Keys

LEMMA ProcTypedStep == Typed /\ [Next]_vars => ProcTyped'
<1> SUFFICES ASSUME Typed, [Next]_vars PROVE ProcTyped'
  OBVIOUS
<1>0. ProcTyped
  BY DEF Typed
<1>1. ASSUME proc' = proc PROVE ProcTyped'
  BY <1>0, <1>1 DEF ProcTyped, Shaped, Busy, At
<1>2. ASSUME proc' = Idle \/ proc' = [Idle EXCEPT !.pc = "dead"] PROVE ProcTyped'
  BY <1>2 DEF ProcTyped, Shaped, Busy, At, Idle
<1>3. CASE Programs
  <2>1. proc' = proc \/ proc' = [proc EXCEPT !.torn = TRUE]
    BY <1>3 DEF Programs, Write, Create, Put, Delete, MakeDir, RemoveDir
  <2>2. CASE proc' = [proc EXCEPT !.torn = TRUE]
    BY <1>0, <2>2 DEF ProcTyped, Shaped, Busy, At
  <2> QED BY <1>1, <2>1, <2>2
<1>4. CASE Processor
  <2>1. CASE Subscribe \/ Lagged
    BY <1>1, <2>1 DEF Subscribe, Lagged
  <2>2. CASE Receive
    <3>1. Head(bus) \in Event
      BY <2>2 DEF Receive, Typed, BusTyped
    <3>2. CASE Head(bus).what \in Dirs
      BY <1>2, <2>2, <3>2 DEF Receive
    <3>3. CASE Head(bus).what \notin Dirs
      <4>1. Head(bus).what \in Paths /\ proc' = [Idle EXCEPT !.pc = "lookup", !.path = Head(bus).what]
        BY <2>2, <3>1, <3>3 DEF Receive, Event
      <4> QED BY <4>1 DEF ProcTyped, Shaped, Busy, At, Idle
    <3> QED BY <3>2, <3>3
  <2>3. CASE Lookup
    <3>1. proc.path \in Paths
      BY <1>0, <2>3 DEF Lookup, At, ProcTyped, Busy
    <3>2. CASE Content = None
      <4>1. proc' = [proc EXCEPT !.pc = "yara"]
        BY <2>3, <3>2 DEF Lookup, Step
      <4> QED BY <1>0, <3>1, <4>1 DEF ProcTyped, Shaped, Busy, At
    <3>3. CASE Content # None
      <4> DEFINE k == CacheKey(proc.path)
      <4>1. k \in Keys
        BY <3>1, <3>3, KeyTyped DEF Content
      <4>2. CASE k \in DOMAIN cache
        <5>1. proc' = [proc EXCEPT !.pc = "yara", !.digest = cache[k]]
          BY <2>3, <3>3, <4>2 DEF Lookup, Step
        <5>2. cache[k] \in Contents
          BY <4>2 DEF Typed, EngineTyped
        <5> HIDE DEF k
        <5> QED BY <1>0, <3>1, <5>1, <5>2 DEF ProcTyped, Shaped, Busy, At
      <4>3. CASE k \notin DOMAIN cache
        <5>1. proc' = [proc EXCEPT !.pc = "read", !.key = k]
          BY <2>3, <3>3, <4>3 DEF Lookup, Step
        <5> HIDE DEF k
        <5>2. /\ Shaped' /\ proc'.pc = "read" /\ proc'.key = k /\ proc'.path = proc.path
              /\ proc'.digest = proc.digest
          BY <1>0, <5>1 DEF ProcTyped, Shaped
        <5> QED BY <1>0, <3>1, <4>1, <5>2 DEF ProcTyped, Busy, At
      <4> QED BY <4>2, <4>3
    <3> QED BY <3>2, <3>3
  <2>4. CASE Read
    <3>1. proc.path \in Paths
      BY <1>0, <2>4 DEF Read, At, ProcTyped, Busy
    <3>2. \/ proc' = [proc EXCEPT !.pc = "yara", !.key = None]
          \/ Content # None /\ proc' = [proc EXCEPT !.pc = "yara", !.key = None, !.digest = Content]
      BY <2>4 DEF Read, Step
    <3>3. Content # None => Content \in Contents
      BY <3>1, KeyTyped DEF Content
    <3> QED BY <1>0, <3>1, <3>2, <3>3 DEF ProcTyped, Shaped, Busy, At
  <2>5. CASE Yara
    <3>1. proc.path \in Paths
      BY <1>0, <2>5 DEF Yara, At, ProcTyped, Busy
    <3>2. \E fd : proc' = [proc EXCEPT !.pc = "static", !.digest = None, !.found = fd]
      BY <2>5 DEF Yara, Step
    <3> QED BY <1>0, <3>1, <3>2 DEF ProcTyped, Shaped, Busy, At
  <2>6. CASE StaticAndEvaluate
    <3>1. proc.path \in Paths
      BY <1>0, <2>6 DEF StaticAndEvaluate, At, ProcTyped, Busy
    <3>2. \/ proc' = Idle
          \/ \E fd : \/ proc' = [proc EXCEPT !.found = fd, !.pc = "notify"]
                    \/ proc' = [proc EXCEPT !.found = fd, !.pc = "respond"]
      BY <2>6 DEF StaticAndEvaluate, Step
    <3>3. ASSUME NEW fd, NEW s \in {"notify", "respond"}, proc' = [proc EXCEPT !.found = fd, !.pc = s]
          PROVE  ProcTyped'
      BY <1>0, <3>1, <3>3 DEF ProcTyped, Shaped, Busy, At
    <3> QED BY <1>2, <3>2, <3>3
  <2>7. CASE Notify
    <3>1. proc.path \in Paths
      BY <1>0, <2>7 DEF Notify, At, ProcTyped, Busy
    <3>2. proc' = [Idle EXCEPT !.pc = "dead"] \/ proc' = [proc EXCEPT !.pc = "respond"]
      BY <2>7 DEF Notify, Step
    <3>3. CASE proc' = [proc EXCEPT !.pc = "respond"]
      BY <1>0, <3>1, <3>3 DEF ProcTyped, Shaped, Busy, At
    <3> QED BY <1>2, <3>2, <3>3
  <2>8. CASE Respond
    BY <1>2, <2>8 DEF Respond
  <2> QED BY <1>4, <2>1, <2>2, <2>3, <2>4, <2>5, <2>6, <2>7, <2>8 DEF Processor
<1>5. CASE Monitor \/ Intelligence \/ Scanner \/ UNCHANGED vars
  <2>1. Monitor => proc' = proc
    BY DEF Monitor, Start, Watch, List, Started, Handle, FirstScan, Poll
  <2>2. Intelligence => proc' = proc
    BY DEF Intelligence, Insert, LoadHashes, ClearCache
  <2>3. Scanner => proc' = proc
    BY DEF Scanner, ScanFile, ScanResponds
  <2>4. UNCHANGED vars => proc' = proc
    BY DEF vars
  <2> QED BY <1>1, <1>5, <2>1, <2>2, <2>3, <2>4
<1> QED BY <1>3, <1>4, <1>5 DEF Next

LEMMA EngineTypedStep == Typed /\ [Next]_vars => EngineTyped'
<1> SUFFICES ASSUME Typed, [Next]_vars PROVE EngineTyped'
  OBVIOUS
<1>0. EngineTyped
  BY DEF Typed
<1>1. CASE UNCHANGED engine
  BY <1>0, <1>1 DEF EngineTyped, engine
<1>2. CASE Read
  <2>1. UNCHANGED <<hashes, table, stale>> /\ proc.path \in Paths /\ proc.key \in Keys
    BY <1>2 DEF Read, Step, outside, At, Typed, ProcTyped, Busy
  <2>2. CASE UNCHANGED cache
    BY <1>1, <2>1, <2>2 DEF engine
  <2>3. CASE ~UNCHANGED cache
    <3>1. /\ Content # None
          /\ cache' = [k \in DOMAIN cache \cup {proc.key} |-> IF k = proc.key THEN Content ELSE cache[k]]
      BY <1>2, <2>3 DEF Read
    <3>2. Content \in Contents
      BY <2>1, <3>1, KeyTyped DEF Content
    <3> QED BY <1>0, <2>1, <3>1, <3>2 DEF EngineTyped
  <2> QED BY <2>2, <2>3
<1>3. CASE Intelligence
  <2>1. CASE \E e \in Accepted : Insert(e)
    <3>1. PICK e \in Accepted : Insert(e)
      BY <2>1
    <3>2. table' = table \cup {Indicator(e)} /\ UNCHANGED <<cache, hashes, stale>>
      BY <3>1 DEF Insert
    <3> QED BY <1>0, <3>2 DEF EngineTyped
  <2>2. CASE LoadHashes
    BY <1>0, <2>2 DEF LoadHashes, EngineTyped
  <2>3. CASE ClearCache
    <3>1. DOMAIN cache' = {} /\ UNCHANGED <<hashes, table>> /\ stale' = FALSE
      BY <2>3 DEF ClearCache
    <3> QED BY <1>0, <3>1 DEF EngineTyped
  <2> QED BY <1>3, <2>1, <2>2, <2>3 DEF Intelligence
<1>4. CASE ~Read /\ ~Intelligence
  <2>1. Programs => UNCHANGED engine
    BY DEF Programs, Write, Create, Put, Delete, MakeDir, RemoveDir
  <2>2. Monitor => UNCHANGED engine
    BY DEF Monitor, Start, Watch, List, Started, Handle, FirstScan, Poll
  <2>3. Processor => UNCHANGED engine
    BY <1>4 DEF Processor, Subscribe, Lagged, Receive, Lookup, Yara, StaticAndEvaluate, Notify, Respond,
          Step, outside, engine
  <2>4. Scanner => UNCHANGED engine
    BY DEF Scanner, ScanFile, ScanResponds, outside, engine
  <2> QED BY <1>1, <1>4, <2>1, <2>2, <2>3, <2>4 DEF Next, vars, engine
<1> QED BY <1>2, <1>3, <1>4

LEMMA CliTypedStep == Typed /\ [Next]_vars => CliTyped'
<1> SUFFICES ASSUME Typed, [Next]_vars PROVE CliTyped'
  OBVIOUS
<1>0. CliTyped
  BY DEF Typed
<1>1. ASSUME cli' = cli PROVE CliTyped'
  BY <1>0, <1>1 DEF CliTyped
<1>2. CASE Programs
  <2>1. cli' = cli \/ (cli' = [cli EXCEPT !.torn = TRUE])
    BY <1>2 DEF Programs, Write, Create, Put, Delete, MakeDir, RemoveDir
  <2>2. CASE cli' = [cli EXCEPT !.torn = TRUE]
    <3>1. cli'.pc = cli.pc /\ cli'.path = cli.path
      BY <2>2
    <3> QED BY <1>0, <3>1 DEF CliTyped
  <2> QED BY <1>1, <2>1, <2>2
<1>3. CASE Scanner
  <2>1. CASE \E p \in Paths : ScanFile(p)
    <3>1. PICK p \in Paths : cli' = [Idle EXCEPT !.pc = "respond", !.path = p]
      BY <2>1 DEF ScanFile
    <3> QED BY <3>1 DEF CliTyped, Idle
  <2>2. CASE ScanResponds
    BY <2>2 DEF ScanResponds, CliTyped, Idle
  <2> QED BY <1>3, <2>1, <2>2 DEF Scanner
<1>4. CASE Monitor \/ Processor \/ Intelligence \/ UNCHANGED vars
  <2>1. Monitor => cli' = cli
    BY DEF Monitor, Start, Watch, List, Started, Handle, FirstScan, Poll
  <2>2. Processor => cli' = cli
    BY DEF Processor, Subscribe, Lagged, Receive, Lookup, Read, Yara, StaticAndEvaluate, Notify, Respond, Step
  <2>3. Intelligence => cli' = cli
    BY DEF Intelligence, Insert, LoadHashes, ClearCache
  <2>4. UNCHANGED vars => cli' = cli
    BY DEF vars
  <2> QED BY <1>1, <1>4, <2>1, <2>2, <2>3, <2>4
<1> QED BY <1>2, <1>3, <1>4 DEF Next

LEMMA TypedStep == Typed /\ [Next]_vars => Typed'
BY FsTypedStep, MonTypedStep, BusTypedStep, ProcTypedStep, EngineTypedStep, CliTypedStep DEF Typed

\* For any trees, files and capacities: every step keeps the types, the bus and the
\* watches their limits, and the root that polling comes to next is one of those
\* that were there (event_bus.rs, FilesystemMonitor::{start, polling_loop}).
THEOREM Types == Spec => []TypeOK
<1> QED BY TypedInit, TypedStep, TypedImplies, PTL DEF Spec

---------------------------------------------------------------------------
(* What goes to quarantine                                                 *)

\* What the engines without a memory say of a content.
Says(c) == ScanRules(c) \cup Static(c)

LEMMA RulesFind ==
  ASSUME NEW c \in Contents
  PROVE  ScanRules(c) \subseteq Detection /\ IsFiniteSet(ScanRules(c)) /\ KnownHash \notin ScanRules(c)
<1>1. Hits[c] \subseteq DOMAIN Rule
  BY RiskAssumption
<1>2. DOMAIN Rule = {"Y1", "Y2", "Y3", "Y4", "EXT"}
  BY DEF Rule
<1>3. ASSUME NEW r \in {"Y1", "Y2", "Y3", "Y4", "EXT"} PROVE RuleScore(r) \in 0..100 /\ Rule[r].conf \in 0..100
  <2>1. CASE r = "Y1"
    <3>1. Rule[r].conf = 60 /\ Severity[Rule[r].severity] = 50 /\ (50 * 60) \div 100 = 30
      BY <2>1 DEF Rule, Severity
    <3> QED BY <3>1 DEF RuleScore
  <2>2. CASE r = "Y2"
    <3>1. Rule[r].conf = 80 /\ Severity[Rule[r].severity] = 70 /\ (70 * 80) \div 100 = 56
      BY <2>2 DEF Rule, Severity
    <3> QED BY <3>1 DEF RuleScore
  <2>3. CASE r = "Y3"
    <3>1. Rule[r].conf = 90 /\ Severity[Rule[r].severity] = 90 /\ (90 * 90) \div 100 = 81
      BY <2>3 DEF Rule, Severity
    <3> QED BY <3>1 DEF RuleScore
  <2>4. CASE r = "Y4"
    <3>1. Rule[r].conf = 85 /\ Severity[Rule[r].severity] = 70 /\ (70 * 85) \div 100 = 59
      BY <2>4 DEF Rule, Severity
    <3> QED BY <3>1 DEF RuleScore
  <2>5. CASE r = "EXT"
    <3>1. Rule[r].conf = 70 /\ Severity[Rule[r].severity] = 50 /\ (50 * 70) \div 100 = 35
      BY <2>5 DEF Rule, Severity
    <3> QED BY <3>1 DEF RuleScore
  <2> QED BY <1>3, <2>1, <2>2, <2>3, <2>4, <2>5
<1>4. ASSUME NEW r \in DOMAIN Rule PROVE FoundBy(r) \in Detection
  <2>1. RuleScore(r) \in 0..100 /\ Rule[r].conf \in 0..100
    BY <1>2, <1>3
  <2> QED BY <2>1 DEF FoundBy, Detection
<1>5. \A r : FoundBy(r).engine = "Yara"
  BY DEF FoundBy
<1>6. KnownHash.engine = "Hash"
  BY DEF KnownHash
<1>7. IsFiniteSet(ScanRules(c))
  <2> DEFINE f == [r \in Hits[c] |-> FoundBy(r)]
  <2>1. Range(f) = ScanRules(c) /\ f \in [Hits[c] -> Range(f)]
    BY DEF Range, ScanRules
  <2>2. IsFiniteSet(Hits[c])
    <3>1. IsFiniteSet({"Y1", "Y2", "Y3", "Y4", "EXT"})
      <4>1. IsFiniteSet({"Y1"})
        BY FS_Singleton
      <4>2. IsFiniteSet({"Y1"} \cup {"Y2"})
        BY <4>1, FS_AddElement
      <4>3. IsFiniteSet(({"Y1"} \cup {"Y2"}) \cup {"Y3"})
        BY <4>2, FS_AddElement
      <4>4. IsFiniteSet((({"Y1"} \cup {"Y2"}) \cup {"Y3"}) \cup {"Y4"})
        BY <4>3, FS_AddElement
      <4>5. IsFiniteSet(((({"Y1"} \cup {"Y2"}) \cup {"Y3"}) \cup {"Y4"}) \cup {"EXT"})
        BY <4>4, FS_AddElement
      <4>6. ((({"Y1"} \cup {"Y2"}) \cup {"Y3"}) \cup {"Y4"}) \cup {"EXT"} = {"Y1", "Y2", "Y3", "Y4", "EXT"}
        OBVIOUS
      <4> QED BY <4>5, <4>6
    <3> QED BY <1>1, <1>2, <3>1, FS_Subset
  <2> HIDE DEF f
  <2> QED BY <2>1, <2>2, ImageIsFinite
<1> QED BY <1>1, <1>4, <1>5, <1>6, <1>7 DEF ScanRules

LEMMA StaticFinds ==
  ASSUME NEW c \in Contents
  PROVE  Static(c) \subseteq Detection /\ IsFiniteSet(Static(c)) /\ KnownHash \notin Static(c)
<1> DEFINE n == StaticPoints(Features[c])
           d == [engine |-> "StaticAnalysis", rule |-> "STATIC-RISK", score |-> StaticScore(c), conf |-> 50]
<1>1. n \in Nat
  <2> DEFINE f == Features[c]
  <2>1. /\ f.exec \in Nat /\ f.suid \in Nat /\ f.strings \in Nat /\ f.urls \in Nat /\ f.ips \in Nat
        /\ f.commands \in Nat /\ f.binary \in Nat
    BY RiskAssumption
  <2> HIDE DEF f
  <2>2. StaticPoints(f) \in Nat
    BY <2>1 DEF StaticPoints
  <2> QED BY <2>2 DEF f
<1>2. StaticScore(c) \in 0..100
  <2> HIDE DEF n
  <2>1. \E x \in {n, 100} : \A y \in {n, 100} : x <= y
    BY <1>1
  <2>2. Min({n, 100}) \in {n, 100} /\ Min({n, 100}) <= 100
    BY <1>1, <2>1 DEF Min
  <2>3. Min({n, 100}) \in 0..100
    BY <1>1, <2>2
  <2> QED BY <2>3 DEF StaticScore, n
<1>3. d \in Detection /\ d # KnownHash
  BY <1>2 DEF Detection, KnownHash
<1>4. IsFiniteSet({d}) /\ IsFiniteSet({})
  BY FS_Singleton, FS_EmptySet
<1>5. Static(c) \in {{d}, {}}
  BY DEF Static
<1> QED BY <1>3, <1>4, <1>5

LEMMA SaysTyped ==
  ASSUME NEW c \in Contents
  PROVE  Says(c) \in SUBSET Detection /\ IsFiniteSet(Says(c)) /\ KnownHash \notin Says(c)
BY RulesFind, StaticFinds, FS_Union DEF Says

\* A content that is malware without its hash is malware with it.
LEMMA MalwareStays ==
  ASSUME NEW c \in Contents, Level(Says(c)) = "Malicious"
  PROVE  Level(Says(c) \cup {KnownHash}) = "Malicious"
<1> DEFINE e == Evaluate(Says(c))
           g == Evaluate(Says(c) \cup {KnownHash})
<1>1. e \in Nat /\ e <= g
  BY SaysTyped, HashNeverLowers
<1>2. e >= MaliciousAt
  BY DEF Level
<1>3. MaliciousAt \in Nat
  BY RiskAssumption
<1>4. g >= MaliciousAt
  <2>1. g \in Int
    <3>1. PICK W \in Nat, T \in Nat : g = IF T = 0 THEN 0 ELSE (W * 100) \div T
      <4>1. Says(c) \cup {KnownHash} \in SUBSET Detection /\ IsFiniteSet(Says(c) \cup {KnownHash})
        BY SaysTyped, FS_AddElement DEF KnownHash, Detection
      <4> QED BY <4>1, EvaluateIs
    <3> HIDE DEF g
    <3> QED BY <3>1
  <2> HIDE DEF e, g
  <2> QED BY <1>1, <1>2, <1>3, <2>1
<1> QED BY <1>4 DEF Level

\* What is known as malware is in the table of indicators, which only grows.
Learned == hashes \subseteq {c \in Contents : Sha256(c) \in table}

\* Found is what is said of c, and its hash if that is known by now.
Found(ds, c) == proc.found = ds \/ (c \in hashes /\ proc.found = ds \cup {KnownHash})

\* What process_events holds of a file that nobody has written since it took the
\* event is true of what the file has in it.
Judged ==
  \A p \in Paths : (Busy /\ proc.path = p /\ ~proc.torn /\ file[p] # None /\ p \notin again)
    => LET c == file[p]
       IN /\ At("yara") => proc.digest = c
          /\ At("static") => Found(ScanRules(c), c)
          /\ proc.pc \in {"notify", "respond"} => Found(Says(c), c)

\* nkosi scan goes on to quarantine what it has judged.
Condemned ==
  (cli.pc = "respond" /\ ~cli.torn /\ file[cli.path] # None) => ScanQuarantines(file[cli.path])

Convicted == Learned /\ Judged /\ Condemned /\ OnlyCulprits

LEMMA LearnedStep ==
  ASSUME Typed, Learned, [Next]_vars
  PROVE  Learned' /\ hashes \subseteq hashes'
<1>1. CASE UNCHANGED <<hashes, table>>
  BY <1>1 DEF Learned
<1>2. CASE Intelligence
  <2>1. CASE \E e \in Accepted : Insert(e)
    <3>1. hashes' = hashes /\ table \subseteq table'
      BY <2>1 DEF Insert
    <3> QED BY <3>1 DEF Learned
  <2>2. CASE LoadHashes
    BY <2>2 DEF LoadHashes, Learned
  <2>3. CASE ClearCache
    BY <1>1, <2>3 DEF ClearCache
  <2> QED BY <1>2, <2>1, <2>2, <2>3 DEF Intelligence
<1>3. CASE ~Intelligence
  <2>1. Programs => UNCHANGED engine
    BY DEF Programs, Write, Create, Put, Delete, MakeDir, RemoveDir
  <2>2. Monitor => UNCHANGED engine
    BY DEF Monitor, Start, Watch, List, Started, Handle, FirstScan, Poll
  <2>3. Processor => UNCHANGED <<hashes, table>>
    BY DEF Processor, Subscribe, Lagged, Receive, Lookup, Read, Yara, StaticAndEvaluate, Notify, Respond,
          Step, outside, engine
  <2>4. Scanner => UNCHANGED <<hashes, table>>
    BY DEF Scanner, ScanFile, ScanResponds, outside, engine
  <2> QED BY <1>1, <1>3, <2>1, <2>2, <2>3, <2>4 DEF Next, vars, engine
<1> QED BY <1>2, <1>3

\* While process_events rests and files only go, its judgement stands; also of a
\* file that another is written beside.
LEMMA JudgedRests ==
  ASSUME Judged, hashes \subseteq hashes', proc' = proc,
         \A p \in Paths : (proc.path = p /\ ~proc.torn) => /\ file'[p] \in {file[p], None}
                                                           /\ p \notin again' => p \notin again
  PROVE  Judged'
<1>1. SUFFICES ASSUME NEW p \in Paths, NEW c, c = file'[p],
                      Busy', proc'.path = p, ~proc'.torn, c # None, p \notin again'
               PROVE  /\ At("yara")' => proc'.digest = c
                      /\ At("static")' => Found(ScanRules(c), c)'
                      /\ proc'.pc \in {"notify", "respond"} => Found(Says(c), c)'
  BY DEF Judged
<1>2. c = file[p] /\ p \notin again
  BY <1>1
<1>3. Busy /\ proc.path = p /\ ~proc.torn
  BY <1>1 DEF Busy
<1>4. /\ At("yara") => proc.digest = c
      /\ At("static") => Found(ScanRules(c), c)
      /\ proc.pc \in {"notify", "respond"} => Found(Says(c), c)
  BY <1>1, <1>2, <1>3 DEF Judged
<1> QED BY <1>4 DEF Found, At

\* A verdict that is not there yet cannot be wrong.
LEMMA JudgedNot ==
  ASSUME proc'.pc \in {"idle", "lookup", "read", "dead"} \/ proc'.torn
  PROVE  Judged'
BY DEF Judged, Busy, At

\* The steps of process_events before its response.
LEMMA JudgedStep ==
  ASSUME Typed, Cached, Judged, Processor, ~Respond
  PROVE  Judged'
<1>0. UNCHANGED <<file, again, hashes>>
  BY DEF Processor, Subscribe, Lagged, Receive, Lookup, Read, Yara, StaticAndEvaluate, Notify, Step, outside, fs,
         engine
<1>1. CASE Subscribe \/ Lagged
  <2>1. proc' = proc
    BY <1>1 DEF Subscribe, Lagged
  <2> QED BY <1>0, <2>1, JudgedRests
<1>2. CASE Receive
  <2>1. proc'.pc \in {"idle", "lookup"}
    BY <1>2 DEF Receive, Idle
  <2> QED BY <2>1, JudgedNot
<1> USE <1>0
<1>3. CASE Lookup
  <2> SUFFICES ASSUME NEW p \in Paths, Busy', proc'.path = p, ~proc'.torn, file[p] # None, p \notin again
               PROVE  /\ At("yara")' => proc'.digest = file[p]
                      /\ proc'.pc \in {"yara", "read"}
    BY DEF Judged, At
  <2>1. Shaped
    BY DEF Cached
  <2>2. proc.path = p /\ Content = file[p]
    BY <1>3, <2>1 DEF Lookup, Step, Shaped, Content
  <2> DEFINE k == CacheKey(p)
  <2>3. CASE k \in DOMAIN cache
    <3>1. proc' = [proc EXCEPT !.pc = "yara", !.digest = cache[k]]
      BY <1>3, <2>2, <2>3 DEF Lookup, Step
    <3>2. cache[k] = file[p]
      BY <2>3 DEF Cached, DigestTrue
    <3> HIDE DEF k
    <3> QED BY <2>1, <3>1, <3>2 DEF Shaped
  <2>4. CASE k \notin DOMAIN cache
    <3>1. proc' = [proc EXCEPT !.pc = "read", !.key = k]
      BY <1>3, <2>2, <2>4 DEF Lookup, Step
    <3>2. proc'.pc = "read"
      BY <2>1, <3>1 DEF Shaped
    <3> QED BY <3>2 DEF At
  <2> QED BY <2>3, <2>4
<1>4. CASE Read
  <2> SUFFICES ASSUME NEW p \in Paths, Busy', proc'.path = p, ~proc'.torn, file[p] # None, p \notin again
               PROVE  proc'.pc = "yara" /\ proc'.digest = file[p]
    BY DEF Judged, At
  <2>1. Shaped
    BY DEF Cached
  <2>2. proc.path = p /\ Content = file[p]
    BY <1>4, <2>1 DEF Read, Step, Shaped, Content
  <2>3. proc' = [proc EXCEPT !.pc = "yara", !.key = None, !.digest = file[p]]
    BY <1>4, <2>2 DEF Read, Step
  <2> QED BY <2>1, <2>3 DEF Shaped
<1>5. CASE Yara
  <2> SUFFICES ASSUME NEW p \in Paths, Busy', proc'.path = p, ~proc'.torn, file[p] # None, p \notin again
               PROVE  proc'.pc = "static" /\ Found(ScanRules(file[p]), file[p])'
    BY DEF Judged, At
  <2>1. Shaped
    BY DEF Cached
  <2>2. At("yara") /\ proc.path = p /\ ~proc.torn /\ Content = file[p]
    BY <1>5, <2>1 DEF Yara, Step, Shaped, Content
  <2>3. proc.digest = file[p]
    BY <2>2 DEF Judged, Busy, At
  <2>4. proc' = [proc EXCEPT !.pc = "static", !.digest = None,
                   !.found = HashMatch(file[p]) \cup ScanRules(file[p])]
    BY <1>5, <2>2, <2>3 DEF Yara, Step
  <2>5. proc'.pc = "static" /\ proc'.found = HashMatch(file[p]) \cup ScanRules(file[p])
    BY <2>1, <2>4 DEF Shaped
  <2> QED BY <2>5 DEF HashMatch, Found
<1>6. CASE StaticAndEvaluate
  <2> SUFFICES ASSUME NEW p \in Paths, Busy', proc'.path = p, ~proc'.torn, file[p] # None, p \notin again
               PROVE  proc'.pc \in {"notify", "respond"} /\ Found(Says(file[p]), file[p])'
    BY DEF Judged, At
  <2> DEFINE found == proc.found \cup Static(file[p])
  <2>1. Shaped
    BY DEF Cached
  <2>2. proc' # Idle
    BY DEF Busy, Idle
  <2>3. \E s \in {"notify", "respond"} : \E fd : proc' = [proc EXCEPT !.found = fd, !.pc = s]
    BY <1>6, <2>2 DEF StaticAndEvaluate, Step
  <2>4. At("static") /\ proc.path = p /\ ~proc.torn /\ Content = file[p] /\ proc'.pc \in {"notify", "respond"}
    BY <1>6, <2>1, <2>3 DEF StaticAndEvaluate, Step, Shaped, Content
  <2>5. Found(ScanRules(file[p]), file[p])
    BY <2>4 DEF Judged, Busy, At
  <2>6. \E s \in {"notify", "respond"} : proc' = [proc EXCEPT !.found = found, !.pc = s]
    BY <1>6, <2>2, <2>4 DEF StaticAndEvaluate, Step
  <2>7. proc'.found = found
    <3> HIDE DEF found
    <3> QED BY <2>1, <2>6 DEF Shaped
  <2> QED BY <2>4, <2>5, <2>7 DEF Found, Says
<1>7. CASE Notify
  <2>1. CASE proc' = [Idle EXCEPT !.pc = "dead"]
    BY <2>1, JudgedNot DEF Idle
  <2>2. CASE proc' = [proc EXCEPT !.pc = "respond"]
    <3> SUFFICES ASSUME NEW p \in Paths, Busy', proc'.path = p, ~proc'.torn, file[p] # None, p \notin again
                 PROVE  proc'.pc = "respond" /\ Found(Says(file[p]), file[p])'
      BY DEF Judged, At
    <3>1. Shaped
      BY DEF Cached
    <3>2. /\ At("notify") /\ proc.path = p /\ ~proc.torn
          /\ proc'.pc = "respond" /\ proc'.found = proc.found
      BY <1>7, <2>2, <3>1 DEF Notify, Shaped
    <3>3. Found(Says(file[p]), file[p])
      BY <3>2 DEF Judged, Busy, At
    <3> QED BY <3>2, <3>3 DEF Found
  <2> QED BY <1>7, <2>1, <2>2 DEF Notify, Step
<1> QED BY <1>1, <1>2, <1>3, <1>4, <1>5, <1>6, <1>7 DEF Processor

LEMMA MalwareConvicted ==
  ASSUME NEW c \in Contents, Found(Says(c), c), Level(proc.found) = "Malicious"
  PROVE  Level(Detections(c)) = "Malicious"
<1>1. Detections(c) = HashMatch(c) \cup Says(c)
  BY DEF Detections, Says
<1>2. CASE c \in hashes
  <2>1. Detections(c) = Says(c) \cup {KnownHash}
    BY <1>1, <1>2 DEF HashMatch
  <2> QED BY <2>1, MalwareStays DEF Found
<1>3. CASE c \notin hashes
  BY <1>1, <1>3 DEF HashMatch, Found
<1> QED BY <1>2, <1>3

LEMMA RespondConvicts ==
  ASSUME Typed, Judged, OnlyCulprits, Respond
  PROVE  OnlyCulprits'
<1> DEFINE p == proc.path
           c == file[proc.path]
           why == Why(p, proc.torn, Level(Detections(c)))
<1>1. At("respond") /\ p \in Paths
  BY DEF Respond, Typed, ProcTyped, Busy, At
<1>2. CASE taken' = taken
  BY <1>2 DEF OnlyCulprits
<1>3. CASE taken' # taken
  <2>1. Action[Level(proc.found)] = "Quarantine" /\ c # None /\ taken' = taken \cup {<<c, why>>}
    BY <1>3 DEF Respond, Content
  <2>2. c \in Contents
    BY <1>1, <2>1 DEF Typed, FsTyped
  <2>3. Level(proc.found) = "Malicious"
    BY <2>1 DEF Level, Action
  <2>4. CASE proc.torn \/ p \in again
    BY <2>1, <2>4 DEF OnlyCulprits, Why
  <2>5. CASE ~proc.torn /\ p \notin again
    <3>1. Found(Says(c), c)
      BY <1>1, <2>1, <2>5 DEF Judged, Busy, At
    <3>2. Level(Detections(c)) = "Malicious"
      BY <2>2, <2>3, <3>1, MalwareConvicted
    <3>3. why = "Malicious"
      BY <2>5, <3>2 DEF Why
    <3> QED BY <2>1, <3>3 DEF OnlyCulprits
  <2> QED BY <2>4, <2>5
<1> QED BY <1>2, <1>3

\* The files that the judged one and the condemned one are: written, and then torn,
\* or gone, or as they were.
LEMMA PutTears ==
  ASSUME Typed, NEW p \in Paths, NEW c \in Contents, NEW kind, Put(p, c, kind),
         Judged, Condemned, OnlyCulprits, hashes \subseteq hashes'
  PROVE  Judged' /\ Condemned' /\ OnlyCulprits'
<1>1. /\ file' = [file EXCEPT ![p] = c] /\ taken' = taken
      /\ proc' = IF proc.path = p THEN [proc EXCEPT !.torn = TRUE] ELSE proc
      /\ cli' = IF cli.path = p THEN [cli EXCEPT !.torn = TRUE] ELSE cli
  BY DEF Put
<1>2. \A q \in Paths \ {p} : file'[q] = file[q] /\ (q \notin again' => q \notin again)
  BY <1>1 DEF Put, Typed, FsTyped
<1>3. Judged'
  <2>1. CASE proc.path = p
    <3>1. proc'.torn
      BY <1>1, <2>1 DEF Typed, ProcTyped, Shaped
    <3> QED BY <3>1, JudgedNot
  <2>2. CASE proc.path # p
    BY <1>1, <1>2, <2>2, JudgedRests
  <2> QED BY <2>1, <2>2
<1>4. Condemned'
  <2>1. CASE cli.path = p
    BY <1>1, <2>1 DEF Condemned
  <2>2. CASE cli.path # p
    BY <1>1, <1>2, <2>2 DEF Condemned, Typed, CliTyped
  <2> QED BY <2>1, <2>2
<1> QED BY <1>1, <1>3, <1>4 DEF OnlyCulprits

\* When files only go, nobody is judged anew.
LEMMA FadingConvictsNone ==
  ASSUME Typed, Judged, Condemned, OnlyCulprits, hashes \subseteq hashes',
         Fades, UNCHANGED <<proc, cli, taken>>
  PROVE  Judged' /\ Condemned' /\ OnlyCulprits'
<1>1. Judged'
  BY JudgedRests DEF Fades
<1>2. Condemned'
  BY DEF Condemned, Fades, Typed, CliTyped
<1> QED BY <1>1, <1>2 DEF OnlyCulprits

LEMMA CondemnedFades ==
  ASSUME Typed, Condemned, Fades, UNCHANGED cli
  PROVE  Condemned'
BY DEF Condemned, Fades, Typed, CliTyped

LEMMA ConvictedInit == Init => Convicted
BY DEF Init, Convicted, Learned, Judged, Condemned, OnlyCulprits, Idle, Busy

LEMMA ConvictedStep == Typed /\ Cached /\ Convicted /\ [Next]_vars => Convicted'
<1> SUFFICES ASSUME Typed, Cached, Convicted, [Next]_vars PROVE Convicted'
  OBVIOUS
<1>0. /\ Learned /\ Judged /\ Condemned /\ OnlyCulprits
      /\ Learned' /\ hashes \subseteq hashes'
  BY LearnedStep DEF Convicted
<1> USE <1>0
<1>1. SUFFICES Judged' /\ Condemned' /\ OnlyCulprits'
  BY DEF Convicted
<1>2. CASE Programs
  <2>1. CASE \E p \in Paths, c \in Contents : Write(p, c) \/ Create(p, c)
    BY <2>1, PutTears DEF Write, Create
  <2>2. CASE \E p \in Paths : Delete(p)
    <3>1. PICK p \in Paths : Delete(p)
      BY <2>2
    <3>2. UNCHANGED <<now, mtime, again, proc, cli, taken>> /\ Gone(p)
      BY <3>1 DEF Delete
    <3> QED BY <3>2, GoneFades, FadingConvictsNone
  <2>3. CASE \E d \in Dirs : MakeDir(d) \/ RemoveDir(d)
    <3>1. UNCHANGED <<now, mtime, again, file, proc, cli, taken>>
      BY <2>3 DEF MakeDir, RemoveDir
    <3> QED BY <3>1, StillFades, FadingConvictsNone
  <2> QED BY <1>2, <2>1, <2>2, <2>3 DEF Programs
<1>3. CASE Monitor \/ Intelligence \/ UNCHANGED vars
  <2>1. Monitor => UNCHANGED <<now, mtime, again, file, proc, cli, taken>>
    BY DEF Monitor, Start, Watch, List, Started, Handle, FirstScan, Poll, fs
  <2>2. Intelligence => UNCHANGED <<now, mtime, again, file, proc, cli, taken>>
    BY DEF Intelligence, Insert, LoadHashes, ClearCache, fs
  <2>3. UNCHANGED vars => UNCHANGED <<now, mtime, again, file, proc, cli, taken>>
    BY DEF vars, fs
  <2> QED BY <1>3, <2>1, <2>2, <2>3, StillFades, FadingConvictsNone
<1>4. CASE Processor
  <2>1. CASE Respond
    <3>1. UNCHANGED <<now, mtime, again, cli>> /\ proc' = Idle /\ (Gone(proc.path) \/ UNCHANGED file)
      BY <2>1 DEF Respond, outside
    <3>2. Fades
      BY <3>1, GoneFades, StillFades
    <3>3. Judged'
      BY <3>1, JudgedNot DEF Idle
    <3> QED BY <2>1, <3>1, <3>2, <3>3, CondemnedFades, RespondConvicts
  <2>2. CASE ~Respond
    <3>1. UNCHANGED <<now, mtime, again, file, cli, taken>>
      BY <1>4, <2>2 DEF Processor, Subscribe, Lagged, Receive, Lookup, Read, Yara, StaticAndEvaluate, Notify,
            Step, outside, fs
    <3>2. Fades
      BY <3>1, StillFades
    <3> QED BY <1>4, <2>2, <3>1, <3>2, JudgedStep, CondemnedFades DEF OnlyCulprits
  <2> QED BY <2>1, <2>2
<1>5. CASE Scanner
  <2>1. CASE \E p \in Paths : ScanFile(p)
    <3>1. PICK p \in Paths : file[p] # None /\ ScanQuarantines(file[p])
                             /\ cli' = [Idle EXCEPT !.pc = "respond", !.path = p]
      BY <2>1 DEF ScanFile
    <3>2. UNCHANGED <<file, again, proc, taken>>
      BY <2>1 DEF ScanFile, fs
    <3>3. Condemned'
      BY <3>1, <3>2 DEF Condemned, Idle
    <3>4. Judged'
      BY <3>2, JudgedRests
    <3> QED BY <3>2, <3>3, <3>4 DEF OnlyCulprits
  <2>2. CASE ScanResponds
    <3> DEFINE c == file[cli.path]
               why == Why(cli.path, cli.torn, IF ScanQuarantines(c) THEN "Malicious" ELSE "Clean")
    <3>1. /\ UNCHANGED <<now, mtime, again, proc>> /\ cli' = Idle /\ cli.pc = "respond"
          /\ Gone(cli.path) \/ UNCHANGED file
          /\ taken' = taken \/ (c # None /\ taken' = taken \cup {<<c, why>>})
      BY <2>2 DEF ScanResponds, outside
    <3>2. Fades
      BY <3>1, GoneFades, StillFades
    <3>3. Judged'
      BY <3>1, <3>2, JudgedRests DEF Fades
    <3>4. Condemned'
      BY <3>1 DEF Condemned, Idle
    <3>5. c # None => why \in {"Malicious", "raced"}
      BY <3>1 DEF Condemned, Why
    <3>6. OnlyCulprits'
      <4> HIDE DEF why
      <4> QED BY <3>1, <3>5 DEF OnlyCulprits
    <3> QED BY <3>3, <3>4, <3>6
  <2> QED BY <1>5, <2>1, <2>2 DEF Scanner
<1> QED BY <1>2, <1>3, <1>4, <1>5 DEF Next

\* For any files, engines, feeds and thresholds: what goes to quarantine is malware by
\* what the engines say of its content, or was written between the verdict and the
\* move, or twice at one mtime; the cache, the hashes that come in between and the
\* scan of the command line do not convict the wrong file (hash_engine.rs:40,
\* process_events, scan_file).
THEOREM CulpritsOnly == Spec => []OnlyCulprits
<1> DEFINE Inv == Typed /\ Cached /\ Convicted
<1>1. Init => Inv
  BY TypedInit, CachedInit, ConvictedInit
<1>2. Inv /\ [Next]_vars => Inv'
  BY TypedStep, CachedStep, ConvictedStep
<1>3. Inv => OnlyCulprits
  BY DEF Convicted
<1> QED BY <1>1, <1>2, <1>3, PTL DEF Spec

=============================================================================
