---------------------------- MODULE ProxyProofs ----------------------------
(* Proofs about Proxy for requests that come one at a time: the searches,     *)
(* shifts and counts of the cache fit together, for any URLs and any size of  *)
(* the cache. With two threads they do not (MCProxy_race).                    *)
EXTENDS Proxy, SequenceTheorems, WellFoundedInduction, TLAPS

(* One thread at a time *)
OneThread == \E t : Threads = {t}

------------------------------------------------------------------------------
(* The invariant. *)

Content == Pages \cup {Nothing}

(* cache_count is one behind between the last two steps of an addition. *)
Top(t) == IF th[t].pc = "count" THEN cache_count + 1 ELSE cache_count

(* An entry in use has content, not dated after the last change of its page. *)
UsedEntry(entry) ==
  /\ entry.url \in Urls /\ entry.page \in Content
  /\ entry.page.url \in {entry.url, None}
  /\ entry.page.modified <= origin[entry.url].modified

(* The entries below are in use: of different URLs, each with content. *)
InUse(n) ==
  /\ n <= MaxNumCache
  /\ \A i \in 0 .. MaxNumCache - 1 : i >= n => Cached_Entries[i].url = None
  /\ \A i \in 0 .. n - 1 : UsedEntry(Cached_Entries[i])
  /\ \A i, j \in 0 .. n - 1 : Cached_Entries[i].url = Cached_Entries[j].url => i = j

Absent(u) == \A i \in 0 .. cache_count - 1 : Cached_Entries[i].url # u

(* What the thread knows of the entry it has found, ... *)
Found(t) == th[t].cachedEntry \in 0 .. cache_count - 1

FoundTarget(t) == Found(t) /\ Cached_Entries[th[t].cachedEntry].url = th[t].target

LastIsTarget(t) ==
  cache_count > 0 /\ Cached_Entries[cache_count - 1].url = th[t].target

(* ... of the cache it is to change, ... *)
Position(t) ==
  /\ th[t].pc # "idle" => th[t].target \in Urls
  /\ th[t].pc = "idle" => th[t].target = None
  /\ th[t].pc \in {"idle", "find"} => th[t].cachedEntry = -1
  /\ th[t].pc \in {"check", "touch", "touchNew", "copyOld", "touchOld"} => FoundTarget(t)
  /\ th[t].pc = "copy" => Found(t)
  /\ th[t].pc = "fetch" =>
       FoundTarget(t) \/ (th[t].cachedEntry = -1 /\ Absent(th[t].target))
  /\ th[t].pc \in {"copy", "drop", "send"} => LastIsTarget(t)
  /\ th[t].pc \in {"insert", "evict", "append"} => Absent(th[t].target)
  /\ th[t].pc = "evict" => cache_count = MaxNumCache
  /\ th[t].pc = "append" => cache_count < MaxNumCache
  /\ th[t].pc = "count" => Cached_Entries[cache_count].url = th[t].target

(* ... and of the answer. *)
Correct(t, p) ==
  /\ p.url \in {th[t].target, None}
  /\ \/ p.url = th[t].target /\ p.version = th[t].asked.version
     \/ SameDate(t, p)
     \/ Misled(t, p)

Answering(t) ==
  /\ th[t].pc \in {"idle", "find", "check", "touch", "copy", "fetch"} =>
       th[t].asked = NotAsked
  /\ th[t].pc = "copyOld" => Correct(t, Cached_Entries[th[t].cachedEntry].page)
  /\ th[t].pc = "touchOld" => Correct(t, th[t].dataToSend)
  /\ th[t].pc \in {"touchNew", "drop", "insert", "evict", "append", "count"} =>
       /\ th[t].dataToSend = th[t].response
       /\ th[t].response \in Content
       /\ th[t].response.url \in {th[t].target, None}
       /\ th[t].response.modified <= origin[th[t].target].modified
       /\ th[t].response # Nothing => Correct(t, th[t].response)
  /\ th[t].pc = "send" /\ th[t].asked # NotAsked /\ th[t].response # Nothing =>
       Correct(t, th[t].dataToSend)

(* The origin's dates are not of the future. *)
Dated == \A u \in Urls : origin[u].modified <= clock

Inductive ==
  /\ TypeOK /\ StaysInArray /\ Dated
  /\ \A t \in Threads : InUse(Top(t)) /\ Position(t) /\ Answering(t)

------------------------------------------------------------------------------
(* Facts. *)

(* What a thread keeps, and an entry of the cache *)
ThreadState == [pc : Labels, target : Urls \cup {None},
                cachedEntry : -1 .. MaxNumCache - 1,
                response : Pages \cup {Nothing, NotModified, NULL},
                dataToSend : Pages \cup {Nothing, NULL},
                asked : [version : -1 .. MaxVersion, modified : 0 .. MaxClock]]
EntryState == [url : Urls \cup {None}, page : Pages \cup {Nothing, NULL},
               Access_Date : 0 .. MaxClock]
OriginState == [version : 0 .. MaxVersion, modified : 1 .. MaxClock]

(* The search returns an element of what it has found. *)
LEMMA FirstIsFound ==
  ASSUME NEW T \in SUBSET Nat, NEW otherwise
  PROVE  /\ T # {} => FirstOf(T, otherwise) \in T
         /\ T = {} => FirstOf(T, otherwise) = otherwise
<1>1. ASSUME T # {} PROVE FirstOf(T, otherwise) \in T
  <2> DEFINE R == OpToRel(<, Nat)
  <2>1. IsWellFoundedOn(R, Nat)
    BY NatLessThanWellFounded
  <2>2. \A a, b \in Nat : a < b => <<a, b>> \in R
    BY DEF OpToRel
  <2> HIDE DEF R
  <2>3. PICK m \in T : \A k \in T : ~ (<<k, m>> \in R)
    BY <1>1, <2>1, WFMin
  <2>4. ASSUME NEW k \in T PROVE m <= k
    <3>1. ~(k < m)
      BY <2>2, <2>3
    <3> QED
      BY <3>1
  <2> QED
    BY <1>1, <2>4 DEF FirstOf
<1> QED
  BY <1>1 DEF FirstOf

(* The constants are what they should be. *)
LEMMA Constants ==
  /\ MaxNumCache \in Nat /\ MaxNumCache >= 1
  /\ MaxVersion \in Nat /\ MaxClock \in Nat /\ MaxClock >= 1 /\ None \notin Urls
BY ProxyAssumption

(* Pages, the empty string, a 304 and the null pointer are told apart. *)
LEMMA Told ==
  /\ Nothing \in Content /\ Pages \subseteq Content
  /\ NULL \notin Content /\ NotModified \notin Content
  /\ NULL # NotModified /\ NULL # Nothing /\ NotModified # Nothing
  /\ \A p \in Pages : p.url \in Urls /\ p # Nothing
<1>1. \A p \in Pages : p.url \in Urls
  BY DEF Pages
<1>2. /\ Nothing.url = None /\ NULL.url = None /\ NotModified.url = None
      /\ Nothing.form = "empty" /\ NULL.form = "null" /\ NotModified.form = "304"
  BY DEF Nothing, NULL, NotModified, Blank
<1> QED
  BY <1>1, <1>2, Constants DEF Content

(* No page is a bare 304. *)
LEMMA PageForm == \A p \in Pages : p.form # "304"
BY DEF Pages, Forms

(* What a page of a URL is. *)
LEMMA PageOf ==
  ASSUME TypeOK, NEW u \in Urls, NEW h \in Headers, NEW f \in Forms
  PROVE  LET p == Page(u, origin[u], h, f)
         IN /\ p \in Pages /\ p.url = u /\ p.version = origin[u].version
            /\ p.modified <= origin[u].modified
<1>1. /\ origin[u].version \in 0 .. MaxVersion /\ origin[u].modified \in 1 .. MaxClock
      /\ clock \in 1 .. MaxClock
  BY DEF TypeOK
<1>2. h.expires \in Expiries /\ h.modified \in BOOLEAN /\ h.date \in BOOLEAN
  BY ProxyAssumption
<1>3. PICK m \in 0 .. MaxClock :
        m = (IF h.modified THEN origin[u].modified ELSE 0) /\ m <= origin[u].modified
  BY <1>1, <1>2, Constants
<1>4. PICK d \in 0 .. MaxClock : d = IF h.date THEN clock ELSE 0
  BY <1>1, <1>2, Constants
<1>5. Page(u, origin[u], h, f) =
        [url |-> u, version |-> origin[u].version, modified |-> m,
         expires |-> h.expires, date |-> d, form |-> f]
  BY <1>3, <1>4 DEF Page
<1> QED
  BY <1>1, <1>2, <1>3, <1>5 DEF Pages

------------------------------------------------------------------------------
(* The steps. *)

(* An idle thread has the type of one. *)
LEMMA IdleState == Idle \in ThreadState
BY Constants DEF Idle, ThreadState, Labels, NotAsked

(* An entry that is not used has the type of one. *)
LEMMA ClearState == Clear_Entry \in EntryState /\ Clear_Entry.url = None
BY Constants DEF EntryState, Clear_Entry, Entry, NULL, Blank

(* At the start the cache is empty and the thread idle. *)
LEMMA InductiveInit ==
  ASSUME NEW t, Threads = {t}, Init
  PROVE  Inductive
<1>1. TypeOK
  <2>1. Cached_Entries \in [0 .. MaxNumCache - 1 -> EntryState]
    BY ClearState DEF Init
  <2>2. th \in [Threads -> ThreadState]
    BY IdleState DEF Init
  <2>3. origin \in [Urls -> OriginState]
    BY Constants DEF Init, OriginState
  <2> QED
    BY <2>1, <2>2, <2>3, Constants DEF Init, TypeOK, ThreadState, EntryState, OriginState
<1>2. th[t] = Idle /\ cache_count = 0 /\ Cached_Entries = [i \in 0 .. MaxNumCache - 1 |-> Clear_Entry]
  BY DEF Init
<1>3. InUse(Top(t)) /\ Position(t) /\ Answering(t)
  BY <1>2, Constants, ClearState DEF InUse, Top, Position, Answering, Idle
<1>4. Dated
  BY DEF Init, Dated
<1> QED
  BY <1>1, <1>3, <1>4 DEF Inductive, Init, StaysInArray

(* A step that leaves the cache, the process and the world alone: what is     *)
(* left to show is about the thread.                                          *)
LEMMA ThreadMoves ==
  ASSUME NEW t, Threads = {t}, Inductive, UNCHANGED <<cacheVars, status, world>>,
         DOMAIN th' = Threads, th' = [s \in Threads |-> th'[s]],
         th'[t] \in ThreadState, th[t].pc # "count", th'[t].pc # "count",
         Position(t)', Answering(t)'
  PROVE  Inductive'
<1>1. th' \in [Threads -> ThreadState]
  OBVIOUS
<1>2. TypeOK'
  BY <1>1 DEF Inductive, TypeOK, ThreadState, cacheVars, world
<1>3. InUse(Top(t)) /\ Top(t) = cache_count /\ Top(t)' = cache_count
  BY DEF Inductive, Top, cacheVars
<1>4. InUse(Top(t))' /\ Dated'
  BY <1>3 DEF Inductive, InUse, UsedEntry, Dated, cacheVars, world
<1> QED
  BY <1>2, <1>4 DEF Inductive, StaysInArray

(* A request comes in. *)
LEMMA RequestKeeps ==
  ASSUME NEW t, Threads = {t}, Inductive, NEW u \in Urls, Request(t, u)
  PROVE  Inductive'
<1>1. th[t] \in ThreadState /\ DOMAIN th = Threads
  BY DEF Inductive, TypeOK, ThreadState
<1>2. /\ th'[t] \in ThreadState /\ th' = [s \in Threads |-> th'[s]]
      /\ th'[t].pc = "find" /\ th'[t].target = u /\ th[t].pc = "idle"
      /\ th'[t].cachedEntry = th[t].cachedEntry /\ th'[t].asked = th[t].asked
  BY <1>1 DEF Request, At, ThreadState, Labels
<1>3. Position(t)' /\ Answering(t)'
  BY <1>2 DEF Inductive, Position, Answering
<1> QED
  BY <1>2, <1>3, ThreadMoves DEF Request

(* The search finds the entry of the target, or there is none. *)
LEMMA FindKeeps ==
  ASSUME NEW t, Threads = {t}, Inductive, Find(t)
  PROVE  Inductive'
<1> DEFINE e == Cache_FindElement(th[t].target)
<1>1. th[t] \in ThreadState /\ DOMAIN th = Threads /\ th[t].pc = "find"
  BY DEF Inductive, TypeOK, ThreadState, Find, At
<1>2. InUse(cache_count) /\ cache_count \in Nat /\ cache_count <= MaxNumCache
  BY <1>1 DEF Inductive, Top, TypeOK
<1>3. th[t].target \in Urls /\ DOMAIN Cached_Entries = 0 .. MaxNumCache - 1
  BY <1>1 DEF Inductive, Position, TypeOK
<1>4. \/ e \in 0 .. cache_count - 1 /\ Cached_Entries[e].url = th[t].target
      \/ e = -1 /\ Absent(th[t].target)
  <2> DEFINE T == EntriesOf(th[t].target)
  <2>1. T \in SUBSET Nat
    BY <1>3, Constants DEF EntriesOf
  <2>2. \A i \in T : i \in 0 .. cache_count - 1 /\ Cached_Entries[i].url = th[t].target
    BY <1>2, <1>3, Constants DEF EntriesOf, InUse
  <2>3. \A i \in 0 .. cache_count - 1 : Cached_Entries[i].url = th[t].target => i \in T
    BY <1>2, <1>3, Constants DEF EntriesOf
  <2>4. e = FirstOf(T, -1)
    BY DEF Cache_FindElement
  <2> HIDE DEF T, e
  <2>5. CASE T = {}
    BY <2>1, <2>3, <2>4, <2>5, FirstIsFound DEF Absent
  <2>6. CASE T # {}
    BY <2>1, <2>2, <2>4, <2>6, FirstIsFound
  <2> QED
    BY <2>5, <2>6
<1>5. /\ th' = [th EXCEPT ![t].cachedEntry = e, ![t].pc = IF e = -1 THEN "fetch" ELSE "check"]
      /\ UNCHANGED <<cacheVars, status, world>>
  BY DEF Find
<1> HIDE DEF e
<1>6. /\ th'[t] \in ThreadState /\ th' = [s \in Threads |-> th'[s]]
      /\ th'[t].pc = (IF e = -1 THEN "fetch" ELSE "check") /\ th'[t].target = th[t].target
      /\ th'[t].cachedEntry = e /\ th'[t].asked = th[t].asked
  BY <1>1, <1>2, <1>4, <1>5, Constants DEF ThreadState, Labels
<1>7. Position(t)'
  <2>1. CASE e = -1
    <3>1. Absent(th[t].target)
      BY <1>2, <1>4, <2>1
    <3>2. /\ th'[t].pc = "fetch" /\ th'[t].target \in Urls
          /\ th'[t].cachedEntry = -1 /\ Absent(th[t].target)'
      BY <1>3, <1>5, <1>6, <2>1, <3>1 DEF Absent, cacheVars
    <3> QED
      BY <3>2 DEF Position
  <2>2. CASE e # -1
    <3>1. e \in 0 .. cache_count - 1 /\ Cached_Entries[e].url = th[t].target
      BY <1>4, <2>2
    <3> QED
      BY <1>3, <1>5, <1>6, <2>2, <3>1 DEF Position, FoundTarget, Found, cacheVars
  <2> QED
    BY <2>1, <2>2
<1>8. Answering(t)'
  BY <1>1, <1>6 DEF Inductive, Answering
<1>9. DOMAIN th' = Threads /\ th[t].pc # "count" /\ th'[t].pc # "count"
  BY <1>1, <1>6
<1> QED
  BY <1>5, <1>6, <1>7, <1>8, <1>9, ThreadMoves

(* A thread that only goes on has the type of one. *)
LEMMA Going ==
  ASSUME NEW t \in Threads, TypeOK, NEW label \in Labels, Goto(t, label)
  PROVE  /\ th'[t] \in ThreadState /\ th' = [s \in Threads |-> th'[s]]
         /\ DOMAIN th' = Threads
         /\ th'[t].pc = label /\ th'[t].target = th[t].target
         /\ th'[t].cachedEntry = th[t].cachedEntry /\ th'[t].asked = th[t].asked
         /\ th'[t].dataToSend = th[t].dataToSend /\ th'[t].response = th[t].response
<1>1. th[t] \in ThreadState /\ DOMAIN th = Threads
  BY DEF TypeOK, ThreadState
<1> QED
  BY <1>1 DEF Goto, ThreadState

(* The entry is fresh enough, or the origin is asked. *)
LEMMA CheckKeeps ==
  ASSUME NEW t, Threads = {t}, Inductive, Check(t)
  PROVE  Inductive'
<1>1. PICK label \in {"touch", "fetch"} : Goto(t, label)
  BY DEF Check
<1>2. th[t].pc = "check" /\ UNCHANGED <<cacheVars, status, world>>
  BY DEF Check, At
<1>3. /\ th'[t] \in ThreadState /\ th' = [s \in Threads |-> th'[s]]
      /\ DOMAIN th' = Threads
      /\ th'[t].pc = label /\ th'[t].target = th[t].target
      /\ th'[t].cachedEntry = th[t].cachedEntry /\ th'[t].asked = th[t].asked
  BY <1>1, Going DEF Inductive, Labels
<1>4. Position(t)' /\ Answering(t)'
  BY <1>1, <1>2, <1>3
  DEF Inductive, Position, Answering, FoundTarget, Found, cacheVars
<1> QED
  BY <1>1, <1>2, <1>3, <1>4, ThreadMoves

(* There is room for another entry, or there is not. *)
LEMMA InsertKeeps ==
  ASSUME NEW t, Threads = {t}, Inductive, Insert(t)
  PROVE  Inductive'
<1>1. PICK label \in {"evict", "append"} :
        Goto(t, label) /\ label = IF cache_count = MaxNumCache THEN "evict" ELSE "append"
  BY DEF Insert, CacheFull
<1>2. th[t].pc = "insert" /\ UNCHANGED <<cacheVars, status, world>>
  BY DEF Insert, At
<1>3. /\ th'[t] \in ThreadState /\ th' = [s \in Threads |-> th'[s]]
      /\ DOMAIN th' = Threads
      /\ th'[t].pc = label /\ th'[t].target = th[t].target
      /\ th'[t].cachedEntry = th[t].cachedEntry /\ th'[t].asked = th[t].asked
      /\ th'[t].dataToSend = th[t].dataToSend /\ th'[t].response = th[t].response
  BY <1>1, Going DEF Inductive, Labels
<1>4. Position(t)'
  <2>1. cache_count <= MaxNumCache /\ cache_count \in Nat
    BY Constants DEF Inductive, TypeOK
  <2> QED
    BY <1>1, <1>2, <1>3, <2>1, Constants DEF Inductive, Position, Absent, cacheVars
<1>5. Answering(t)'
  BY <1>1, <1>2, <1>3 DEF Inductive, Answering, Correct, Misled, SameDate, world
<1> QED
  BY <1>1, <1>2, <1>3, <1>4, <1>5, ThreadMoves

(* The thread has answered. *)
LEMMA AnswerKeeps ==
  ASSUME NEW t, Threads = {t}, Inductive, Answer(t)
  PROVE  Inductive'
<1>1. th[t].pc = "send" /\ UNCHANGED <<cacheVars, status, world>> /\ th' = [th EXCEPT ![t] = Idle]
  BY DEF Answer, At
<1>2. DOMAIN th = Threads
  BY DEF Inductive, TypeOK
<1>3. th'[t] = Idle /\ DOMAIN th' = Threads /\ th' = [s \in Threads |-> th'[s]]
  BY <1>1, <1>2
<1>4. Position(t)' /\ Answering(t)' /\ th'[t].pc # "count"
  BY <1>3 DEF Idle, Position, Answering
<1> QED
  BY <1>1, <1>3, <1>4, IdleState, ThreadMoves

(* Somebody ends the process, in a place where nothing is wrong. *)
LEMMA ExitKeeps ==
  ASSUME NEW t, Threads = {t}, Inductive,
         HostIsUnknown(t) \/ ClientIsGone(t) \/ HeaderIsTorn(t)
  PROVE  Inductive'
<1>1. status' \in {"exited", "torn"} /\ UNCHANGED <<cacheVars, th, world>>
  BY DEF HostIsUnknown, ClientIsGone, HeaderIsTorn, Die
<1>2. TypeOK'
  BY <1>1 DEF Inductive, TypeOK, cacheVars, world
<1>3. InUse(Top(t))' /\ Dated'
  BY <1>1 DEF Inductive, InUse, UsedEntry, Top, Dated, cacheVars, world
<1>4. Position(t)'
  BY <1>1 DEF Inductive, Position, FoundTarget, Found, LastIsTarget, Absent, cacheVars
<1>5. Answering(t)'
  BY <1>1 DEF Inductive, Answering, Correct, Misled, SameDate, cacheVars, world
<1> QED
  BY <1>1, <1>2, <1>3, <1>4, <1>5 DEF Inductive, StaysInArray

(* The entry found is in use. *)
LEMMA FoundInUse ==
  ASSUME NEW t, Threads = {t}, Inductive, Found(t)
  PROVE  UsedEntry(Cached_Entries[th[t].cachedEntry])
<1>1. InUse(cache_count) \/ InUse(cache_count + 1)
  BY DEF Inductive, Top
<1>2. cache_count \in Nat
  BY Constants DEF Inductive, TypeOK
<1> QED
  BY <1>1, <1>2 DEF InUse, Found

(* The answer comes from an entry in use. *)
LEMMA CopyContentKeeps ==
  ASSUME NEW t, Threads = {t}, Inductive,
         CopyContent(t, "copy", "send") \/ CopyContent(t, "copyOld", "touchOld")
  PROVE  Inductive'
<1> DEFINE content == Cached_Entries[th[t].cachedEntry].page
<1>1. th[t] \in ThreadState /\ DOMAIN th = Threads /\ th[t].pc \in {"copy", "copyOld"}
  BY DEF Inductive, TypeOK, ThreadState, CopyContent, At
<1>2. Found(t) /\ (th[t].pc = "copyOld" => FoundTarget(t))
  BY <1>1 DEF Inductive, Position, FoundTarget
<1>3. content \in Content /\ content # NULL
  BY <1>2, FoundInUse, Told DEF UsedEntry
<1>4. PICK next \in {"send", "touchOld"} :
        /\ th' = [th EXCEPT ![t].dataToSend = content, ![t].pc = next]
        /\ next = IF th[t].pc = "copy" THEN "send" ELSE "touchOld"
  BY <1>3 DEF CopyContent, At
<1>5. UNCHANGED <<cacheVars, status, world>>
  BY <1>3 DEF CopyContent
<1>6. content \in Pages \cup {Nothing, NULL}
  BY <1>3 DEF Content
<1> HIDE DEF content
<1>7. /\ th'[t] \in ThreadState /\ th' = [s \in Threads |-> th'[s]]
      /\ DOMAIN th' = Threads
      /\ th'[t].pc = next /\ th'[t].target = th[t].target
      /\ th'[t].cachedEntry = th[t].cachedEntry /\ th'[t].asked = th[t].asked
      /\ th'[t].dataToSend = content /\ th'[t].response = th[t].response
  BY <1>1, <1>4, <1>6 DEF ThreadState, Labels
<1>8. Position(t)'
  BY <1>1, <1>2, <1>4, <1>5, <1>7
  DEF Inductive, Position, Found, FoundTarget, LastIsTarget, cacheVars
<1>9. Answering(t)'
  <2>1. CASE th[t].pc = "copy"
    <3>1. th[t].asked = NotAsked
      BY <2>1 DEF Inductive, Answering
    <3> QED
      BY <1>4, <1>7, <2>1, <3>1 DEF Answering
  <2>2. CASE th[t].pc = "copyOld"
    <3>1. Correct(t, content)
      BY <2>2 DEF Inductive, Answering, content
    <3> QED
      BY <1>4, <1>7, <2>2, <3>1 DEF Answering, Correct, Misled, SameDate
  <2> QED
    BY <1>1, <2>1, <2>2
<1> QED
  BY <1>1, <1>4, <1>5, <1>7, <1>8, <1>9, ThreadMoves

(* A 304 is for a page with the origin's date, but for the cases of Misled. *)
LEMMA AnswerToDate ==
  ASSUME NEW entry, UsedEntry(entry), TypeOK, Since(entry) > 0,
         origin[entry.url].modified <= Since(entry)
  PROVE  \/ entry.page.expires # 0 \/ entry.page.modified = 0
         \/ entry.page.modified = origin[entry.url].modified
<1>1. CASE entry.page.expires = 0 /\ entry.page.modified # 0
  <2>1. Since(entry) = entry.page.modified /\ entry.page.modified # 0
    BY <1>1 DEF Since
  <2>2. entry.page \in Pages
    BY <1>1 DEF UsedEntry, Content, Nothing, Blank
  <2>3. entry.page.modified \in Int /\ origin[entry.url].modified \in Int
    BY <2>2, Constants DEF UsedEntry, Pages, TypeOK
  <2> QED
    BY <2>1, <2>3 DEF UsedEntry
<1> QED
  BY <1>1

(* The origin answers with its page, with a part of it, with nothing, or with *)
(* a 304.                                                                     *)
LEMMA FetchKeeps ==
  ASSUME NEW t, Threads = {t}, Inductive, Fetch(t)
  PROVE  Inductive'
<1> DEFINE u == th[t].target
<1> DEFINE entry == Cached_Entries[th[t].cachedEntry]
<1>1. /\ th[t] \in ThreadState /\ DOMAIN th = Threads /\ th[t].pc = "fetch" /\ u \in Urls
      /\ TypeOK
  BY DEF Inductive, TypeOK, ThreadState, Fetch, At, Position
<1>2. UNCHANGED <<cacheVars, status, world>>
  BY DEF Fetch
<1>3. origin[u].version \in 0 .. MaxVersion /\ origin[u].modified \in 1 .. MaxClock
      /\ origin[u] \in OriginState
  BY <1>1 DEF TypeOK, OriginState
<1>4. PICK r \in Responses(t) :
        th' = [th EXCEPT
            ![t].response = r,
            ![t].asked = origin[u],
            ![t].dataToSend =
              IF th[t].cachedEntry # -1 /\ SaysNotModified(r) THEN @ ELSE r,
            ![t].pc = IF th[t].cachedEntry # -1 /\ SaysNotModified(r) THEN "copyOld"
                      ELSE IF th[t].cachedEntry # -1 THEN "touchNew" ELSE "insert"]
  BY DEF Fetch
<1>5. \/ /\ r \in Pages /\ r.url = u /\ r.version = origin[u].version
         /\ r.modified <= origin[u].modified
      \/ r = Nothing
      \/ /\ r = NotModified /\ th[t].cachedEntry # -1
         /\ Since(entry) > 0 /\ origin[u].modified <= Since(entry)
  BY <1>1, <1>4, PageOf DEF Responses
<1>6. PICK asked \in [version : -1 .. MaxVersion, modified : 0 .. MaxClock] :
        asked = origin[u]
  BY <1>3, Constants DEF OriginState
<1>7. PICK next \in {"copyOld", "touchNew", "insert"} :
        next = IF th[t].cachedEntry # -1 /\ SaysNotModified(r) THEN "copyOld"
               ELSE IF th[t].cachedEntry # -1 THEN "touchNew" ELSE "insert"
  OBVIOUS
<1>8. r = NotModified => SaysNotModified(r)
  BY DEF SaysNotModified, NotModified, Blank
<1>9. r \in Pages \cup {Nothing, NotModified, NULL}
  BY <1>5
<1>10. PICK data \in Pages \cup {Nothing, NULL} :
        /\ data = IF th[t].cachedEntry # -1 /\ SaysNotModified(r) THEN th[t].dataToSend ELSE r
        /\ next # "copyOld" => data = r
        /\ next = "copyOld" => SaysNotModified(r) /\ th[t].cachedEntry # -1
  BY <1>1, <1>5, <1>7, <1>8 DEF ThreadState
<1>11. /\ th'[t] \in ThreadState /\ th' = [s \in Threads |-> th'[s]]
      /\ DOMAIN th' = Threads
      /\ th'[t].pc = next /\ th'[t].target = u
      /\ th'[t].cachedEntry = th[t].cachedEntry /\ th'[t].asked = asked
      /\ th'[t].dataToSend = data /\ th'[t].response = r
  BY <1>1, <1>4, <1>6, <1>7, <1>9, <1>10 DEF ThreadState, Labels
<1>12. FoundTarget(t) \/ (th[t].cachedEntry = -1 /\ Absent(u))
  BY <1>1 DEF Inductive, Position
<1>13. Position(t)'
  BY <1>1, <1>2, <1>7, <1>11, <1>12
  DEF Inductive, Position, Found, FoundTarget, Absent, cacheVars
<1>14. Answering(t)'
  <2>1. CASE next = "copyOld"
    <3>1. SaysNotModified(r) /\ FoundTarget(t)
      BY <1>10, <1>12, <2>1
    <3>2. UsedEntry(entry) /\ entry.url = u
      BY <3>1, FoundInUse DEF FoundTarget
    <3>3. PICK p : p = entry.page /\ p.url \in {u, None}
      BY <3>2 DEF UsedEntry
    <3>4. r # Nothing
      BY <3>1 DEF SaysNotModified, Nothing, Blank
    <3>5. r.form = "says304" \/ p.expires # 0 \/ p.modified = 0 \/ p.modified = asked.modified
      <4>1. CASE r = NotModified
        BY <1>1, <1>5, <1>6, <3>2, <3>3, <4>1, AnswerToDate, Told DEF Content
      <4>2. CASE r # NotModified
        BY <1>5, <3>1, <3>4, <4>2, PageForm DEF SaysNotModified
      <4> QED
        BY <4>1, <4>2
    <3>6. Correct(t, p)'
      BY <1>11, <3>1, <3>3, <3>5 DEF Correct, Misled, SameDate, SaysNotModified
    <3>7. p = Cached_Entries'[th'[t].cachedEntry].page
      BY <1>2, <1>11, <3>3 DEF cacheVars
    <3> QED
      BY <1>11, <2>1, <3>6, <3>7 DEF Answering, Correct, Misled, SameDate
  <2>2. CASE next # "copyOld"
    <3>1. r # NotModified
      BY <1>5, <1>7, <1>8, <2>2, Told DEF Content
    <3>2. /\ data = r /\ r \in Content /\ r.url \in {u, None}
          /\ r.modified <= origin[u].modified
          /\ r # Nothing => r.url = u /\ r.version = asked.version
      BY <1>3, <1>5, <1>6, <1>10, <2>2, <3>1, Constants DEF Content, Nothing, Blank
    <3>3. /\ th'[t].dataToSend = th'[t].response /\ th'[t].response \in Content
          /\ th'[t].response.url \in {th'[t].target, None}
          /\ th'[t].response.modified <= origin'[th'[t].target].modified
          /\ th'[t].response # Nothing => Correct(t, th[t].response)'
      BY <1>2, <1>11, <3>2 DEF Correct, world
    <3> QED
      BY <1>7, <1>11, <2>2, <3>3 DEF Answering
  <2> QED
    BY <2>1, <2>2
<1> QED
  BY <1>1, <1>2, <1>7, <1>11, <1>13, <1>14, ThreadMoves

------------------------------------------------------------------------------
(* The steps that change the cache. *)

(* The variables have their types after a step that changes the cache and     *)
(* lets the thread go on.                                                     *)
LEMMA CacheTypes ==
  ASSUME NEW t, Threads = {t}, TypeOK, NEW label \in Labels, Goto(t, label),
         UNCHANGED <<status, world>>, cache_count' \in 0 .. MaxNumCache,
         Cached_Entries' \in [0 .. MaxNumCache - 1 -> EntryState]
  PROVE  TypeOK'
<1>1. th' = [s \in Threads |-> th'[s]] /\ th'[t] \in ThreadState
  BY Going
<1>2. th' \in [Threads -> ThreadState]
  BY <1>1
<1> QED
  BY <1>2 DEF TypeOK, ThreadState, EntryState, world

(* Entries that differ in their access date only *)
SameContent(new, old) == new.url = old.url /\ new.page = old.page

(* The used entry goes behind the others: the same entries in another order. *)
LEMMA Moved ==
  ASSUME TypeOK, InUse(cache_count), NEW e \in 0 .. cache_count - 1,
         Cached_Entries' = MovedToEnd(e), cache_count' = cache_count, origin' = origin
  PROVE  /\ Cached_Entries' \in [0 .. MaxNumCache - 1 -> EntryState]
         /\ InUse(cache_count)'
         /\ SameContent(Cached_Entries'[cache_count - 1], Cached_Entries[e])
<1>1. cache_count \in Nat /\ cache_count >= 1 /\ cache_count <= MaxNumCache /\ e \in Nat
  BY Constants DEF TypeOK
<1>2. Cached_Entries \in [0 .. MaxNumCache - 1 -> EntryState]
  BY DEF TypeOK, EntryState
<1> DEFINE from(i) == IF i = cache_count - 1 THEN e
                      ELSE IF i >= e /\ i < cache_count - 1 THEN i + 1 ELSE i
<1>3. \A i \in 0 .. MaxNumCache - 1 :
        Cached_Entries'[i] \in EntryState /\ SameContent(Cached_Entries'[i], Cached_Entries[from(i)])
  <2>1. ASSUME NEW i \in 0 .. MaxNumCache - 1
        PROVE  /\ Cached_Entries'[i] \in EntryState
               /\ SameContent(Cached_Entries'[i], Cached_Entries[from(i)])
    <3>1. from(i) \in 0 .. MaxNumCache - 1
      BY <1>1, Constants
    <3>2. PICK old \in EntryState : old = Cached_Entries[from(i)]
      BY <1>2, <3>1
    <3>3. \/ Cached_Entries'[i] = old
          \/ Cached_Entries'[i] = [old EXCEPT !.Access_Date = clock]
      BY <1>1, <1>2, <3>2, Constants DEF MovedToEnd
    <3>4. clock \in 0 .. MaxClock
      BY Constants DEF TypeOK
    <3>5. [old EXCEPT !.Access_Date = clock] \in EntryState
          /\ SameContent([old EXCEPT !.Access_Date = clock], old)
      BY <3>4 DEF EntryState, SameContent
    <3>6. Cached_Entries'[i] \in EntryState /\ SameContent(Cached_Entries'[i], old)
      BY <3>3, <3>5 DEF SameContent
    <3> QED
      BY <3>2, <3>6
  <2> QED
    BY <2>1
<1>4. DOMAIN Cached_Entries' = 0 .. MaxNumCache - 1
      /\ Cached_Entries' = [i \in 0 .. MaxNumCache - 1 |-> Cached_Entries'[i]]
  BY <1>2 DEF MovedToEnd
<1>5. /\ \A i \in 0 .. MaxNumCache - 1 : from(i) \in 0 .. MaxNumCache - 1
      /\ \A i \in 0 .. MaxNumCache - 1 : i >= cache_count => from(i) = i
      /\ \A i \in 0 .. cache_count - 1 : from(i) \in 0 .. cache_count - 1
      /\ \A i, j \in 0 .. cache_count - 1 : from(i) = from(j) => i = j
      /\ from(cache_count - 1) = e
  BY <1>1, Constants
<1> HIDE DEF from
<1>6. Cached_Entries' \in [0 .. MaxNumCache - 1 -> EntryState]
  BY <1>3, <1>4
<1>7. InUse(cache_count)'
  <2>1. \A i \in 0 .. MaxNumCache - 1 : i >= cache_count => Cached_Entries'[i].url = None
    BY <1>3, <1>5 DEF InUse, SameContent
  <2>2. \A i \in 0 .. cache_count - 1 : SameContent(Cached_Entries'[i], Cached_Entries[from(i)])
    <3>1. \A i \in 0 .. cache_count - 1 : i \in 0 .. MaxNumCache - 1
      BY <1>1, Constants
    <3> QED
      BY <1>3, <3>1
  <2>3. ASSUME NEW i \in 0 .. cache_count - 1
        PROVE  UsedEntry(Cached_Entries[i])'
    <3>1. UsedEntry(Cached_Entries[from(i)])
      BY <1>5 DEF InUse
    <3> QED
      BY <2>2, <3>1 DEF UsedEntry, SameContent
  <2>4. ASSUME NEW i \in 0 .. cache_count - 1, NEW j \in 0 .. cache_count - 1,
               Cached_Entries'[i].url = Cached_Entries'[j].url
        PROVE  i = j
    <3>1. from(i) = from(j)
      BY <1>5, <2>2, <2>4 DEF InUse, SameContent
    <3> QED
      BY <1>5, <3>1
  <2> QED
    BY <1>1, <2>1, <2>3, <2>4 DEF InUse
<1>8. cache_count - 1 \in 0 .. MaxNumCache - 1
  BY <1>1, Constants
<1> QED
  BY <1>3, <1>5, <1>6, <1>7, <1>8

(* A used entry moves to the end, before or after its content is copied. *)
LEMMA TouchKeeps ==
  ASSUME NEW t, Threads = {t}, Inductive,
         \/ Touch(t, "touch", "copy") \/ Touch(t, "touchOld", "send")
         \/ Touch(t, "touchNew", "drop")
  PROVE  Inductive'
<1>1. /\ th[t].pc \in {"touch", "touchOld", "touchNew"}
      /\ cache_count \in 0 .. MaxNumCache /\ TypeOK
  BY DEF Inductive, TypeOK, Touch, At
<1>2. Found(t) /\ FoundTarget(t)
  BY <1>1 DEF Inductive, Position, FoundTarget
<1>3. cache_count # 0
  BY <1>1, <1>2 DEF Found
<1>4. PICK next \in {"copy", "send", "drop"} :
        /\ Goto(t, next)
        /\ next = IF th[t].pc = "touch" THEN "copy"
                  ELSE IF th[t].pc = "touchOld" THEN "send" ELSE "drop"
  BY <1>3 DEF Touch, At
<1>5. /\ Cached_Entries' = MovedToEnd(th[t].cachedEntry)
      /\ cache_count' = cache_count /\ UNCHANGED <<status, world>>
  BY <1>3 DEF Touch
<1>6. InUse(cache_count)
  BY <1>1 DEF Inductive, Top
<1>7. /\ Cached_Entries' \in [0 .. MaxNumCache - 1 -> EntryState] /\ InUse(cache_count)'
      /\ SameContent(Cached_Entries'[cache_count - 1], Cached_Entries[th[t].cachedEntry])
  BY <1>1, <1>2, <1>5, <1>6, Moved DEF Found, world
<1>8. /\ th'[t].pc = next /\ th'[t].target = th[t].target
      /\ th'[t].cachedEntry = th[t].cachedEntry /\ th'[t].asked = th[t].asked
      /\ th'[t].dataToSend = th[t].dataToSend /\ th'[t].response = th[t].response
  BY <1>1, <1>4, Going DEF Labels
<1>9. TypeOK'
  <2>1. next \in Labels /\ cache_count' \in 0 .. MaxNumCache
    BY <1>1, <1>4, <1>5 DEF Labels
  <2> QED
    BY <1>1, <1>4, <1>5, <1>7, <2>1, CacheTypes
<1>10. InUse(Top(t))'
  BY <1>4, <1>7, <1>8 DEF Top
<1>11. Position(t)'
  <2>1. th[t].target \in Urls
    BY <1>1 DEF Inductive, Position
  <2>2. next = "copy" => Found(t)'
    BY <1>2, <1>5, <1>8 DEF Found
  <2>3. LastIsTarget(t)'
    BY <1>1, <1>2, <1>3, <1>5, <1>7, <1>8 DEF FoundTarget, LastIsTarget, SameContent
  <2> QED
    BY <1>4, <1>8, <2>1, <2>2, <2>3 DEF Position
<1>12. Answering(t)'
  BY <1>1, <1>4, <1>5, <1>8 DEF Inductive, Answering, Correct, Misled, SameDate, world
<1>13. Dated'
  BY <1>5 DEF Inductive, Dated, world
<1> QED
  BY <1>5, <1>9, <1>10, <1>11, <1>12, <1>13 DEF Inductive, StaysInArray

(* The last entry is given up: there is room for the new one, and no entry of *)
(* its URL any more.                                                          *)
LEMMA DropLastKeeps ==
  ASSUME NEW t, Threads = {t}, Inductive, DropLast(t)
  PROVE  Inductive'
<1>1. /\ th[t].pc = "drop" /\ TypeOK /\ cache_count \in Nat /\ cache_count <= MaxNumCache
      /\ cache_count >= 1 /\ Cached_Entries[cache_count - 1].url = th[t].target
  BY Constants DEF Inductive, TypeOK, DropLast, At, Position, LastIsTarget
<1>2. /\ cache_count' = cache_count - 1 /\ Goto(t, "insert") /\ UNCHANGED <<status, world>>
      /\ Cached_Entries' = [Cached_Entries EXCEPT ![cache_count - 1] = Clear_Entry]
  BY <1>1 DEF DropLast
<1>3. /\ th'[t].pc = "insert" /\ th'[t].target = th[t].target
      /\ th'[t].cachedEntry = th[t].cachedEntry /\ th'[t].asked = th[t].asked
      /\ th'[t].dataToSend = th[t].dataToSend /\ th'[t].response = th[t].response
  BY <1>1, <1>2, Going DEF Labels
<1>4. Cached_Entries \in [0 .. MaxNumCache - 1 -> EntryState]
  BY <1>1 DEF TypeOK, EntryState
<1>5. Clear_Entry \in EntryState /\ Clear_Entry.url = None
  BY ClearState
<1>6. Cached_Entries' \in [0 .. MaxNumCache - 1 -> EntryState]
  BY <1>2, <1>4, <1>5
<1>7. PICK last \in 0 .. MaxNumCache - 1 : last = cache_count - 1 /\ cache_count' = last
  BY <1>1, <1>2, Constants
<1>8. /\ Cached_Entries'[last] = Clear_Entry
      /\ \A i \in 0 .. MaxNumCache - 1 : i # last => Cached_Entries'[i] = Cached_Entries[i]
  BY <1>2, <1>4, <1>7
<1>9. TypeOK'
  <2>1. "insert" \in Labels /\ cache_count' \in 0 .. MaxNumCache
    BY <1>7, Constants DEF Labels
  <2> QED
    BY <1>1, <1>2, <1>6, <2>1, CacheTypes
<1>10. InUse(cache_count)
  BY <1>1 DEF Inductive, Top
<1>11. InUse(Top(t))'
  <2>1. \A i \in 0 .. last - 1 : Cached_Entries'[i] = Cached_Entries[i]
    BY <1>7, <1>8, Constants
  <2>2. \A i \in 0 .. MaxNumCache - 1 : i >= last => Cached_Entries'[i].url = None
    <3>1. \A i \in 0 .. MaxNumCache - 1 : i >= last /\ i # last => i >= cache_count
      BY <1>1, <1>7, Constants
    <3> QED
      BY <1>5, <1>8, <1>10, <3>1 DEF InUse
  <2>3. \A i \in 0 .. last - 1 : i \in 0 .. cache_count - 1
    BY <1>1, <1>7
  <2>4. Top(t)' = last /\ last <= MaxNumCache
    BY <1>3, <1>7, Constants DEF Top
  <2>5. \A i \in 0 .. last - 1 : UsedEntry(Cached_Entries[i])'
    BY <1>2, <1>10, <2>1, <2>3 DEF InUse, UsedEntry, world
  <2> QED
    BY <1>10, <2>1, <2>2, <2>3, <2>4, <2>5 DEF InUse
<1>12. Absent(th[t].target)'
  <2>1. \A i \in 0 .. last - 1 : i \in 0 .. cache_count - 1 /\ i # last
    BY <1>1, <1>7
  <2>2. \A i \in 0 .. last - 1 : Cached_Entries[i].url # th[t].target
    <3>1. last \in 0 .. cache_count - 1 /\ Cached_Entries[last].url = th[t].target
      BY <1>1, <1>7
    <3> QED
      BY <1>10, <2>1, <3>1 DEF InUse
  <2>3. \A i \in 0 .. last - 1 : i \in 0 .. MaxNumCache - 1
    BY <1>7, Constants
  <2> QED
    BY <1>3, <1>7, <1>8, <2>1, <2>2, <2>3 DEF Absent
<1>13. Position(t)'
  <2>1. th[t].target \in Urls
    BY <1>1 DEF Inductive, Position
  <2> QED
    BY <1>3, <1>12, <2>1 DEF Position
<1>14. Answering(t)'
  BY <1>1, <1>2, <1>3 DEF Inductive, Answering, Correct, Misled, SameDate, world
<1>15. Dated'
  BY <1>2 DEF Inductive, Dated, world
<1> QED
  BY <1>2, <1>9, <1>11, <1>13, <1>14, <1>15 DEF Inductive, StaysInArray

(* The new entry is one, of the target. *)
LEMMA NewEntry ==
  ASSUME NEW t, Threads = {t}, Inductive, th[t].pc \in {"evict", "append"}
  PROVE  LET entry == Entry(th[t].target, th[t].response)
         IN entry \in EntryState /\ entry.url = th[t].target /\ UsedEntry(entry)
<1>1. th[t].target \in Urls
  BY DEF Inductive, Position
<1>2. /\ th[t].response \in Content /\ th[t].response.url \in {th[t].target, None}
      /\ th[t].response.modified <= origin[th[t].target].modified
  BY DEF Inductive, Answering
<1>3. th[t].response.date \in 0 .. MaxClock
  BY <1>2, Constants DEF Content, Pages, Nothing, Blank
<1> QED
  BY <1>1, <1>2, <1>3 DEF Entry, EntryState, Content, UsedEntry

(* A full cache gives up its first entry for the new one. *)
LEMMA EvictKeeps ==
  ASSUME NEW t, Threads = {t}, Inductive, Evict(t)
  PROVE  Inductive'
<1>1. th[t].pc = "evict" /\ TypeOK /\ cache_count = MaxNumCache /\ Absent(th[t].target)
  BY DEF Inductive, Evict, At, Position
<1>2. PICK entry : entry = Entry(th[t].target, th[t].response)
  OBVIOUS
<1>3. entry \in EntryState /\ entry.url = th[t].target /\ UsedEntry(entry)
  BY <1>1, <1>2, NewEntry
<1>4. /\ Cached_Entries' = Shifted(entry) /\ Goto(t, "send")
      /\ UNCHANGED <<cache_count, status, world>>
  BY <1>2 DEF Evict
<1>5. /\ th'[t].pc = "send" /\ th'[t].target = th[t].target
      /\ th'[t].cachedEntry = th[t].cachedEntry /\ th'[t].asked = th[t].asked
      /\ th'[t].dataToSend = th[t].dataToSend /\ th'[t].response = th[t].response
  BY <1>1, <1>4, Going DEF Labels
<1>6. PICK last \in Nat : last = MaxNumCache - 1
  BY Constants
<1>7. Cached_Entries \in [0 .. last -> EntryState]
  BY <1>1, <1>6 DEF TypeOK, EntryState
<1>8. /\ Cached_Entries'[last] = entry
      /\ \A i \in 0 .. last - 1 : Cached_Entries'[i] = Cached_Entries[i + 1]
      /\ Cached_Entries' = [i \in 0 .. last |-> Cached_Entries'[i]]
  <2>1. DOMAIN Cached_Entries = 0 .. last
    BY <1>7
  <2>2. Cached_Entries' = [i \in 0 .. last |-> IF i = last THEN entry ELSE Cached_Entries[i + 1]]
    BY <1>4, <1>6, <2>1 DEF Shifted
  <2> QED
    BY <2>2
<1>9. \A i \in 0 .. last - 1 : i + 1 \in 0 .. last
  OBVIOUS
<1>10. \A i \in 0 .. last : i = last \/ i \in 0 .. last - 1
  OBVIOUS
<1>11. Cached_Entries' \in [0 .. MaxNumCache - 1 -> EntryState]
  <2>1. \A i \in 0 .. last : Cached_Entries'[i] \in EntryState
    BY <1>3, <1>7, <1>8, <1>9, <1>10
  <2> QED
    BY <1>6, <1>8, <2>1
<1>12. TypeOK'
  <2>1. "send" \in Labels /\ cache_count' \in 0 .. MaxNumCache
    BY <1>1, <1>4, Constants DEF Labels, TypeOK
  <2> QED
    BY <1>1, <1>4, <1>11, <2>1, CacheTypes
<1>13. InUse(Top(t))'
  <2>1. InUse(MaxNumCache)
    BY <1>1 DEF Inductive, Top
  <2>2. \A i \in 0 .. last : UsedEntry(Cached_Entries[i]) /\ Cached_Entries[i].url # entry.url
    BY <1>1, <1>3, <1>6, <2>1 DEF InUse, Absent
  <2>3. ASSUME NEW i \in 0 .. last
        PROVE  UsedEntry(Cached_Entries[i])'
    BY <1>3, <1>4, <1>8, <1>9, <1>10, <2>2 DEF UsedEntry, world
  <2>4. ASSUME NEW i \in 0 .. last, NEW j \in 0 .. last,
               Cached_Entries'[i].url = Cached_Entries'[j].url
        PROVE  i = j
    <3>1. CASE i = last \/ j = last
      BY <1>8, <1>9, <1>10, <2>2, <2>4, <3>1
    <3>2. CASE i # last /\ j # last
      <4>1. i \in 0 .. last - 1 /\ j \in 0 .. last - 1
        BY <3>2
      <4>2. Cached_Entries[i + 1].url = Cached_Entries[j + 1].url
        BY <1>8, <2>4, <4>1
      <4>3. i + 1 = j + 1
        BY <1>6, <1>9, <2>1, <4>1, <4>2 DEF InUse
      <4> QED
        BY <4>3
    <3> QED
      BY <3>1, <3>2
  <2>5. Top(t)' = MaxNumCache
    BY <1>1, <1>4, <1>5 DEF Top
  <2>6. \A i \in 0 .. MaxNumCache - 1 : ~(i >= MaxNumCache)
    BY Constants
  <2> QED
    BY <1>6, <2>3, <2>4, <2>5, <2>6, Constants DEF InUse
<1>14. Position(t)'
  <2>1. LastIsTarget(t)'
    BY <1>1, <1>3, <1>4, <1>5, <1>6, <1>8, Constants DEF LastIsTarget
  <2> QED
    BY <1>3, <1>5, <2>1 DEF Position, UsedEntry
<1>15. Answering(t)'
  BY <1>1, <1>4, <1>5 DEF Inductive, Answering, Correct, Misled, SameDate, world
<1>16. Dated'
  BY <1>4 DEF Inductive, Dated, world
<1> QED
  BY <1>4, <1>12, <1>13, <1>14, <1>15, <1>16 DEF Inductive, StaysInArray

(* The new entry is written behind the others, ... *)
LEMMA AppendEntryKeeps ==
  ASSUME NEW t, Threads = {t}, Inductive, AppendEntry(t)
  PROVE  Inductive'
<1>1. /\ th[t].pc = "append" /\ TypeOK /\ Absent(th[t].target)
      /\ cache_count \in Nat /\ cache_count < MaxNumCache
  BY Constants DEF Inductive, AppendEntry, At, Position, TypeOK
<1>2. PICK entry : entry = Entry(th[t].target, th[t].response)
  OBVIOUS
<1>3. entry \in EntryState /\ entry.url = th[t].target /\ UsedEntry(entry)
  BY <1>1, <1>2, NewEntry
<1>4. Cached_Entries \in [0 .. MaxNumCache - 1 -> EntryState]
  BY <1>1 DEF TypeOK, EntryState
<1>5. cache_count \in 0 .. MaxNumCache - 1
  BY <1>1, Constants
<1>6. /\ Cached_Entries' = [Cached_Entries EXCEPT ![cache_count] = entry] /\ Goto(t, "count")
      /\ UNCHANGED <<cache_count, status, world>>
  BY <1>2, <1>4, <1>5 DEF AppendEntry
<1>7. /\ th'[t].pc = "count" /\ th'[t].target = th[t].target
      /\ th'[t].cachedEntry = th[t].cachedEntry /\ th'[t].asked = th[t].asked
      /\ th'[t].dataToSend = th[t].dataToSend /\ th'[t].response = th[t].response
  BY <1>1, <1>6, Going DEF Labels
<1>8. /\ Cached_Entries' \in [0 .. MaxNumCache - 1 -> EntryState]
      /\ Cached_Entries'[cache_count] = entry
      /\ \A i \in 0 .. MaxNumCache - 1 :
           i # cache_count => Cached_Entries'[i] = Cached_Entries[i]
  BY <1>3, <1>4, <1>5, <1>6
<1>9. TypeOK'
  <2>1. "count" \in Labels /\ cache_count' \in 0 .. MaxNumCache
    BY <1>1, <1>6, Constants DEF Labels
  <2> QED
    BY <1>1, <1>6, <1>8, <2>1, CacheTypes
<1>10. InUse(Top(t))'
  <2>1. InUse(cache_count)
    BY <1>1 DEF Inductive, Top
  <2>2. PICK n \in Nat : n = cache_count + 1 /\ n <= MaxNumCache
    BY <1>1, Constants
  <2>3. \A i \in 0 .. n - 1 : i = cache_count \/ i \in 0 .. cache_count - 1
    BY <1>1, <2>2
  <2>4. \A i \in 0 .. cache_count - 1 :
          /\ Cached_Entries'[i] = Cached_Entries[i]
          /\ Cached_Entries[i].url # entry.url
    <3>1. \A i \in 0 .. cache_count - 1 : i \in 0 .. MaxNumCache - 1 /\ i # cache_count
      BY <1>1, Constants
    <3> QED
      BY <1>1, <1>3, <1>8, <3>1 DEF Absent
  <2>5. ASSUME NEW i \in 0 .. MaxNumCache - 1, i >= n
        PROVE  Cached_Entries'[i].url = None
    <3>1. i # cache_count /\ i >= cache_count
      BY <1>1, <2>2, <2>5
    <3> QED
      BY <1>8, <2>1, <3>1 DEF InUse
  <2>6. ASSUME NEW i \in 0 .. n - 1
        PROVE  UsedEntry(Cached_Entries[i])'
    BY <1>3, <1>6, <1>8, <2>1, <2>3, <2>4 DEF InUse, UsedEntry, world
  <2>7. ASSUME NEW i \in 0 .. n - 1, NEW j \in 0 .. n - 1,
               Cached_Entries'[i].url = Cached_Entries'[j].url
        PROVE  i = j
    BY <1>8, <2>1, <2>3, <2>4, <2>7 DEF InUse
  <2>8. Top(t)' = n
    BY <1>6, <1>7, <2>2 DEF Top
  <2> QED
    BY <2>2, <2>5, <2>6, <2>7, <2>8 DEF InUse
<1>11. Position(t)'
  BY <1>3, <1>6, <1>7, <1>8 DEF Position, UsedEntry
<1>12. Answering(t)'
  BY <1>1, <1>6, <1>7 DEF Inductive, Answering, Correct, Misled, SameDate, world
<1>13. Dated'
  BY <1>6 DEF Inductive, Dated, world
<1> QED
  BY <1>6, <1>9, <1>10, <1>11, <1>12, <1>13 DEF Inductive, StaysInArray

(* ... and then counted. *)
LEMMA CountKeeps ==
  ASSUME NEW t, Threads = {t}, Inductive, Count(t)
  PROVE  Inductive'
<1>1. /\ th[t].pc = "count" /\ TypeOK /\ cache_count \in Nat /\ InUse(cache_count + 1)
      /\ th[t].target \in Urls
  BY Constants DEF Inductive, Count, At, TypeOK, Top, Position
<1>2. /\ cache_count' = cache_count + 1 /\ Goto(t, "send")
      /\ UNCHANGED <<Cached_Entries, status, world>>
  BY DEF Count
<1>3. /\ th'[t].pc = "send" /\ th'[t].target = th[t].target
      /\ th'[t].cachedEntry = th[t].cachedEntry /\ th'[t].asked = th[t].asked
      /\ th'[t].dataToSend = th[t].dataToSend /\ th'[t].response = th[t].response
  BY <1>1, <1>2, Going DEF Labels
<1>4. TypeOK'
  <2>1. "send" \in Labels /\ cache_count' \in 0 .. MaxNumCache
    BY <1>1, <1>2, Constants DEF Labels, InUse
  <2>2. Cached_Entries' \in [0 .. MaxNumCache - 1 -> EntryState]
    BY <1>1, <1>2 DEF TypeOK, EntryState
  <2> QED
    BY <1>1, <1>2, <2>1, <2>2, CacheTypes
<1>5. InUse(Top(t))' /\ Dated'
  BY <1>1, <1>2, <1>3 DEF Inductive, InUse, UsedEntry, Top, Dated, world
<1>6. Position(t)' /\ Answering(t)'
  <2>1. LastIsTarget(t)'
    <3>1. cache_count' - 1 = cache_count /\ cache_count' > 0
      BY <1>1, <1>2
    <3> QED
      BY <1>1, <1>2, <1>3, <3>1 DEF Inductive, Position, LastIsTarget
  <2>2. Position(t)'
    BY <1>1, <1>3, <2>1 DEF Position
  <2>3. Answering(t)'
    BY <1>1, <1>2, <1>3 DEF Inductive, Answering, Correct, Misled, SameDate, world
  <2> QED
    BY <2>2, <2>3
<1> QED
  BY <1>2, <1>4, <1>5, <1>6 DEF Inductive, StaysInArray

(* The origin changes a page, or time passes, or nothing happens. *)
LEMMA OutsideKeeps ==
  ASSUME NEW t, Threads = {t}, Inductive,
         Tick \/ UNCHANGED vars \/ \E u \in Urls : Modify(u)
  PROVE  Inductive'
<1>1. UNCHANGED <<cacheVars, th, status>>
  BY DEF Tick, Modify, vars, cacheVars
<1>2. /\ origin' \in [Urls -> OriginState] /\ clock' \in 1 .. MaxClock
      /\ \A u \in Urls : origin'[u].modified <= clock'
      /\ \A u \in Urls : origin[u].modified <= origin'[u].modified
  <2>1. /\ origin \in [Urls -> OriginState] /\ clock \in 1 .. MaxClock
        /\ \A u \in Urls : origin[u].modified <= clock /\ origin[u].modified \in Nat
    BY Constants DEF Inductive, TypeOK, OriginState, Dated
  <2>2. CASE Tick \/ UNCHANGED vars
    BY <2>1, <2>2, Constants DEF Tick, vars
  <2>3. CASE \E u \in Urls : Modify(u)
    <3>1. PICK u \in Urls : Modify(u)
      BY <2>3
    <3>2. PICK new : /\ new = [version |-> origin[u].version + 1, modified |-> clock]
                     /\ origin' = [origin EXCEPT ![u] = new]
      BY <2>1, <3>1 DEF Modify
    <3>3. origin[u].version + 1 \in 0 .. MaxVersion
      BY <2>1, <3>1, Constants DEF Modify, OriginState
    <3>4. new \in OriginState /\ new.modified = clock
      BY <2>1, <3>2, <3>3 DEF OriginState
    <3>5. clock' = clock
      BY <3>1 DEF Modify
    <3> QED
      BY <2>1, <3>2, <3>4, <3>5, Constants
  <2> QED
    BY <2>2, <2>3
<1>3. TypeOK' /\ Dated'
  BY <1>1, <1>2 DEF Inductive, TypeOK, OriginState, Dated, cacheVars
<1>4. InUse(Top(t))'
  <2>1. \A p \in Content : p.modified \in Int
    BY Constants DEF Content, Pages, Nothing, Blank
  <2>2. \A u \in Urls : origin[u].modified \in Int /\ origin'[u].modified \in Int
    BY <1>2, Constants DEF Inductive, TypeOK, OriginState
  <2>3. InUse(Top(t)) /\ Top(t)' = Top(t)
    BY <1>1 DEF Inductive, Top, cacheVars
  <2>4. ASSUME NEW i \in 0 .. Top(t) - 1 PROVE UsedEntry(Cached_Entries[i])'
    <3>1. PICK entry : entry = Cached_Entries[i] /\ UsedEntry(entry) /\ entry = Cached_Entries'[i]
      BY <1>1, <2>3 DEF InUse, cacheVars
    <3>2. /\ origin[entry.url].modified \in Int /\ origin'[entry.url].modified \in Int
          /\ origin[entry.url].modified <= origin'[entry.url].modified
      BY <1>2, <2>2, <3>1 DEF UsedEntry
    <3>3. entry.page.modified <= origin'[entry.url].modified
      BY <2>1, <3>1, <3>2 DEF UsedEntry
    <3> QED
      BY <3>1, <3>3 DEF UsedEntry
  <2> QED
    BY <1>1, <2>3, <2>4 DEF InUse, cacheVars
<1>5. Position(t)'
  BY <1>1 DEF Inductive, Position, FoundTarget, Found, LastIsTarget, Absent, cacheVars
<1>6. Answering(t)'
  <2>1. \A p \in Content : p.modified \in Int
    BY Constants DEF Content, Pages, Nothing, Blank
  <2>2. \A u \in Urls : origin[u].modified \in Int /\ origin'[u].modified \in Int
    BY <1>2, Constants DEF Inductive, TypeOK, OriginState
  <2>3. th[t].pc # "idle" => th[t].target \in Urls
    BY DEF Inductive, Position
  <2>4. th[t].pc \in {"touchNew", "drop", "insert", "evict", "append", "count"} =>
          th[t].response.modified <= origin'[th[t].target].modified
    BY <1>2, <2>1, <2>2, <2>3 DEF Inductive, Answering
  <2> QED
    BY <1>1, <2>4 DEF Inductive, Answering, Correct, Misled, SameDate, cacheVars
<1> QED
  BY <1>1, <1>3, <1>4, <1>5, <1>6 DEF Inductive, StaysInArray

(* Every step keeps the invariant. *)
LEMMA InductiveStep ==
  ASSUME NEW t, Threads = {t}, Inductive, [Next]_vars
  PROVE  Inductive'
<1>1. CASE ThreadStep(t)
  <2>1. CASE \E u \in Urls : Request(t, u)
    BY <2>1, RequestKeeps
  <2>2. CASE Find(t)
    BY <2>2, FindKeeps
  <2>3. CASE Check(t)
    BY <2>3, CheckKeeps
  <2>4. CASE Fetch(t)
    BY <2>4, FetchKeeps
  <2>5. CASE HostIsUnknown(t) \/ ClientIsGone(t) \/ HeaderIsTorn(t)
    BY <2>5, ExitKeeps
  <2>6. CASE \/ Touch(t, "touch", "copy") \/ Touch(t, "touchOld", "send")
             \/ Touch(t, "touchNew", "drop")
    BY <2>6, TouchKeeps
  <2>7. CASE CopyContent(t, "copy", "send") \/ CopyContent(t, "copyOld", "touchOld")
    BY <2>7, CopyContentKeeps
  <2>8. CASE DropLast(t)
    BY <2>8, DropLastKeeps
  <2>9. CASE Insert(t)
    BY <2>9, InsertKeeps
  <2>10. CASE Evict(t)
    BY <2>10, EvictKeeps
  <2>11. CASE AppendEntry(t)
    BY <2>11, AppendEntryKeeps
  <2>12. CASE Count(t)
    BY <2>12, CountKeeps
  <2>13. CASE Answer(t)
    BY <2>13, AnswerKeeps
  <2> QED
    BY <1>1, <2>1, <2>2, <2>3, <2>4, <2>5, <2>6, <2>7, <2>8, <2>9, <2>10, <2>11, <2>12, <2>13
    DEF ThreadStep
<1>2. CASE Tick \/ UNCHANGED vars \/ \E u \in Urls : Modify(u)
  BY <1>2, OutsideKeeps
<1> QED
  BY <1>1, <1>2 DEF Next

(* The invariant holds when requests come one at a time. *)
LEMMA InductiveHolds ==
  ASSUME OneThread
  PROVE  Spec => []Inductive
<1>1. Init => Inductive
  BY InductiveInit DEF OneThread
<1>2. Inductive /\ [Next]_vars => Inductive'
  BY InductiveStep DEF OneThread
<1> QED
  BY <1>1, <1>2, PTL DEF Spec

------------------------------------------------------------------------------
(* The properties. *)

(* When requests come one at a time, the variables of the proxy have their    *)
(* types.                                                                     *)
THEOREM TypeCorrect ==
  ASSUME OneThread
  PROVE  Spec => []TypeOK
<1>1. Inductive => TypeOK
  BY DEF Inductive
<1> QED
  BY <1>1, InductiveHolds, PTL

(* When requests come one at a time, the proxy never reads through the null   *)
(* pointer of an empty entry and never writes next to Cached_Entries.         *)
THEOREM CacheIsNotOverrun ==
  ASSUME OneThread
  PROVE  Spec => []StaysInArray
<1>1. Inductive => StaysInArray
  BY DEF Inductive
<1> QED
  BY <1>1, InductiveHolds, PTL

(* When requests come one at a time, the entries that UpdateCacheEntry keeps  *)
(* are the first ones of Cached_Entries, of different URLs, each with a page  *)
(* of its URL.                                                                *)
THEOREM CacheIsInOrder ==
  ASSUME OneThread
  PROVE  Spec => []EntriesMatch
<1>1. PICK t : Threads = {t}
  BY DEF OneThread
<1>2. ASSUME Inductive PROVE EntriesMatch
  <2>1. DOMAIN Cached_Entries = 0 .. MaxNumCache - 1 /\ cache_count \in Nat
    BY <1>2, Constants DEF Inductive, TypeOK
  <2>2. PICK n \in Nat : InUse(n) /\ cache_count <= n /\ n <= MaxNumCache
    <3>1. PICK n \in Nat : n = Top(t) /\ cache_count <= n
      BY <2>1 DEF Top
    <3>2. InUse(n)
      BY <1>1, <1>2, <3>1 DEF Inductive
    <3> QED
      BY <3>1, <3>2 DEF InUse
  <2>3. Used = 0 .. n - 1
    <3>1. \A i \in 0 .. n - 1 : i \in 0 .. MaxNumCache - 1
      BY <2>2, Constants
    <3>2. \A i \in 0 .. n - 1 : Cached_Entries[i].url # None
      BY <2>2, Constants DEF InUse, UsedEntry
    <3>3. \A i \in 0 .. MaxNumCache - 1 : i >= n \/ i \in 0 .. n - 1
      BY <2>2, Constants
    <3>4. \A i \in 0 .. MaxNumCache - 1 : i >= n => Cached_Entries[i].url = None
      BY <2>2 DEF InUse
    <3> QED
      BY <2>1, <3>1, <3>2, <3>3, <3>4 DEF Used
  <2>4. ASSUME NEW i \in Used, NEW j \in DOMAIN Cached_Entries, j < i
        PROVE  j \in Used
    BY <2>2, <2>1, <2>3, <2>4, Constants
  <2>5. ASSUME NEW i \in Used, NEW j \in DOMAIN Cached_Entries,
               Cached_Entries[i].url = Cached_Entries[j].url
        PROVE  i = j
    <3>1. j \in Used
      BY <2>5 DEF Used
    <3> QED
      BY <2>2, <2>3, <2>5, <3>1 DEF InUse
  <2>6. \A i \in Used : Cached_Entries[i].page.url \in {Cached_Entries[i].url, None}
    BY <2>2, <2>3 DEF InUse, UsedEntry
  <2>7. \A i \in 0 .. cache_count - 1 : i \in Used
    BY <2>2, <2>1, <2>3
  <2> QED
    BY <2>4, <2>5, <2>6, <2>7 DEF EntriesMatch
<1> QED
  BY <1>2, InductiveHolds, PTL

(* When requests come one at a time, a client whose request went to the       *)
(* origin gets, as far as it came, the page the origin had then, even if only *)
(* a 304 came back, unless the date that start_proxy sent could not tell: the *)
(* Expires date, that of the last use, or of a second with two changes.       *)
THEOREM AnswerIsTheOrigins ==
  ASSUME OneThread
  PROVE  Spec => []AskedIsAnswered
<1>1. Inductive => AskedIsAnswered
  BY DEF Inductive, Answering, Correct, AskedIsAnswered
<1> QED
  BY <1>1, InductiveHolds, PTL

------------------------------------------------------------------------------
(* The cache gives up the least recently requested page.                      *)

(* A page of the cache *)
PageState == [url : Urls \cup {None}, page : Pages \cup {Nothing, NULL}]
WithoutDate(entry) == [url |-> entry.url, page |-> entry.page]

(* The request is that of the one thread. *)
LEMMA OneRequest ==
  ASSUME NEW t, Threads = {t}
  PROVE  Requested = th[t].target /\ Requested' = th'[t].target
BY DEF Requested

(* They are a sequence. *)
LEMMA FirstEntries ==
  ASSUME NEW n \in 0 .. MaxNumCache, NEW array \in [0 .. MaxNumCache - 1 -> EntryState]
  PROVE  LET s == [i \in 1 .. n |-> [url |-> array[i - 1].url, page |-> array[i - 1].page]]
         IN /\ s \in Seq(PageState) /\ Len(s) = n
            /\ \A i \in 1 .. n : s[i] = WithoutDate(array[i - 1])
<1> DEFINE s == [i \in 1 .. n |-> [url |-> array[i - 1].url, page |-> array[i - 1].page]]
<1>1. n \in Nat
  BY Constants
<1>2. \A i \in 1 .. n : i - 1 \in 0 .. MaxNumCache - 1
  BY <1>1, Constants
<1>3. \A i \in 1 .. n : array[i - 1].url \in Urls \cup {None}
                       /\ array[i - 1].page \in Pages \cup {Nothing, NULL}
  BY <1>2 DEF EntryState
<1>4. s \in [1 .. n -> PageState]
  BY <1>3 DEF PageState
<1>5. \A i \in 1 .. n : s[i] = WithoutDate(array[i - 1])
  BY DEF WithoutDate
<1> HIDE DEF s
<1>6. s \in Seq(PageState)
  BY <1>1, <1>4, SeqDef
<1>7. Len(s) = n
  BY <1>1, <1>4, <1>6, LenProperties
<1> QED
  BY <1>5, <1>6, <1>7 DEF s

(* So they are before and after a step. *)
LEMMA EntriesInCache ==
  ASSUME TypeOK, TypeOK'
  PROVE  /\ InCache \in Seq(PageState) /\ Len(InCache) = cache_count
         /\ \A i \in 1 .. cache_count : InCache[i] = WithoutDate(Cached_Entries[i - 1])
         /\ cache_count \in Nat /\ cache_count <= MaxNumCache
         /\ InCache' \in Seq(PageState) /\ Len(InCache') = cache_count'
         /\ \A i \in 1 .. cache_count' : InCache'[i] = WithoutDate(Cached_Entries'[i - 1])
         /\ cache_count' \in Nat /\ cache_count' <= MaxNumCache
<1>1. /\ cache_count \in 0 .. MaxNumCache /\ cache_count' \in 0 .. MaxNumCache
      /\ Cached_Entries \in [0 .. MaxNumCache - 1 -> EntryState]
      /\ Cached_Entries' \in [0 .. MaxNumCache - 1 -> EntryState]
  BY DEF TypeOK, EntryState
<1>2. /\ InCache \in Seq(PageState) /\ Len(InCache) = cache_count
      /\ \A i \in 1 .. cache_count : InCache[i] = WithoutDate(Cached_Entries[i - 1])
  BY <1>1, FirstEntries DEF InCache
<1>3. /\ InCache' \in Seq(PageState) /\ Len(InCache') = cache_count'
      /\ \A i \in 1 .. cache_count' : InCache'[i] = WithoutDate(Cached_Entries'[i - 1])
  BY <1>1, FirstEntries DEF InCache
<1> QED
  BY <1>1, <1>2, <1>3, Constants

(* A sequence without its i-th element *)
LEMMA RemovedAt ==
  ASSUME NEW S, NEW s \in Seq(S), NEW i \in 1 .. Len(s)
  PROVE  /\ RemoveAt(s, i) \in Seq(S) /\ Len(RemoveAt(s, i)) = Len(s) - 1
         /\ \A k \in 1 .. Len(s) - 1 :
              RemoveAt(s, i)[k] = IF k < i THEN s[k] ELSE s[k + 1]
<1>1. Len(s) \in Nat /\ i \in Nat /\ 1 <= i /\ i <= Len(s)
  BY LenProperties
<1>2. \A k \in 1 .. Len(s) : s[k] \in S
  BY ElementOfSeq
<1>3. PICK low : low = SubSeq(s, 1, i - 1)
  OBVIOUS
<1>4. PICK high : high = SubSeq(s, i + 1, Len(s))
  OBVIOUS
<1>5. low \in Seq(S) /\ Len(low) = i - 1 /\ \A k \in 1 .. i - 1 : low[k] = s[k]
  <2>1. \A k \in 1 .. i - 1 : s[k] \in S /\ 1 + k - 1 = k
    BY <1>1, <1>2
  <2> QED
    BY <1>1, <1>3, <2>1, SubSeqProperties
<1>6. /\ high \in Seq(S) /\ Len(high) = Len(s) - i
      /\ \A k \in 1 .. Len(s) - i : high[k] = s[i + k]
  <2>1. \A k \in i + 1 .. Len(s) : s[k] \in S
    BY <1>1, <1>2
  <2>2. /\ high \in Seq(S)
        /\ Len(high) = IF i + 1 <= Len(s) THEN Len(s) - (i + 1) + 1 ELSE 0
        /\ \A k \in 1 .. Len(s) - (i + 1) + 1 : high[k] = s[i + 1 + k - 1]
    BY <1>1, <1>4, <2>1, SubSeqProperties
  <2> QED
    BY <1>1, <2>2
<1>7. PICK both : both = low \o high /\ both = RemoveAt(s, i)
  BY <1>3, <1>4 DEF RemoveAt
<1>8. /\ both \in Seq(S) /\ Len(both) = Len(low) + Len(high)
      /\ \A k \in 1 .. Len(low) + Len(high) :
           both[k] = IF k <= Len(low) THEN low[k] ELSE high[k - Len(low)]
  <2>1. low \in Seq(S) /\ high \in Seq(S)
    BY <1>5, <1>6
  <2> QED
    BY <1>7, <2>1, ConcatProperties
<1>9. ASSUME NEW k \in 1 .. Len(s) - 1 PROVE both[k] = IF k < i THEN s[k] ELSE s[k + 1]
  <2>1. Len(low) = i - 1 /\ k \in 1 .. Len(low) + Len(high)
    BY <1>1, <1>5, <1>6
  <2>2. CASE k < i
    <3>1. k <= i - 1 /\ k \in 1 .. i - 1
      BY <1>1, <2>2
    <3> QED
      BY <1>5, <1>8, <2>1, <2>2, <3>1
  <2>3. CASE ~(k < i)
    <3>1. PICK m \in 1 .. Len(s) - i : m = k - (i - 1) /\ i + m = k + 1
      BY <1>1, <2>3
    <3>2. ~(k <= i - 1)
      BY <1>1, <2>3
    <3> QED
      BY <1>6, <1>8, <2>1, <2>3, <3>1, <3>2
  <2> QED
    BY <2>2, <2>3
<1> QED
  BY <1>1, <1>5, <1>6, <1>7, <1>8, <1>9

(* A sequence that is another one and a last element *)
LEMMA IsAppend ==
  ASSUME NEW S, NEW s \in Seq(S), NEW r \in Seq(S), Len(r) = Len(s) + 1,
         \A i \in 1 .. Len(s) : r[i] = s[i]
  PROVE  r = Append(s, r[Len(s) + 1])
<1>1. Len(s) \in Nat
  BY LenProperties
<1>2. r[Len(s) + 1] \in S
  BY <1>1, ElementOfSeq
<1>3. PICK a : a = Append(s, r[Len(s) + 1])
  OBVIOUS
<1>4. /\ a \in Seq(S) /\ Len(a) = Len(s) + 1 /\ a[Len(s) + 1] = r[Len(s) + 1]
      /\ \A i \in 1 .. Len(s) : a[i] = s[i]
  BY <1>2, <1>3, AppendProperties
<1>5. \A i \in 1 .. Len(s) + 1 : i \in 1 .. Len(s) \/ i = Len(s) + 1
  BY <1>1
<1>6. \A i \in 1 .. Len(r) : a[i] = r[i]
  BY <1>4, <1>5
<1> QED
  BY <1>3, <1>4, <1>6, SeqEqual

(* A thread that only goes on keeps its target. *)
LEMMA SameTarget ==
  ASSUME NEW t \in Threads, TypeOK, NEW label, Goto(t, label)
  PROVE  th'[t].target = th[t].target
<1>1. th[t] \in ThreadState /\ DOMAIN th = Threads
  BY DEF TypeOK, ThreadState
<1> QED
  BY <1>1 DEF Goto, ThreadState

(* Moving entry e to the end is a use of it, ... *)
LEMMA TouchIsUse ==
  ASSUME NEW t, Threads = {t}, Inductive, Inductive',
         \/ Touch(t, "touch", "copy") \/ Touch(t, "touchOld", "send")
         \/ Touch(t, "touchNew", "drop")
  PROVE  Lru!Next
<1>1. PICK e : e = th[t].cachedEntry
  OBVIOUS
<1>2. /\ e \in 0 .. cache_count - 1 /\ Cached_Entries[e].url = th[t].target
      /\ TypeOK /\ TypeOK'
  BY <1>1 DEF Inductive, Position, FoundTarget, Found, Touch, At
<1>3. cache_count \in Nat /\ cache_count # 0
  BY <1>2, Constants DEF TypeOK
<1>4. Cached_Entries' = MovedToEnd(e) /\ cache_count' = cache_count
  BY <1>1, <1>3 DEF Touch
<1>5. PICK s : s = InCache
  OBVIOUS
<1>6. PICK r : r = InCache'
  OBVIOUS
<1>7. PICK n \in Nat : n = cache_count /\ n <= MaxNumCache /\ n >= 1
  BY <1>2, <1>3, EntriesInCache
<1>8. /\ s \in Seq(PageState) /\ Len(s) = n
      /\ \A i \in 1 .. n : s[i] = WithoutDate(Cached_Entries[i - 1])
  BY <1>2, <1>5, <1>7, EntriesInCache
<1>9. /\ r \in Seq(PageState) /\ Len(r) = n
      /\ \A i \in 1 .. n : r[i] = WithoutDate(Cached_Entries'[i - 1])
  BY <1>2, <1>4, <1>6, <1>7, EntriesInCache
<1>10. PICK k \in 1 .. n : k = e + 1
  BY <1>2, <1>7
<1>11. PICK m \in Seq(PageState) : m = RemoveAt(s, k)
  BY <1>8, <1>10, RemovedAt
<1>12. /\ Len(m) = n - 1
       /\ \A i \in 1 .. n - 1 : m[i] = IF i < k THEN s[i] ELSE s[i + 1]
  BY <1>8, <1>10, <1>11, RemovedAt
<1>13. \A i \in 0 .. n - 1 :
         WithoutDate(Cached_Entries'[i]) =
           IF i = n - 1 THEN WithoutDate(Cached_Entries[e])
           ELSE IF i >= e /\ i < n - 1 THEN WithoutDate(Cached_Entries[i + 1])
           ELSE WithoutDate(Cached_Entries[i])
  <2>1. DOMAIN Cached_Entries = 0 .. MaxNumCache - 1
    BY <1>2 DEF TypeOK
  <2>2. \A i \in 0 .. n - 1 : i \in DOMAIN Cached_Entries
    BY <1>7, <2>1, Constants
  <2>3. PICK old \in EntryState : old = Cached_Entries[e]
    BY <1>2, <1>7, <2>2 DEF TypeOK, EntryState
  <2>4. WithoutDate([old EXCEPT !.Access_Date = clock]) = WithoutDate(old)
    BY DEF EntryState, WithoutDate
  <2>5. \A i \in 0 .. n - 1 :
          Cached_Entries'[i] = IF i = n - 1 THEN [old EXCEPT !.Access_Date = clock]
                               ELSE IF i >= e /\ i < n - 1 THEN Cached_Entries[i + 1]
                               ELSE Cached_Entries[i]
    BY <1>4, <1>7, <2>2, <2>3 DEF MovedToEnd
  <2> QED
    BY <2>3, <2>4, <2>5
<1>14. r[n] = s[k]
  <2>1. n \in 1 .. n /\ n - 1 \in 0 .. n - 1 /\ k - 1 = e
    BY <1>2, <1>7, <1>10
  <2>2. r[n] = WithoutDate(Cached_Entries'[n - 1]) /\ s[k] = WithoutDate(Cached_Entries[e])
    BY <1>8, <1>9, <1>10, <2>1
  <2> QED
    BY <1>13, <2>1, <2>2
<1>15. ASSUME NEW i \in 1 .. n - 1 PROVE r[i] = m[i]
  <2>1. i \in 1 .. n /\ i + 1 \in 1 .. n /\ i - 1 \in 0 .. n - 1 /\ i - 1 # n - 1 /\ i - 1 < n - 1
    BY <1>7
  <2>2. r[i] = WithoutDate(Cached_Entries'[i - 1]) /\ s[i] = WithoutDate(Cached_Entries[i - 1]) /\ s[i + 1] = WithoutDate(Cached_Entries[i])
    BY <1>7, <1>8, <1>9, <2>1
  <2>3. CASE i < k
    <3>1. ~(i - 1 >= e)
      BY <1>2, <1>7, <1>10, <2>3
    <3> QED
      BY <1>12, <1>13, <2>1, <2>2, <2>3, <3>1
  <2>4. CASE ~(i < k)
    <3>1. i - 1 >= e /\ i - 1 + 1 = i
      BY <1>2, <1>7, <1>10, <2>4
    <3> QED
      BY <1>12, <1>13, <2>1, <2>2, <2>4, <3>1
  <2> QED
    BY <2>3, <2>4
<1>16. n - 1 + 1 = n
  BY <1>7
<1>17. r = Append(m, s[k])
  BY <1>9, <1>11, <1>12, <1>14, <1>15, <1>16, IsAppend
<1>18. InCache[k].url = Requested /\ Requested' = Requested
  <2>1. s[k] = WithoutDate(Cached_Entries[e])
    BY <1>2, <1>7, <1>8, <1>10
  <2>2. th'[t].target = th[t].target
    BY <1>3, SameTarget DEF Touch, Inductive
  <2> QED
    BY <1>2, <1>5, <2>1, <2>2, OneRequest DEF WithoutDate
<1>19. k \in 1 .. Len(InCache) /\ InCache' = Append(RemoveAt(InCache, k), InCache[k])
  BY <1>5, <1>6, <1>8, <1>11, <1>17
<1> QED
  BY <1>18, <1>19 DEF Lru!Next, Lru!Use, Lru!RemoveAt, RemoveAt, InCache, Requested

(* ... clearing the last one gives up the page just used, ... *)
LEMMA DropLastIsGiveUp ==
  ASSUME NEW t, Threads = {t}, Inductive, Inductive', DropLast(t)
  PROVE  Lru!Next
<1>1. TypeOK /\ TypeOK' /\ cache_count \in Nat /\ cache_count # 0
  <2>1. LastIsTarget(t)
    BY DEF Inductive, Position, DropLast, At
  <2>2. TypeOK /\ TypeOK'
    BY DEF Inductive
  <2>3. cache_count \in Nat
    BY <2>2, Constants DEF TypeOK
  <2> QED
    BY <2>1, <2>2, <2>3 DEF LastIsTarget
<1>2. /\ cache_count' = cache_count - 1
      /\ Cached_Entries' = [Cached_Entries EXCEPT ![cache_count - 1] = Clear_Entry]
  BY <1>1 DEF DropLast
<1>3. PICK s : s = InCache
  OBVIOUS
<1>4. PICK r : r = InCache'
  OBVIOUS
<1>5. PICK n \in Nat :
        /\ n = cache_count' /\ n = cache_count - 1 /\ n + 1 = cache_count
        /\ n + 1 <= MaxNumCache /\ 0 .. n \subseteq 0 .. MaxNumCache - 1
  <2>1. cache_count <= MaxNumCache /\ MaxNumCache \in Nat
    BY <1>1, EntriesInCache, Constants
  <2>2. PICK n \in Nat : n = cache_count - 1
    BY <1>1
  <2>3. n + 1 = cache_count /\ n + 1 <= MaxNumCache
    BY <1>1, <2>1, <2>2
  <2> QED
    BY <1>2, <2>1, <2>2, <2>3
<1>6. /\ s \in Seq(PageState) /\ Len(s) = n + 1
      /\ \A i \in 1 .. n + 1 : s[i] = WithoutDate(Cached_Entries[i - 1])
  BY <1>1, <1>3, <1>5, EntriesInCache
<1>7. /\ r \in Seq(PageState) /\ Len(r) = n
      /\ \A i \in 1 .. n : r[i] = WithoutDate(Cached_Entries'[i - 1])
  BY <1>1, <1>4, <1>5, EntriesInCache
<1>8. ASSUME NEW i \in 1 .. n PROVE r[i] = s[i]
  <2>1. i \in 1 .. n + 1 /\ i - 1 # n /\ i - 1 \in 0 .. n
    OBVIOUS
  <2>2. i - 1 \in 0 .. MaxNumCache - 1
    BY <1>5, <2>1
  <2>3. Cached_Entries'[i - 1] = Cached_Entries[i - 1]
    BY <1>1, <1>2, <1>5, <2>1, <2>2 DEF TypeOK
  <2> QED
    BY <1>6, <1>7, <2>1, <2>3
<1>9. r = Front(s)
  <2>1. \A i \in 1 .. n + 1 : s[i] \in PageState
    BY <1>6, ElementOfSeq
  <2>2. PICK f : f = SubSeq(s, 1, n)
    OBVIOUS
  <2>3. f \in Seq(PageState) /\ Len(f) = n /\ \A i \in 1 .. n : f[i] = s[i]
    <3>1. \A i \in 1 .. n : s[i] \in PageState /\ 1 + i - 1 = i
      BY <2>1
    <3> QED
      BY <2>2, <3>1, SubSeqProperties
  <2>4. f = r
    BY <1>7, <1>8, <2>3, SeqEqual
  <2>5. n + 1 - 1 = n
    OBVIOUS
  <2> QED
    BY <1>6, <2>2, <2>4, <2>5 DEF Front
<1>10. s # <<>>
  BY <1>6, EmptySeq
<1>11. InCache # <<>> /\ InCache' = Front(InCache)
  BY <1>3, <1>4, <1>9, <1>10
<1>12. InCache[Len(InCache)].url = Requested /\ Requested' = Requested
  <2>1. LastIsTarget(t) /\ th'[t].target = th[t].target
    BY <1>1, SameTarget DEF DropLast, At, Inductive, Position
  <2>2. n + 1 \in 1 .. n + 1 /\ n + 1 - 1 = cache_count - 1
    BY <1>5
  <2>3. s[n + 1] = WithoutDate(Cached_Entries[cache_count - 1])
    BY <1>6, <2>2
  <2> QED
    BY <1>3, <1>6, <2>1, <2>3, OneRequest DEF LastIsTarget, WithoutDate
<1> QED
  BY <1>11, <1>12
  DEF Lru!Next, Lru!GiveUp, Lru!LastIsRequested, Lru!Front, Front, InCache, Requested

(* ... counting adds the entry written behind the others, and ... *)
LEMMA CountIsAdd ==
  ASSUME NEW t, Threads = {t}, Inductive, Inductive', Count(t)
  PROVE  Lru!Next
<1>1. TypeOK /\ TypeOK' /\ InUse(cache_count + 1)
  BY DEF Inductive, Count, At, Top
<1>2. cache_count' = cache_count + 1 /\ Cached_Entries' = Cached_Entries
  BY DEF Count
<1>3. PICK s : s = InCache
  OBVIOUS
<1>4. PICK r : r = InCache'
  OBVIOUS
<1>5. PICK n \in Nat : n = cache_count /\ n + 1 = cache_count' /\ n + 1 <= MaxNumCache
  BY <1>1, <1>2, EntriesInCache
<1>6. /\ s \in Seq(PageState) /\ Len(s) = n
      /\ \A i \in 1 .. n : s[i] = WithoutDate(Cached_Entries[i - 1])
  BY <1>1, <1>3, <1>5, EntriesInCache
<1>7. /\ r \in Seq(PageState) /\ Len(r) = n + 1
      /\ \A i \in 1 .. n + 1 : r[i] = WithoutDate(Cached_Entries[i - 1])
  BY <1>1, <1>2, <1>4, <1>5, EntriesInCache
<1>8. \A i \in 1 .. n : i \in 1 .. n + 1
  OBVIOUS
<1>9. r = Append(s, r[n + 1])
  BY <1>6, <1>7, <1>8, IsAppend
<1>10. ASSUME NEW i \in 1 .. n PROVE s[i].url # r[n + 1].url
  <2>1. i - 1 \in 0 .. n + 1 - 1 /\ n \in 0 .. n + 1 - 1 /\ i - 1 # n /\ n + 1 - 1 = n
        /\ n + 1 \in 1 .. n + 1
    OBVIOUS
  <2>2. Cached_Entries[i - 1].url # Cached_Entries[n].url
    BY <1>1, <1>5, <2>1 DEF InUse
  <2>3. r[n + 1] = WithoutDate(Cached_Entries[n]) /\ s[i] = WithoutDate(Cached_Entries[i - 1])
    BY <1>6, <1>7, <2>1
  <2> QED
    BY <2>2, <2>3 DEF WithoutDate
<1>11. n # MaxNumCache /\ n + 1 > 0
  BY <1>5, Constants
<1>12. r[n + 1].url = Requested /\ Requested' = Requested
  <2>1. th'[t].target = th[t].target /\ Cached_Entries[cache_count].url = th[t].target
    BY <1>1, SameTarget DEF Count, At, Inductive, Position
  <2>2. n + 1 \in 1 .. n + 1 /\ n + 1 - 1 = cache_count
    BY <1>5
  <2>3. r[n + 1] = WithoutDate(Cached_Entries[cache_count])
    BY <1>7, <2>2
  <2> QED
    BY <2>1, <2>3, OneRequest DEF WithoutDate
<1>13. /\ Len(InCache') > 0 /\ InCache'[Len(InCache')].url = Requested
       /\ \A i \in 1 .. Len(InCache) : InCache[i].url # Requested
       /\ InCache' = Append(IF Len(InCache) = MaxNumCache THEN Tail(InCache) ELSE InCache,
                            InCache'[Len(InCache')])
  BY <1>3, <1>4, <1>6, <1>7, <1>9, <1>10, <1>11, <1>12
<1> QED
  BY <1>12, <1>13 DEF Lru!Next, Lru!Add, InCache, Requested

(* ... a full cache gives up its oldest entry for the new one. *)
LEMMA EvictIsAdd ==
  ASSUME NEW t, Threads = {t}, Inductive, Inductive', Evict(t)
  PROVE  Lru!Next
<1>1. /\ TypeOK /\ TypeOK' /\ cache_count = MaxNumCache /\ Absent(th[t].target)
  BY DEF Inductive, Evict, At, Position
<1>2. PICK entry : /\ entry = Entry(th[t].target, th[t].response)
                   /\ Cached_Entries' = Shifted(entry) /\ cache_count' = cache_count
  BY DEF Evict
<1>3. PICK s : s = InCache
  OBVIOUS
<1>4. PICK r : r = InCache'
  OBVIOUS
<1>5. PICK n \in Nat : n + 1 = cache_count /\ n + 1 = MaxNumCache /\ n = MaxNumCache - 1
  BY <1>1, Constants
<1>6. /\ s \in Seq(PageState) /\ Len(s) = n + 1
      /\ \A i \in 1 .. n + 1 : s[i] = WithoutDate(Cached_Entries[i - 1])
  BY <1>1, <1>3, <1>5, EntriesInCache
<1>7. /\ r \in Seq(PageState) /\ Len(r) = n + 1
      /\ \A i \in 1 .. n + 1 : r[i] = WithoutDate(Cached_Entries'[i - 1])
  BY <1>1, <1>2, <1>4, <1>5, EntriesInCache
<1>8. /\ Cached_Entries'[n] = entry
      /\ \A i \in 0 .. n - 1 : Cached_Entries'[i] = Cached_Entries[i + 1]
  <2>1. DOMAIN Cached_Entries = 0 .. n
    BY <1>1, <1>5 DEF TypeOK
  <2>2. Cached_Entries' = [i \in 0 .. n |-> IF i = n THEN entry ELSE Cached_Entries[i + 1]]
    BY <1>2, <1>5, <2>1 DEF Shifted
  <2> QED
    BY <2>2
<1>9. s # <<>>
  BY <1>6, EmptySeq
<1>10. PICK tail : tail = Tail(s)
  OBVIOUS
<1>11. /\ tail \in Seq(PageState) /\ Len(tail) = n
       /\ \A i \in 1 .. n : tail[i] = s[i + 1]
  <2>1. /\ tail \in Seq(PageState) /\ Len(tail) = Len(s) - 1
        /\ \A i \in 1 .. Len(tail) : tail[i] = s[i + 1]
    BY <1>6, <1>9, <1>10, HeadTailProperties
  <2>2. Len(tail) = n
    BY <1>6, <2>1
  <2> QED
    BY <2>1, <2>2
<1>12. r[n + 1] = WithoutDate(entry)
  <2>1. n + 1 \in 1 .. n + 1 /\ n + 1 - 1 = n
    OBVIOUS
  <2> QED
    BY <1>7, <1>8, <2>1
<1>13. ASSUME NEW i \in 1 .. n PROVE r[i] = tail[i]
  <2>1. /\ i \in 1 .. n + 1 /\ i + 1 \in 1 .. n + 1 /\ i - 1 \in 0 .. n - 1
        /\ i - 1 + 1 = i /\ i + 1 - 1 = i
    OBVIOUS
  <2> QED
    BY <1>6, <1>7, <1>8, <1>11, <2>1
<1>14. r = Append(tail, r[n + 1])
  BY <1>7, <1>11, <1>13, IsAppend
<1>15. ASSUME NEW i \in 1 .. n + 1 PROVE s[i].url # r[n + 1].url
  <2>1. i - 1 \in 0 .. cache_count - 1
    BY <1>5
  <2>2. Cached_Entries[i - 1].url # th[t].target
    BY <1>1, <2>1 DEF Absent
  <2> QED
    BY <1>2, <1>6, <1>12, <2>2 DEF Entry, WithoutDate
<1>16. n + 1 > 0
  OBVIOUS
<1>17. r[n + 1].url = Requested /\ Requested' = Requested
  <2>1. th'[t].target = th[t].target
    BY <1>1, SameTarget DEF Evict
  <2> QED
    BY <1>2, <1>12, <2>1, OneRequest DEF Entry, WithoutDate
<1>18. /\ Len(InCache') > 0 /\ InCache'[Len(InCache')].url = Requested
       /\ \A i \in 1 .. Len(InCache) : InCache[i].url # Requested
       /\ InCache' = Append(IF Len(InCache) = MaxNumCache THEN Tail(InCache) ELSE InCache,
                            InCache'[Len(InCache')])
  BY <1>3, <1>4, <1>5, <1>6, <1>7, <1>10, <1>14, <1>15, <1>16, <1>17
<1> QED
  BY <1>17, <1>18 DEF Lru!Next, Lru!Add, InCache, Requested

(* Writing an entry behind those in use changes none of them. *)
LEMMA AppendEntryIsHidden ==
  ASSUME NEW t, Threads = {t}, Inductive, Inductive', AppendEntry(t)
  PROVE  UNCHANGED <<InCache, Requested>>
<1>1. TypeOK /\ TypeOK' /\ cache_count < MaxNumCache
  BY DEF Inductive, AppendEntry, At, Position
<1>2. cache_count' = cache_count /\ cache_count \in 0 .. MaxNumCache - 1
  BY <1>1, Constants DEF TypeOK, AppendEntry
<1>3. /\ \E entry : Cached_Entries' = [Cached_Entries EXCEPT ![cache_count] = entry]
      /\ Goto(t, "count")
  BY <1>1, <1>2 DEF AppendEntry, TypeOK
<1>4. ASSUME NEW i \in 1 .. cache_count PROVE Cached_Entries'[i - 1] = Cached_Entries[i - 1]
  <2>1. i - 1 \in 0 .. MaxNumCache - 1 /\ i - 1 # cache_count
    BY <1>2, Constants
  <2> QED
    BY <1>1, <1>3, <2>1 DEF TypeOK
<1>5. InCache' = InCache
  BY <1>2, <1>4 DEF InCache
<1>6. Requested' = Requested
  BY <1>1, <1>3, SameTarget, OneRequest
<1> QED
  BY <1>5, <1>6

(* An answered request has its page at the end. *)
LEMMA AnswerIsAnswer ==
  ASSUME NEW t, Threads = {t}, Inductive, Inductive', Answer(t)
  PROVE  Lru!Next
<1>1. /\ TypeOK /\ TypeOK' /\ LastIsTarget(t) /\ UNCHANGED cacheVars
      /\ th'[t].pc = "idle" /\ th'[t].target = None
  BY DEF Inductive, Position, Answer, At, TypeOK, Idle
<1>2. InCache' = InCache
  BY <1>1 DEF InCache, cacheVars
<1>3. PICK n \in Nat : n + 1 = cache_count /\ n = cache_count - 1
  BY <1>1, EntriesInCache DEF LastIsTarget
<1>4. /\ InCache \in Seq(PageState) /\ Len(InCache) = n + 1
      /\ \A i \in 1 .. n + 1 : InCache[i] = WithoutDate(Cached_Entries[i - 1])
  BY <1>1, <1>3, EntriesInCache
<1>5. InCache[n + 1].url = Cached_Entries[cache_count - 1].url
  <2>1. n + 1 \in 1 .. n + 1 /\ n + 1 - 1 = n
    OBVIOUS
  <2> QED
    BY <1>3, <1>4, <2>1 DEF WithoutDate
<1>6. InCache # <<>>
  BY <1>4, EmptySeq
<1>7. /\ InCache # <<>> /\ InCache[Len(InCache)].url = Requested
      /\ Requested' = None /\ InCache' = InCache
  BY <1>1, <1>2, <1>4, <1>5, <1>6, OneRequest DEF LastIsTarget
<1> QED
  BY <1>7 DEF Lru!Next, Lru!Answer, Lru!LastIsRequested, InCache, Requested

(* A request is one. *)
LEMMA RequestIsRequest ==
  ASSUME NEW t, Threads = {t}, Inductive, NEW u \in Urls, Request(t, u)
  PROVE  Lru!Next
<1>1. th[t].target = None /\ UNCHANGED cacheVars
  BY DEF Inductive, Position, Request, At
<1>2. th'[t].target = u /\ u # None
  <2>1. th[t] \in ThreadState /\ DOMAIN th = Threads
    BY DEF Inductive, TypeOK, ThreadState
  <2> QED
    BY <2>1, Constants DEF Request, ThreadState
<1>3. Requested = None /\ Requested' # None /\ InCache' = InCache
  BY <1>1, <1>2, OneRequest DEF InCache, cacheVars
<1> QED
  BY <1>3 DEF Lru!Next, Lru!Request, InCache, Requested

(* Every step is one of the abstract cache or leaves it alone. *)
LEMMA LruStep ==
  ASSUME NEW t, Threads = {t}, Inductive, Inductive', [Next]_vars
  PROVE  Lru!Next \/ UNCHANGED <<InCache, Requested>>
<1>1. CASE ThreadStep(t)
  <2>1. CASE \/ Touch(t, "touch", "copy") \/ Touch(t, "touchOld", "send")
             \/ Touch(t, "touchNew", "drop")
    BY <2>1, TouchIsUse
  <2>2. CASE DropLast(t)
    BY <2>2, DropLastIsGiveUp
  <2>3. CASE Evict(t)
    BY <2>3, EvictIsAdd
  <2>4. CASE Count(t)
    BY <2>4, CountIsAdd
  <2>5. CASE AppendEntry(t)
    BY <2>5, AppendEntryIsHidden
  <2>6. CASE Answer(t)
    BY <2>6, AnswerIsAnswer
  <2>7. CASE \E u \in Urls : Request(t, u)
    BY <2>7, RequestIsRequest
  <2>8. CASE \/ Find(t) \/ Check(t) \/ Fetch(t) \/ HostIsUnknown(t)
             \/ CopyContent(t, "copy", "send") \/ CopyContent(t, "copyOld", "touchOld")
             \/ Insert(t) \/ HeaderIsTorn(t) \/ ClientIsGone(t)
    <3>1. UNCHANGED cacheVars
      BY <2>8 DEF Find, Check, Fetch, HostIsUnknown, CopyContent, Insert, HeaderIsTorn,
                  ClientIsGone, Die
    <3>2. th[t] \in ThreadState /\ DOMAIN th = Threads /\ TypeOK
      BY DEF Inductive, TypeOK, ThreadState
    <3>3. th'[t].target = th[t].target
      <4>1. CASE Check(t) \/ Insert(t)
        BY <3>2, <4>1, SameTarget DEF Check, Insert
      <4>2. CASE HostIsUnknown(t) \/ HeaderIsTorn(t) \/ ClientIsGone(t)
        BY <4>2 DEF HostIsUnknown, HeaderIsTorn, ClientIsGone, Die
      <4>3. CASE Find(t)
        BY <3>2, <4>3 DEF Find, ThreadState
      <4>4. CASE Fetch(t)
        BY <3>2, <4>4 DEF Fetch, ThreadState
      <4>5. CASE CopyContent(t, "copy", "send") \/ CopyContent(t, "copyOld", "touchOld")
        BY <3>2, <4>5 DEF CopyContent, Die, ThreadState
      <4> QED
        BY <2>8, <4>1, <4>2, <4>3, <4>4, <4>5
    <3> QED
      BY <3>1, <3>3, OneRequest DEF cacheVars, InCache
  <2> QED
    BY <1>1, <2>1, <2>2, <2>3, <2>4, <2>5, <2>6, <2>7, <2>8 DEF ThreadStep
<1>2. CASE Tick \/ UNCHANGED vars \/ \E u \in Urls : Modify(u)
  BY <1>2 DEF Tick, Modify, vars, cacheVars, InCache, Requested
<1> QED
  BY <1>1, <1>2 DEF Next

(* When requests come one at a time, Cached_Entries and cache_count are a     *)
(* cache that gives up the page least recently requested: the searches and    *)
(* shifts of UpdateCacheEntry use, give up and add the page of the request as *)
(* LruCache does, and an answered request has its page at the end.            *)
THEOREM CacheIsLru ==
  ASSUME OneThread
  PROVE  Spec => ImplementsLru
<1>1. PICK one : Threads = {one}
  BY DEF OneThread
<1>2. Init => Lru!Init
  <2>1. ASSUME Init PROVE InCache = <<>>
    <3>1. Inductive
      BY <1>1, <2>1, InductiveInit
    <3>2. PICK n \in 0 .. MaxNumCache : n = 0
      BY Constants
    <3>3. PICK array \in [0 .. MaxNumCache - 1 -> EntryState] : array = Cached_Entries
      BY <3>1 DEF Inductive, TypeOK, EntryState
    <3>4. InCache = [i \in 1 .. n |-> [url |-> array[i - 1].url, page |-> array[i - 1].page]]
      BY <2>1, <3>2, <3>3 DEF Init, InCache
    <3>5. InCache \in Seq(PageState) /\ Len(InCache) = 0
      BY <3>2, <3>4, FirstEntries
    <3> QED
      BY <3>5, EmptySeq
  <2>2. Init => Requested = None
    <3>1. Requested = th[one].target
      BY <1>1, OneRequest
    <3>2. Init => th[one].target = None
      BY <1>1 DEF Init, Idle
    <3> QED
      BY <3>1, <3>2
  <2> QED
    BY <2>1, <2>2 DEF Lru!Init, InCache, Requested
<1>3. Inductive /\ Inductive' /\ [Next]_vars => [Lru!Next]_<<InCache, Requested>>
  BY <1>1, LruStep
<1>4. Spec => []Inductive
  BY InductiveHolds
<1> QED
  BY <1>2, <1>3, <1>4, PTL DEF Spec, ImplementsLru, Lru!Spec
=============================================================================
