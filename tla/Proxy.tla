------------------------------- MODULE Proxy -------------------------------
(* The HTTP proxy (src/MP4/src/proxy.c): a thread per connection answers one  *)
(* request from the cache or from the origin server. The threads share        *)
(* Cached_Entries and cache_count and use no lock. A step here is a search, a *)
(* loop or an assignment of the code that touches them; what two threads can  *)
(* do to each other within one such step is left out, so with more than one   *)
(* thread the model has a part of the program's behaviours only.              *)
EXTENDS Integers, SequencesExt

CONSTANTS
  Threads,      \* threads that may run at a time
  Urls,
  MaxNumCache,  \* MAX_NUM_CACHE
  MaxVersion,   \* how often the origin changes its pages, for TLC
  MaxClock,     \* the clock, in seconds from 1, stops here, for TLC
  Headers,      \* the headers a response may have: which Expires date, and
                \* whether it has a Last-Modified and a Date
  Faults,       \* what may happen besides
  None          \* not a URL

(* An Expires date, 0 when the response has none, and NoDate when the header  *)
(* is there but holds no date that strptime reads ("Expires: -1").            *)
NoDate == -1
Expiries == {NoDate} \cup 0 .. MaxClock

ASSUME ProxyAssumption ==
  /\ MaxNumCache \in Nat \ {0} /\ MaxVersion \in Nat /\ MaxClock \in Nat \ {0}
  /\ Headers \subseteq [expires : Expiries, modified : BOOLEAN, date : BOOLEAN]
  /\ Faults \subseteq {"unknownHost", "noConnection", "clientGone", "cut", "says304"}
  /\ None \notin Urls

VARIABLES
  Cached_Entries, cache_count,
  th,           \* a thread and the local variables of start_proxy
  status,       \* of the process: "up", "exited", "crashed", "corrupt" or "torn"
  origin,       \* URL -> version and modification date of the origin's page
  clock

vars == <<Cached_Entries, cache_count, th, status, origin, clock>>
cacheVars == <<Cached_Entries, cache_count>>
world == <<origin, clock>>

(* A response, with its dates, 0 when it has none. form: "whole"; "cut", the  *)
(* beginning of one; "torn", a beginning that ends within the line of one of  *)
(* the headers above; "says304", a whole page whose text has "304 Not         *)
(* Modified" in it.                                                           *)
Page(u, o, h, f) ==
  [url |-> u, version |-> o.version, modified |-> IF h.modified THEN o.modified ELSE 0,
   expires |-> h.expires, date |-> IF h.date THEN clock ELSE 0, form |-> f]
Forms ==
  {f \in {"whole", "cut", "torn", "says304"} :
     CASE f = "whole" -> TRUE [] f = "says304" -> f \in Faults [] OTHER -> "cut" \in Faults}
Blank(f) ==
  [url |-> None, version |-> 0, modified |-> 0, expires |-> 0, date |-> 0, form |-> f]
Nothing == Blank("empty")      \* the empty string
NotModified == Blank("304")    \* the answer "304 Not Modified"
NULL == Blank("null")

(* An entry of the cache; content is NULL in Clear_Entry. Access_Date is the  *)
(* Date of the response until the entry is used.                              *)
Entry(u, p) == [url |-> u, page |-> p, Access_Date |-> p.date]
Clear_Entry == Entry(None, NULL)

(* asked: what the origin had when it answered; this one the code does not    *)
(* keep.                                                                      *)
NotAsked == [version |-> -1, modified |-> 0]
Idle == [pc |-> "idle", target |-> None, cachedEntry |-> -1,
         response |-> NULL, dataToSend |-> NULL, asked |-> NotAsked]

Init ==
  /\ Cached_Entries = [i \in 0 .. MaxNumCache - 1 |-> Clear_Entry]
  /\ cache_count = 0
  /\ th = [t \in Threads |-> Idle]
  /\ status = "up"
  /\ origin = [u \in Urls |-> [version |-> 0, modified |-> 1]]
  /\ clock = 1

At(t, label) == status = "up" /\ th[t].pc = label

Goto(t, label) == th' = [th EXCEPT ![t].pc = label]

Die(how) == status' = how /\ UNCHANGED <<cacheVars, th>>

------------------------------------------------------------------------------
(* Outside the proxy. *)

(* The origin dates its pages to the second. *)
Modify(u) ==
  /\ \A w \in Urls : origin[w].version < MaxVersion
  /\ origin' = [origin EXCEPT ![u] = [version |-> @.version + 1, modified |-> clock]]
  /\ UNCHANGED <<cacheVars, th, status, clock>>

Tick ==
  /\ clock < MaxClock /\ clock' = clock + 1
  /\ UNCHANGED <<cacheVars, th, status, origin>>

------------------------------------------------------------------------------
(* The cache. *)

(* The search takes the first entry with the URL, used or not. *)
FirstOf(found, otherwise) ==
  IF found = {} THEN otherwise ELSE CHOOSE i \in found : \A j \in found : i <= j
EntriesOf(u) == {i \in DOMAIN Cached_Entries : Cached_Entries[i].url = u}

(* Variants: a used entry stays where it is; the test for a full cache comes  *)
(* one late; the search misses the last entry in use; the access date goes    *)
(* before Last-Modified.                                                      *)
MovedToEndNot(e) == Cached_Entries
CacheFullOver == cache_count > MaxNumCache
Cache_FindElementShort(u) == FirstOf(EntriesOf(u) \ {cache_count - 1}, -1)
SinceLastAccess(entry) ==
  IF entry.page.expires # 0 THEN entry.page.expires ELSE entry.Access_Date

(* The entries between e and the last move one lower, e goes to the end, and  *)
(* its access date is now.                                                    *)
MovedToEnd(e) ==
  [i \in DOMAIN Cached_Entries |->
     IF i = cache_count - 1 THEN [Cached_Entries[e] EXCEPT !.Access_Date = clock]
     ELSE IF i >= e /\ i < cache_count - 1 THEN Cached_Entries[i + 1]
     ELSE Cached_Entries[i]]

(* Entry 0 is given up, all move one lower, and the new one is the last. *)
Shifted(entry) ==
  [i \in DOMAIN Cached_Entries |->
     IF i = MaxNumCache - 1 THEN entry ELSE Cached_Entries[i + 1]]

CacheFull == cache_count = MaxNumCache

Cache_FindElement(u) == FirstOf(EntriesOf(u), -1)

(* What it may return: without a date that can be read, expiresTime is        *)
(* uninitialised and the comparison may turn out either way.                  *)
IsCacheEntryFresh(e) ==
  LET expires == Cached_Entries[e].page.expires
  IN IF expires = NoDate THEN BOOLEAN ELSE {expires # 0 /\ clock < expires}

(* The date sent as "If-Modified_Since": Expires, if the entry has one.       *)
Since(entry) ==
  IF entry.page.expires # 0 THEN entry.page.expires
  ELSE IF entry.page.modified # 0 THEN entry.page.modified
  ELSE entry.Access_Date

(* strstr in the whole response *)
SaysNotModified(r) == r.form \in {"304", "says304"}

------------------------------------------------------------------------------
(* start_proxy, thread t. *)

Request(t, u) ==
  /\ At(t, "idle")
  /\ th' = [th EXCEPT ![t].pc = "find", ![t].target = u]
  /\ UNCHANGED <<cacheVars, status, world>>

Find(t) ==
  /\ At(t, "find")
  /\ LET e == Cache_FindElement(th[t].target)
     IN th' = [th EXCEPT ![t].cachedEntry = e,
                         ![t].pc = IF e = -1 THEN "fetch" ELSE "check"]
  /\ UNCHANGED <<cacheVars, status, world>>

Check(t) ==
  /\ At(t, "check")
  /\ \E isNotExpired \in IsCacheEntryFresh(th[t].cachedEntry) :
       Goto(t, IF isNotExpired THEN "touch" ELSE "fetch")
  /\ UNCHANGED <<cacheVars, status, world>>

(* UpdateCacheEntry(target, NULL, 0, cachedEntry), in three places. *)
Touch(t, here, next) ==
  /\ At(t, here)
  /\ IF cache_count = 0
       THEN Die("corrupt")
       ELSE /\ Cached_Entries' = MovedToEnd(th[t].cachedEntry)
            /\ Goto(t, next)
            /\ UNCHANGED <<cache_count, status>>
  /\ UNCHANGED world

(* The content of entry cachedEntry becomes the answer; strlen(NULL) crashes. *)
CopyContent(t, here, next) ==
  /\ At(t, here)
  /\ LET content == Cached_Entries[th[t].cachedEntry].page
     IN IF content = NULL
          THEN Die("crashed")
          ELSE /\ th' = [th EXCEPT ![t].dataToSend = content, ![t].pc = next]
               /\ UNCHANGED <<cacheVars, status>>
  /\ UNCHANGED world

(* What parseMessageBody may return. The origin sends its page, or says that  *)
(* it is not newer than the date it was sent. The loop ends in the same way   *)
(* at the end of the answer and at an error, so a part of the answer will do. *)
(* With no connection write and read fail, and the response is what malloc    *)
(* returned, taken to be empty.                                               *)
Responses(t) ==
  LET u == th[t].target
      e == th[t].cachedEntry
  IN {Page(u, origin[u], h, f) : h \in Headers, f \in Forms}
     \cup {r \in {Nothing} : "noConnection" \in Faults}
     \cup {r \in {NotModified} :
             /\ e # -1
             /\ Since(Cached_Entries[e]) > 0
             /\ origin[u].modified <= Since(Cached_Entries[e])}

(* connectHost, the request, and parseMessageBody. *)
Fetch(t) ==
  /\ At(t, "fetch")
  /\ \E r \in Responses(t) :
       LET cached == th[t].cachedEntry # -1
           unchanged == cached /\ SaysNotModified(r)
       IN th' = [th EXCEPT
            ![t].response = r,
            ![t].asked = origin[th[t].target],
            ![t].dataToSend = IF unchanged THEN @ ELSE r,
            ![t].pc = IF unchanged THEN "copyOld"
                      ELSE IF cached THEN "touchNew" ELSE "insert"]
  /\ UNCHANGED <<cacheVars, status, world>>

(* getaddrinfo fails: exit(EXIT_FAILURE), in a thread. *)
HostIsUnknown(t) ==
  /\ At(t, "fetch") /\ "unknownHost" \in Faults
  /\ Die("exited")
  /\ UNCHANGED world

(* Cached_Entries[--cache_count] = Clear_Entry *)
DropLast(t) ==
  /\ At(t, "drop")
  /\ IF cache_count = 0
       THEN Die("corrupt")
       ELSE /\ cache_count' = cache_count - 1
            /\ Cached_Entries' = [Cached_Entries EXCEPT ![cache_count'] = Clear_Entry]
            /\ Goto(t, "insert")
            /\ UNCHANGED status
  /\ UNCHANGED world

(* UpdateCacheEntry(target, response, 1, 0): the test, ... *)
Insert(t) ==
  /\ At(t, "insert")
  /\ Goto(t, IF CacheFull THEN "evict" ELSE "append")
  /\ UNCHANGED <<cacheVars, status, world>>

(* Header_parser looks for the end of the line, and takes it to be there. *)
Parsed(t) == th[t].response.form # "torn"

(* ... a full cache, ... *)
Evict(t) ==
  /\ At(t, "evict") /\ Parsed(t)
  /\ Cached_Entries' = Shifted(Entry(th[t].target, th[t].response))
  /\ Goto(t, "send")
  /\ UNCHANGED <<cache_count, status, world>>

(* ... or the next free entry, which another thread may have taken meanwhile, *)
(* also the last of the array, ...                                            *)
AppendEntry(t) ==
  /\ At(t, "append") /\ Parsed(t)
  /\ IF cache_count \notin DOMAIN Cached_Entries
       THEN Die("corrupt")
       ELSE /\ Cached_Entries' =
                 [Cached_Entries EXCEPT ![cache_count] = Entry(th[t].target, th[t].response)]
            /\ Goto(t, "count")
            /\ UNCHANGED <<cache_count, status>>
  /\ UNCHANGED world

(* ... with a header that it cannot parse. *)
HeaderIsTorn(t) ==
  /\ At(t, "evict") \/ At(t, "append")
  /\ ~Parsed(t)
  /\ Die("torn")
  /\ UNCHANGED world

(* ... and cache_count++. *)
Count(t) ==
  /\ At(t, "count")
  /\ cache_count' = cache_count + 1
  /\ Goto(t, "send")
  /\ UNCHANGED <<Cached_Entries, status, world>>

(* The thread answers and ends. *)
Answer(t) ==
  /\ At(t, "send")
  /\ th' = [th EXCEPT ![t] = Idle]
  /\ UNCHANGED <<cacheVars, status, world>>

(* A client that has closed and then reset its connection: the write raises   *)
(* SIGPIPE. (Gone in another way, the write is lost or fails, as in Answer.)  *)
ClientIsGone(t) ==
  /\ At(t, "send") /\ "clientGone" \in Faults
  /\ Die("exited")
  /\ UNCHANGED world

ThreadStep(t) ==
  \/ \E u \in Urls : Request(t, u)
  \/ Find(t) \/ Check(t) \/ Fetch(t) \/ HostIsUnknown(t)
  \/ Touch(t, "touch", "copy") \/ CopyContent(t, "copy", "send")
  \/ CopyContent(t, "copyOld", "touchOld") \/ Touch(t, "touchOld", "send")
  \/ Touch(t, "touchNew", "drop") \/ DropLast(t)
  \/ Insert(t) \/ Evict(t) \/ AppendEntry(t) \/ HeaderIsTorn(t) \/ Count(t)
  \/ Answer(t) \/ ClientIsGone(t)

Next ==
  \/ \E t \in Threads : ThreadStep(t)
  \/ \E u \in Urls : Modify(u)
  \/ Tick

Spec == Init /\ [][Next]_vars

------------------------------------------------------------------------------
(* Properties. *)

Labels == {"idle", "find", "check", "touch", "copy", "fetch", "copyOld", "touchOld",
           "touchNew", "drop", "insert", "evict", "append", "count", "send"}

Pages == [url : Urls, version : 0 .. MaxVersion, modified : 0 .. MaxClock,
          expires : Expiries, date : 0 .. MaxClock, form : Forms]

(* The variables have their types. *)
TypeOK ==
  /\ Cached_Entries \in [0 .. MaxNumCache - 1 ->
       [url : Urls \cup {None}, page : Pages \cup {Nothing, NULL},
        Access_Date : 0 .. MaxClock]]
  /\ cache_count \in 0 .. MaxNumCache
  /\ th \in [Threads -> [pc : Labels, target : Urls \cup {None},
                         cachedEntry : -1 .. MaxNumCache - 1,
                         response : Pages \cup {Nothing, NotModified, NULL},
                         dataToSend : Pages \cup {Nothing, NULL},
                         asked : [version : -1 .. MaxVersion, modified : 0 .. MaxClock]]]
  /\ status \in {"up", "exited", "crashed", "corrupt", "torn"}
  /\ origin \in [Urls -> [version : 0 .. MaxVersion, modified : 1 .. MaxClock]]
  /\ clock \in 1 .. MaxClock

(* No thread reads through the null pointer of an empty entry or writes next  *)
(* to the array: the searches, the shifts and the count fit together.         *)
StaysInArray == status \notin {"crashed", "corrupt"}

Used == {i \in DOMAIN Cached_Entries : Cached_Entries[i].url # None}

(* The used entries are the first ones, have different URLs, and hold a page  *)
(* of their URL (or what a failed connection left of it).                     *)
EntriesMatch ==
  /\ \A i \in Used : \A j \in DOMAIN Cached_Entries :
        /\ j < i => j \in Used
        /\ Cached_Entries[i].url = Cached_Entries[j].url => i = j
  /\ \A i \in Used : Cached_Entries[i].page.url \in {Cached_Entries[i].url, None}
  /\ \A i \in 0 .. cache_count - 1 : i \in Used

(* What an answer taken for 304 does not tell: a page may have the text in    *)
(* it; the date sent is Expires, and the page may have changed before; it is  *)
(* the last access, and the page may have changed between the answer and the  *)
(* use that is recorded after it.                                             *)
Misled(t, data) ==
  /\ SaysNotModified(th[t].response)
  /\ th[t].response.form = "says304" \/ data.expires # 0 \/ data.modified = 0

(* Any other 304 is for a page with the date of the origin's, which is the    *)
(* same page unless the origin has changed it within a second.                *)
SameDate(t, data) ==
  SaysNotModified(th[t].response) /\ data.modified = th[t].asked.modified

(* A client whose request went to the origin gets, whole or as far as it      *)
(* came, the page the origin had then, be it from the response or from the    *)
(* cache, but for the cases above; never the page of another URL.             *)
AskedIsAnswered ==
  \A t \in Threads :
    LET data == th[t].dataToSend
    IN th[t].pc = "send" /\ th[t].asked # NotAsked /\ th[t].response # Nothing =>
         /\ data.url \in {th[t].target, None}
         /\ \/ data.url = th[t].target /\ data.version = th[t].asked.version
            \/ SameDate(t, data)
            \/ Misled(t, data)

(* A client gets the page it asked for, or nothing. *)
AnswerIsOfTarget ==
  \A t \in Threads : th[t].pc = "send" =>
    th[t].dataToSend = Nothing \/ th[t].dataToSend.url = th[t].target

(* "Space is there just add the entry": the branch of UpdateCacheEntry that   *)
(* adds an entry behind the others has a place for it.                        *)
SpaceIsThere == \A t \in Threads : At(t, "append") => cache_count < MaxNumCache

(* What LruCache knows of the proxy: the entries in use, and the one request. *)
InCache ==
  [i \in 1 .. cache_count |->
     [url |-> Cached_Entries[i - 1].url, page |-> Cached_Entries[i - 1].page]]
Requested == th[CHOOSE t \in Threads : TRUE].target

Lru == INSTANCE LruCache WITH
  Capacity <- MaxNumCache, cache <- InCache, request <- Requested

(* The entries in use are a cache that gives up the page least recently       *)
(* requested, and a request that is answered has made its page the last one   *)
(* to be given up. For one thread.                                            *)
ImplementsLru == Lru!Spec
=============================================================================
