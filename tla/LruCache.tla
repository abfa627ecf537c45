------------------------------ MODULE LruCache ------------------------------
(* What the cache of the proxy promises, a request at a time: at most         *)
(* Capacity pages, one for a URL, in the order of their last request, the     *)
(* least recently requested first. Only the page of the request moves, it is  *)
(* the last one when the request is answered, and the first one makes room.   *)
EXTENDS Integers, SequencesExt

CONSTANTS Capacity, None

VARIABLES
  cache,      \* a sequence of entries [url, page]
  request     \* the URL being served, or None

Init == cache = <<>> /\ request = None

Request(u) ==
  /\ request = None /\ u # None
  /\ request' = u /\ UNCHANGED cache

(* The entry of the request goes to the end. *)
Use(i) ==
  /\ cache[i].url = request
  /\ cache' = Append(RemoveAt(cache, i), cache[i])
  /\ UNCHANGED request

LastIsRequested == cache # <<>> /\ cache[Len(cache)].url = request

(* The page of the request is out of date. *)
GiveUp ==
  /\ LastIsRequested
  /\ cache' = Front(cache) /\ UNCHANGED request

(* A page for the request, when there is none. *)
Add(entry) ==
  /\ entry.url = request
  /\ \A i \in 1 .. Len(cache) : cache[i].url # request
  /\ cache' = Append(IF Len(cache) = Capacity THEN Tail(cache) ELSE cache, entry)
  /\ UNCHANGED request

Answer ==
  /\ LastIsRequested
  /\ request' = None /\ UNCHANGED cache

Next ==
  \/ Request(request')
  \/ \E i \in 1 .. Len(cache) : Use(i)
  \/ GiveUp
  \/ Len(cache') > 0 /\ Add(cache'[Len(cache')])
  \/ Answer

Spec == Init /\ [][Next]_<<cache, request>>
=============================================================================
