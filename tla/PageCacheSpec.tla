---------------------------- MODULE PageCacheSpec ----------------------------
(***************************************************************************)
(* The page cache as a state machine: every operation the front performs   *)
(* on it, each under the front's mutex and so atomic, in any order.        *)
(***************************************************************************)
EXTENDS PageCache

CONSTANTS
  Paths,        (* arguments of Revalidate                                  *)
  Names,        (* the keys each of them matches (pathMatchesKey)           *)
  NoKey,        (* the key of no operation                                  *)
  MaxBody       (* bound on the data versions                               *)

ASSUME NamesAssumption == Names \in [Paths -> SUBSET Keys]
ASSUME NoKeyAssumption == NoKey \notin Keys
ASSUME MaxBodyAssumption == MaxBody \in Nat

VARIABLES
  cache,        (* the pageCache                                            *)
  last,         (* history: the key most recently stored or got             *)
  named         (* history: the keys the latest invalidation named          *)

vars == <<cache, last, named>>

Bodies == 0 .. MaxBody

Init ==
  /\ cache = EmptyCache
  /\ last = NoKey
  /\ named = {}

Get(k) ==
  /\ k \in Cached(cache)
  /\ cache' = Touch(cache, k)
  /\ last' = k
  /\ named' = {}

Put(k, v, tags) ==
  /\ cache' = Store(cache, k, [body |-> v, head |-> v, tags |-> tags, aged |-> FALSE])
  /\ last' = k
  /\ named' = {}

Drop(gone) ==
  /\ cache' = Remove(cache, gone)
  /\ last' = IF last \in gone THEN NoKey ELSE last

\* a render that may no longer be shared takes its old copy with it
Discard(k) ==
  /\ Drop({k})
  /\ named' = {}

InvalidatePath(p) ==
  /\ Drop(Matching(cache, Names[p]))
  /\ named' = Names[p]

InvalidateTag(t) ==
  /\ Drop(Tagged(cache, t))
  /\ named' = {k \in Keys : Carries(cache, k, t)}

Next ==
  \/ \E k \in Keys : Get(k) \/ Discard(k)
  \/ \E k \in Keys, v \in Bodies, tags \in SUBSET Tags : Put(k, v, tags)
  \/ \E p \in Paths : InvalidatePath(p)
  \/ \E t \in Tags : InvalidateTag(t)

Spec == Init /\ [][Next]_vars

-----------------------------------------------------------------------------
(* Properties.                                                             *)

TypeOK ==
  /\ cache \in PageCaches
  /\ last \in Keys \cup {NoKey}
  /\ named \in SUBSET Keys

\* The tag index and the copies agree (isr.go, store and remove): a copy the
\* index missed would survive the RevalidateTag that names it.
TagIndexExact == IndexExact(cache)

\* The list holds every cached key once and nothing else: the eviction always
\* has a front to take and never takes a key that is gone.
ListMatchesMap == OrderLinear(cache)

\* The cache never holds more than maxCachedPages copies, whatever the query
\* strings that were asked for.
Capacity == WithinCapacity(cache)

\* No invalidation leaves a copy it named: the next request for that key
\* renders.
NothingNamedIsLeft == named \cap Cached(cache) = {}

\* Whatever was used last is the last to go: as long as nobody removes it by
\* name, its copy is there and every other one is nearer the front.
LastUsedIsLast ==
  last # NoKey =>
    /\ last \in Cached(cache)
    /\ \A k \in Cached(cache) \ {last} : <<k, last>> \in cache.older

\* Map, list and index tell of the same copies, whatever was stored, asked for,
\* evicted and invalidated, and the list tells whose turn it is.
CacheIsExact == TagIndexExact /\ ListMatchesMap /\ LastUsedIsLast
=============================================================================
