------------------------------ MODULE PageCache ------------------------------
(***************************************************************************)
(* The page cache's data structure (isr.go, type pageCache): the copies by *)
(* key, the order in which they were last used, and the index from a tag   *)
(* to the keys that carry it.  The module is constant-level: operations    *)
(* are operators on a cache value.  PageCacheSpec makes them a state       *)
(* machine, Isr calls them under its mutex.  A definition marked "slip" is *)
(* a plausible mistake, used only to see that a property notices it.       *)
(*                                                                         *)
(* container/list is represented by the order it stands for: the relation  *)
(* "older", with <<a, b>> in it when a is nearer the front (used less      *)
(* recently) than b.  The maps pages and byTag are total here: a key that  *)
(* is missing from the Go map has the value Absent, a missing tag has {}.  *)
(***************************************************************************)
EXTENDS Naturals, FiniteSets

CONSTANTS
  Keys,             (* cache keys: scheme, host, path and query of a page    *)
  Tags,             (* tags a page may declare                               *)
  Absent,           (* what pages holds for a key with no copy               *)
  MaxCachedPages    (* the capacity, 512 in the code                         *)

ASSUME MaxCachedPagesAssumption == MaxCachedPages \in Nat \ {0}

(***************************************************************************)
(* A stored copy.  body and head are the data versions of the render whose *)
(* html and whose status, headers and nonce the copy holds: one render     *)
(* makes both, a torn pair on disk would not.  aged says that the policy's *)
(* seconds have passed since storedAt.                                     *)
(***************************************************************************)
Entry == [body: Nat, head: Nat, tags: SUBSET Tags, aged: BOOLEAN]

ASSUME AbsentAssumption == Absent \notin Entry

PageCaches ==
  [pages: [Keys -> Entry \cup {Absent}],
   older: SUBSET (Keys \X Keys),
   byTag: [Tags -> SUBSET Keys]]

EmptyCache ==
  [pages |-> [k \in Keys |-> Absent],
   older |-> {},
   byTag |-> [t \in Tags |-> {}]]

Cached(c) == {k \in Keys : c.pages[k] # Absent}

Carries(c, k, t) == c.pages[k] # Absent /\ t \in c.pages[k].tags

-----------------------------------------------------------------------------
(* The order of use, as a relation.                                        *)

Unlinked(rel, gone) == {p \in rel : p[1] \notin gone /\ p[2] \notin gone}

\* slip: the key is linked again and its old place is kept
PushedTwice(rel, members, k) == rel \cup {<<x, k>> : x \in members}

\* list.PushBack, and list.MoveToBack of a key that is already linked
PushedBack(rel, members, k) ==
  Unlinked(rel, {k}) \cup {<<x, k>> : x \in members \ {k}}

IsFront(rel, members, k) ==
  k \in members /\ \A x \in members \ {k} : <<k, x>> \in rel

Front(rel, members) == CHOOSE k \in members : IsFront(rel, members, k)

-----------------------------------------------------------------------------
(* The operations.                                                         *)

\* slip: a hit is not a use
NotTouched(c, k) == c

\* the key's copy becomes the most recently used
Touch(c, k) == [c EXCEPT !.older = PushedBack(@, Cached(c), k)]

\* slip: the index keeps naming what is gone
RemoveFromPagesOnly(c, gone) ==
  [c EXCEPT !.pages = [k \in Keys |-> IF k \in gone THEN Absent ELSE @[k]],
            !.older = Unlinked(@, gone)]

\* remove of every key of gone: the invalidations remove a set of them
Remove(c, gone) ==
  [pages |-> [k \in Keys |-> IF k \in gone THEN Absent ELSE c.pages[k]],
   older |-> Unlinked(c.older, gone),
   byTag |-> [t \in Tags |->
                {k \in c.byTag[t] : ~(k \in gone /\ Carries(c, k, t))}]]

\* store before its trim: the old copy unlinked, the new one linked last
Link(c, k, e) ==
  LET rest == Remove(c, {k})
  IN  [pages |-> [rest.pages EXCEPT ![k] = e],
       older |-> PushedBack(rest.older, Cached(rest), k),
       byTag |-> [t \in Tags |->
                    IF t \in e.tags THEN rest.byTag[t] \cup {k}
                                    ELSE rest.byTag[t]]]

\* one key at most is over the capacity: every store trims
Evicted(c, k, e) ==
  LET linked == Link(c, k, e)
  IN  IF Cardinality(Cached(linked)) > MaxCachedPages
      THEN {Front(linked.older, Cached(linked))}
      ELSE {}

Store(c, k, e) == Remove(Link(c, k, e), Evicted(c, k, e))

\* the keys invalidateTag finds: through the index, never through the copies
Tagged(c, t) == c.byTag[t]

\* invalidatePath looks at every cached key
Matching(c, named) == Cached(c) \cap named

-----------------------------------------------------------------------------
(* What makes the structure sound, in named parts.                         *)

\* the index names exactly the copies that carry the tag
IndexExact(c) ==
  \A t \in Tags, k \in Keys : k \in c.byTag[t] <=> Carries(c, k, t)

\* the order is a strict linear order on the cached keys, and on no others
OrderOnCached(c) == \A p \in c.older : p[1] \in Cached(c) /\ p[2] \in Cached(c)

OrderTotal(c) ==
  \A j, k \in Cached(c) :
    j # k => (<<j, k>> \in c.older <=> <<k, j>> \notin c.older)

OrderIrreflexive(c) == \A k \in Keys : <<k, k>> \notin c.older

OrderTransitive(c) ==
  \A i, j, k \in Keys :
    <<i, j>> \in c.older /\ <<j, k>> \in c.older => <<i, k>> \in c.older

\* every set of copies has a least recently used one
OrderFounded(c) ==
  \A S \in SUBSET Cached(c) : S # {} => \E k \in S : IsFront(c.older, S, k)

OrderLinear(c) ==
  /\ OrderOnCached(c)
  /\ OrderFounded(c)
  /\ OrderTotal(c)
  /\ OrderIrreflexive(c)
  /\ OrderTransitive(c)

WithinCapacity(c) == Cardinality(Cached(c)) <= MaxCachedPages
=============================================================================
