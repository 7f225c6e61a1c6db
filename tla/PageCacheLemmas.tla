--------------------------- MODULE PageCacheLemmas ---------------------------
(***************************************************************************)
(* What the operations on a page cache return and preserve, for any keys,  *)
(* tags and capacity.  FrontProofs and IsrProofs cite these lemmas.        *)
(***************************************************************************)
EXTENDS PageCache, FiniteSetTheorems, TLAPS

-----------------------------------------------------------------------------
(* What each operation returns.                                            *)

\* A removal leaves the other copies as they are.
LEMMA RemoveMembers ==
  ASSUME NEW c \in PageCaches, NEW gone
  PROVE  /\ Remove(c, gone) \in PageCaches
         /\ Cached(Remove(c, gone)) = Cached(c) \ gone
         /\ \A k \in Keys \ gone : Remove(c, gone).pages[k] = c.pages[k]
  BY DEF PageCaches, Remove, Cached, Unlinked, Carries

\* A link adds the one copy.
LEMMA LinkMembers ==
  ASSUME NEW c \in PageCaches, NEW k \in Keys, NEW e \in Entry
  PROVE  /\ Link(c, k, e) \in PageCaches
         /\ Cached(Link(c, k, e)) = Cached(c) \cup {k}
         /\ Link(c, k, e).pages = [c.pages EXCEPT ![k] = e]
  <1> DEFINE rest == Remove(c, {k})
  <1>1. /\ rest \in PageCaches
        /\ Cached(rest) = Cached(c) \ {k}
        /\ \A j \in Keys \ {k} : rest.pages[j] = c.pages[j]
    BY RemoveMembers
  <1>2. Link(c, k, e).pages = [c.pages EXCEPT ![k] = e]
    BY <1>1 DEF Link, PageCaches
  <1>3. Link(c, k, e).older \in SUBSET (Keys \X Keys)
    <2>1. Link(c, k, e).older = PushedBack(rest.older, Cached(rest), k)
      BY DEF Link
    <2>2. rest.older \in SUBSET (Keys \X Keys) /\ Cached(rest) \subseteq Keys
      BY <1>1 DEF PageCaches, Cached
    <2> HIDE DEF rest
    <2>3. PushedBack(rest.older, Cached(rest), k) \subseteq Keys \X Keys
      BY <2>2 DEF PushedBack, Unlinked
    <2> QED
      BY <2>1, <2>3
  <1>4. Link(c, k, e).byTag \in [Tags -> SUBSET Keys]
    BY <1>1 DEF Link, PageCaches
  <1>5. Link(c, k, e) \in PageCaches
    BY <1>2, <1>3, <1>4 DEF Link, PageCaches
  <1>6. Cached(Link(c, k, e)) = Cached(c) \cup {k}
    BY <1>2, AbsentAssumption DEF Cached, PageCaches
  <1> QED
    BY <1>2, <1>5, <1>6

\* A use changes the order only.
LEMMA TouchMembers ==
  ASSUME NEW c \in PageCaches, NEW k \in Keys
  PROVE  /\ Touch(c, k) \in PageCaches
         /\ Cached(Touch(c, k)) = Cached(c)
         /\ Touch(c, k).pages = c.pages
         /\ Touch(c, k).byTag = c.byTag
  BY DEF Touch, PageCaches, Cached, PushedBack, Unlinked

-----------------------------------------------------------------------------
(* The index.                                                              *)

\* A removal takes the key out of the index of each of its tags.
LEMMA RemoveIndex ==
  ASSUME NEW c \in PageCaches, NEW gone, IndexExact(c)
  PROVE  IndexExact(Remove(c, gone))
  BY DEF PageCaches, Remove, IndexExact, Carries

\* A link enters the key under the tags of the new copy and no others.
LEMMA LinkIndex ==
  ASSUME NEW c \in PageCaches, NEW k \in Keys, NEW e \in Entry, IndexExact(c)
  PROVE  IndexExact(Link(c, k, e))
  <1> DEFINE rest == Remove(c, {k})
  <1>1. rest \in PageCaches /\ IndexExact(rest) /\ rest.pages[k] = Absent
    BY RemoveMembers, RemoveIndex DEF Remove
  <1>2. ASSUME NEW t \in Tags, NEW j \in Keys
        PROVE  j \in Link(c, k, e).byTag[t] <=> Carries(Link(c, k, e), j, t)
    <2>1. Link(c, k, e).pages = [rest.pages EXCEPT ![k] = e]
      BY DEF Link
    <2>2. Link(c, k, e).byTag[t] = IF t \in e.tags THEN rest.byTag[t] \cup {k}
                                                    ELSE rest.byTag[t]
      BY DEF Link
    <2>3. j \in rest.byTag[t] <=> Carries(rest, j, t)
      BY <1>1 DEF IndexExact
    <2>4. CASE j = k
      BY <1>1, <2>1, <2>2, <2>3, <2>4, AbsentAssumption DEF Carries, PageCaches
    <2>5. CASE j # k
      BY <1>1, <2>1, <2>2, <2>3, <2>5 DEF Carries, PageCaches
    <2> QED
      BY <2>4, <2>5
  <1> QED
    BY <1>2 DEF IndexExact

\* Whatever the eviction takes, a store is a link and a removal.
LEMMA StoreIsSound ==
  ASSUME NEW c \in PageCaches, NEW k \in Keys, NEW e \in Entry
  PROVE  /\ Store(c, k, e) \in PageCaches
         /\ Cached(Store(c, k, e)) \subseteq Cached(c) \cup {k}
         /\ \A j \in Cached(Store(c, k, e)) :
              Store(c, k, e).pages[j] = IF j = k THEN e ELSE c.pages[j]
         /\ IndexExact(c) => IndexExact(Store(c, k, e))
  <1> DEFINE linked == Link(c, k, e)
             gone == Evicted(c, k, e)
  <1>1. /\ linked \in PageCaches
        /\ Cached(linked) = Cached(c) \cup {k}
        /\ linked.pages = [c.pages EXCEPT ![k] = e]
    BY LinkMembers
  <1>2. Store(c, k, e) = Remove(linked, gone)
    BY DEF Store
  <1>3. /\ Remove(linked, gone) \in PageCaches
        /\ Cached(Remove(linked, gone)) = Cached(linked) \ gone
        /\ \A j \in Keys \ gone : Remove(linked, gone).pages[j] = linked.pages[j]
    BY <1>1, RemoveMembers
  <1>4. ASSUME IndexExact(c) PROVE IndexExact(Remove(linked, gone))
    BY <1>1, <1>4, LinkIndex, RemoveIndex
  <1>5. \A j \in Cached(Remove(linked, gone)) :
          Remove(linked, gone).pages[j] = IF j = k THEN e ELSE c.pages[j]
    BY <1>1, <1>3 DEF Cached, PageCaches
  <1> HIDE DEF linked, gone
  <1> QED
    BY <1>1, <1>2, <1>3, <1>4, <1>5
-----------------------------------------------------------------------------
(* The order.                                                              *)

\* A removal keeps the order of what stays.
LEMMA RemoveOrder ==
  ASSUME NEW c \in PageCaches, NEW gone, OrderLinear(c)
  PROVE  OrderLinear(Remove(c, gone))
  <1> DEFINE d == Remove(c, gone)
  <1>1. /\ Cached(d) = Cached(c) \ gone
        /\ d.older = Unlinked(c.older, gone)
    BY RemoveMembers DEF Remove
  <1>2. OrderOnCached(d) /\ OrderIrreflexive(d)
    BY <1>1 DEF OrderLinear, OrderOnCached, OrderIrreflexive, Unlinked
  <1>3. OrderTotal(d)
    BY <1>1 DEF OrderLinear, OrderTotal, Unlinked
  <1>4. OrderTransitive(d)
    BY <1>1 DEF OrderLinear, OrderTransitive, Unlinked
  <1>5. OrderFounded(d)
    <2> SUFFICES ASSUME NEW S \in SUBSET Cached(d), S # {}
                 PROVE  \E k \in S : IsFront(d.older, S, k)
      BY DEF OrderFounded
    <2>1. PICK k \in S : IsFront(c.older, S, k)
      BY <1>1 DEF OrderLinear, OrderFounded
    <2>2. \A x \in S : x \notin gone
      BY <1>1
    <2>3. IsFront(d.older, S, k)
      BY <1>1, <2>1, <2>2 DEF IsFront, Unlinked
    <2> QED
      BY <2>3
  <1> QED
    BY <1>2, <1>3, <1>4, <1>5 DEF OrderLinear

\* Pushing a key back, whether it was linked or not, keeps a linear order and
\* makes it the last.
LEMMA PushedBackOrder ==
  ASSUME NEW c \in PageCaches, NEW k \in Keys, OrderLinear(c),
         NEW d \in PageCaches,
         Cached(d) = Cached(c) \cup {k},
         d.older = PushedBack(c.older, Cached(c), k)
  PROVE  /\ OrderLinear(d)
         /\ \A x \in Cached(d) \ {k} : <<x, k>> \in d.older
  <1>1. \A x, y \in Keys :
          <<x, y>> \in d.older <=>
            \/ x # k /\ y # k /\ <<x, y>> \in c.older
            \/ x # k /\ y = k /\ x \in Cached(c)
    BY DEF PushedBack, Unlinked
  <1>2. d.older \subseteq Keys \X Keys /\ Cached(c) \subseteq Keys /\ Cached(d) \subseteq Keys
    BY DEF PageCaches, Cached
  <1>3. OrderOnCached(d)
    <2> SUFFICES ASSUME NEW p \in d.older
                 PROVE  p[1] \in Cached(d) /\ p[2] \in Cached(d)
      BY DEF OrderOnCached
    <2>1. p \in c.older \/ (p[1] \in Cached(c) /\ p[2] = k)
      BY DEF PushedBack, Unlinked
    <2> QED
      BY <2>1 DEF OrderLinear, OrderOnCached
  <1>4. OrderIrreflexive(d)
    BY <1>1 DEF OrderLinear, OrderIrreflexive
  <1>5. OrderTotal(d)
    BY <1>1, <1>2 DEF OrderLinear, OrderTotal
  <1>6. OrderTransitive(d)
    <2> SUFFICES ASSUME NEW i \in Keys, NEW j \in Keys, NEW l \in Keys,
                        <<i, j>> \in d.older, <<j, l>> \in d.older
                 PROVE  <<i, l>> \in d.older
      BY DEF OrderTransitive
    <2>1. i # k /\ j # k /\ <<i, j>> \in c.older
      BY <1>1
    <2>2. CASE l = k
      <3>1. i \in Cached(c)
        BY <2>1 DEF OrderLinear, OrderOnCached
      <3> QED
        BY <1>1, <2>1, <2>2, <3>1
    <2>3. CASE l # k
      BY <1>1, <2>1, <2>3 DEF OrderLinear, OrderTransitive
    <2> QED
      BY <2>2, <2>3
  <1>7. OrderFounded(d)
    <2> SUFFICES ASSUME NEW S \in SUBSET Cached(d), S # {}
                 PROVE  \E x \in S : IsFront(d.older, S, x)
      BY DEF OrderFounded
    <2>1. CASE S = {k}
      BY <2>1 DEF IsFront
    <2>2. CASE S # {k}
      <3>1. S \ {k} # {} /\ S \ {k} \in SUBSET Cached(c)
        BY <2>2
      <3>2. PICK x \in S \ {k} : IsFront(c.older, S \ {k}, x)
        BY <3>1 DEF OrderLinear, OrderFounded
      <3>3. \A y \in S \ {x} : <<x, y>> \in d.older
        BY <1>1, <1>2, <3>1, <3>2 DEF IsFront
      <3> QED
        BY <3>2, <3>3 DEF IsFront
    <2> QED
      BY <2>1, <2>2
  <1>8. \A x \in Cached(d) \ {k} : <<x, k>> \in d.older
    BY <1>1, <1>2
  <1> QED
    BY <1>3, <1>4, <1>5, <1>6, <1>7, <1>8 DEF OrderLinear

\* A hit makes its key the last of the same keys.
LEMMA TouchOrder ==
  ASSUME NEW c \in PageCaches, NEW k \in Cached(c), OrderLinear(c)
  PROVE  /\ OrderLinear(Touch(c, k))
         /\ \A x \in Cached(c) \ {k} : <<x, k>> \in Touch(c, k).older
  <1>1. k \in Keys
    BY DEF Cached
  <1>2. /\ Touch(c, k) \in PageCaches
        /\ Cached(Touch(c, k)) = Cached(c) \cup {k}
    BY <1>1, TouchMembers
  <1>3. Touch(c, k).older = PushedBack(c.older, Cached(c), k)
    BY DEF Touch, PageCaches
  <1> QED
    BY <1>1, <1>2, <1>3, PushedBackOrder

\* A link makes its key the last.
LEMMA LinkOrder ==
  ASSUME NEW c \in PageCaches, NEW k \in Keys, NEW e \in Entry, OrderLinear(c)
  PROVE  /\ OrderLinear(Link(c, k, e))
         /\ \A x \in Cached(c) \ {k} : <<x, k>> \in Link(c, k, e).older
  <1> DEFINE rest == Remove(c, {k})
  <1>1. rest \in PageCaches /\ OrderLinear(rest) /\ Cached(rest) = Cached(c) \ {k}
    BY RemoveMembers, RemoveOrder
  <1>2. /\ Link(c, k, e) \in PageCaches
        /\ Cached(Link(c, k, e)) = Cached(c) \cup {k}
    BY LinkMembers
  <1>3. Link(c, k, e).older = PushedBack(rest.older, Cached(rest), k)
    BY DEF Link
  <1> HIDE DEF rest
  <1> QED
    BY <1>1, <1>2, <1>3, PushedBackOrder

\* A linear order on at least two keys has a front, and the key that was
\* pushed back last is not it.
LEMMA EvictedIsAnother ==
  ASSUME NEW c \in PageCaches, NEW k \in Keys, NEW e \in Entry, OrderLinear(c)
  PROVE  /\ Evicted(c, k, e) \subseteq Cached(c) \ {k}
         /\ Cardinality(Cached(Link(c, k, e))) > MaxCachedPages =>
              \E x \in Cached(c) \ {k} : Evicted(c, k, e) = {x}
  <1> DEFINE d == Link(c, k, e)
  <1>1. /\ OrderLinear(d)
        /\ Cached(d) = Cached(c) \cup {k}
        /\ \A x \in Cached(c) \ {k} : <<x, k>> \in d.older
    BY LinkMembers, LinkOrder
  <1>2. CASE Cardinality(Cached(d)) > MaxCachedPages
    <2>1. Evicted(c, k, e) = {Front(d.older, Cached(d))}
      BY <1>2 DEF Evicted
    <2>2. IsFront(d.older, Cached(d), Front(d.older, Cached(d)))
      <3>1. \E x \in Cached(d) : IsFront(d.older, Cached(d), x)
        BY <1>1 DEF OrderLinear, OrderFounded
      <3> QED
        BY <3>1 DEF Front
    <2>3. Front(d.older, Cached(d)) # k
      <3>1. SUFFICES ASSUME IsFront(d.older, Cached(d), k) PROVE FALSE
        BY <2>2
      <3>2. Cached(d) # {k}
        <4>1. Cardinality({k}) = 1
          BY FS_Singleton
        <4>2. ~(1 > MaxCachedPages)
          BY MaxCachedPagesAssumption
        <4> HIDE DEF d
        <4> QED
          BY <1>2, <4>1, <4>2
      <3>3. PICK x \in Cached(d) : x # k
        BY <1>1, <3>2
      <3>4. <<k, x>> \in d.older /\ <<x, k>> \in d.older
        BY <1>1, <3>1, <3>3 DEF IsFront
      <3> QED
        BY <1>1, <3>3, <3>4 DEF OrderLinear, OrderTotal
    <2>4. Front(d.older, Cached(d)) \in Cached(c) \ {k}
      BY <1>1, <2>2, <2>3 DEF IsFront
    <2> QED
      BY <2>1, <2>4
  <1>3. CASE ~(Cardinality(Cached(d)) > MaxCachedPages)
    BY <1>3 DEF Evicted
  <1> QED
    BY <1>2, <1>3

\* What was just stored survives its own trim, and is the last to go next.
LEMMA StoreOrder ==
  ASSUME NEW c \in PageCaches, NEW k \in Keys, NEW e \in Entry, OrderLinear(c)
  PROVE  /\ OrderLinear(Store(c, k, e))
         /\ k \in Cached(Store(c, k, e))
         /\ \A x \in Cached(Store(c, k, e)) \ {k} :
              <<x, k>> \in Store(c, k, e).older
  <1> DEFINE d == Link(c, k, e)
             gone == Evicted(c, k, e)
  <1>1. /\ d \in PageCaches
        /\ OrderLinear(d)
        /\ Cached(d) = Cached(c) \cup {k}
        /\ \A x \in Cached(c) \ {k} : <<x, k>> \in d.older
    BY LinkMembers, LinkOrder
  <1>2. k \notin gone
    BY EvictedIsAnother
  <1> HIDE DEF d, gone
  <1>3. /\ OrderLinear(Remove(d, gone))
        /\ Cached(Remove(d, gone)) = Cached(d) \ gone
        /\ Remove(d, gone).older = Unlinked(d.older, gone)
    <2>1. OrderLinear(Remove(d, gone))
      BY <1>1, RemoveOrder
    <2>2. Cached(Remove(d, gone)) = Cached(d) \ gone
      BY <1>1, RemoveMembers
    <2>3. Remove(d, gone).older = Unlinked(d.older, gone)
      BY DEF Remove
    <2> QED
      BY <2>1, <2>2, <2>3
  <1>4. Store(c, k, e) = Remove(d, gone)
    BY DEF Store, d, gone
  <1> QED
    BY <1>1, <1>2, <1>3, <1>4 DEF Unlinked

-----------------------------------------------------------------------------
(* The bound.                                                              *)

Bounded(c) == IsFiniteSet(Cached(c)) /\ WithinCapacity(c)

\* A removal never breaks the bound.
LEMMA RemoveBounded ==
  ASSUME NEW c \in PageCaches, NEW gone, Bounded(c)
  PROVE  Bounded(Remove(c, gone))
  <1>1. Cached(Remove(c, gone)) \subseteq Cached(c)
    BY RemoveMembers
  <1>2. /\ IsFiniteSet(Cached(Remove(c, gone)))
        /\ Cardinality(Cached(Remove(c, gone))) <= Cardinality(Cached(c))
    BY <1>1, FS_Subset DEF Bounded
  <1>3. /\ Cardinality(Cached(c)) \in Nat
        /\ Cardinality(Cached(Remove(c, gone))) \in Nat
    BY <1>2, FS_CardinalityType DEF Bounded
  <1> QED
    BY <1>2, <1>3, MaxCachedPagesAssumption DEF Bounded, WithinCapacity

\* A store adds one key and takes one out as soon as that is one too many.
LEMMA StoreBounded ==
  ASSUME NEW c \in PageCaches, NEW k \in Keys, NEW e \in Entry,
         OrderLinear(c), Bounded(c)
  PROVE  Bounded(Store(c, k, e))
  <1> DEFINE d == Link(c, k, e)
             gone == Evicted(c, k, e)
  <1>1. d \in PageCaches /\ Cached(d) = Cached(c) \cup {k}
    BY LinkMembers
  <1>2. /\ IsFiniteSet(Cached(d))
        /\ Cardinality(Cached(d)) \in Nat
        /\ Cardinality(Cached(d)) <= MaxCachedPages + 1
    <2> HIDE DEF d
    <2>1. /\ IsFiniteSet(Cached(c))
          /\ Cardinality(Cached(c)) \in Nat
          /\ Cardinality(Cached(c)) <= MaxCachedPages
      BY FS_CardinalityType DEF Bounded, WithinCapacity
    <2>2. /\ IsFiniteSet(Cached(c) \cup {k})
          /\ Cardinality(Cached(c) \cup {k}) =
               IF k \in Cached(c) THEN Cardinality(Cached(c))
                                  ELSE Cardinality(Cached(c)) + 1
      BY <2>1, FS_AddElement
    <2> QED
      BY <1>1, <2>1, <2>2, MaxCachedPagesAssumption
  <1>3. Cached(Store(c, k, e)) = Cached(d) \ gone
    BY <1>1, RemoveMembers DEF Store
  <1>4. CASE Cardinality(Cached(d)) > MaxCachedPages
    <2>1. PICK x \in Cached(c) \ {k} : gone = {x}
      BY <1>4, EvictedIsAnother
    <2>2. /\ IsFiniteSet(Cached(d) \ {x})
          /\ Cardinality(Cached(d) \ {x}) = Cardinality(Cached(d)) - 1
      BY <1>1, <1>2, <2>1, FS_RemoveElement
    <2> HIDE DEF d, gone
    <2>3. /\ IsFiniteSet(Cached(Store(c, k, e)))
          /\ Cardinality(Cached(Store(c, k, e))) <= MaxCachedPages
      BY <1>2, <1>3, <2>1, <2>2, MaxCachedPagesAssumption
    <2> QED
      BY <2>3 DEF Bounded, WithinCapacity
  <1>5. CASE ~(Cardinality(Cached(d)) > MaxCachedPages)
    <2>1. gone = {}
      BY <1>5 DEF Evicted
    <2> HIDE DEF d, gone
    <2>2. Cached(Store(c, k, e)) = Cached(d)
      BY <1>3, <2>1
    <2> QED
      BY <1>2, <1>5, <2>2, MaxCachedPagesAssumption DEF Bounded, WithinCapacity
  <1> QED
    BY <1>4, <1>5
=============================================================================
