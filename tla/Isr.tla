--------------------------------- MODULE Isr ---------------------------------
(***************************************************************************)
(* The cached pages of the front (isr.go): one shared render per key, the  *)
(* memory of the pages that may not be shared, and Revalidate and          *)
(* RevalidateTag, which may land between any two steps of a render.        *)
(*                                                                         *)
(* Each action is one critical section of the isr mutex.  What a page      *)
(* shows is abstracted to the version of the data it was rendered from:    *)
(* ver counts the writes to the data behind a key, and floor is the        *)
(* version the latest invalidation of the key declared to be the oldest    *)
(* one worth showing.  Time is two choices: a copy ages past its policy's  *)
(* seconds, a refusal lapses.  The tags and the clock of a policy are      *)
(* constants: a policy belongs to the build the render service runs.  The  *)
(* log lines note queues, and the drain that writes them, are left out.    *)
(***************************************************************************)
EXTENDS PageCache

CONSTANTS
  TagsOf,       (* the tags of each key's policy                            *)
  Manual,       (* keys whose policy is "manual": their copies never age    *)
  Paths,        (* arguments of Revalidate                                  *)
  Names,        (* the keys each of them matches                            *)
  Requests,     (* page requests being handled                              *)
  Flights,      (* render goroutines: bounds those running at once          *)
  NoFlight,     (* inflight has no entry for the key                        *)
  Own,          (* an answer rendered for this request alone (isrBypass)    *)
  MaxVersion    (* bound on the writes to the data of a key                 *)

ASSUME PolicyAssumption ==
  /\ TagsOf \in [Keys -> SUBSET Tags]
  /\ Manual \subseteq Keys
  /\ Names \in [Paths -> SUBSET Keys]
ASSUME BoundsAssumption == Keys # {} /\ MaxVersion \in Nat
ASSUME MarksAssumption == NoFlight \notin Flights /\ Own \notin Nat

VARIABLES
  ver,          (* the version of the data behind each key                  *)
  floor,        (* the version at the key's latest invalidation             *)
  cache,        (* the shared copies                                        *)
  refused,      (* what was found unshareable, and in which order           *)
  inflight,     (* the registered flight of each key                        *)
  flight,       (* every render goroutine                                   *)
  req           (* every page request                                       *)

vars == <<ver, floor, cache, refused, inflight, flight, req>>

Versions == 0 .. MaxVersion

\* cool: the render service failed, the page itself was not refused.
\* about: the version the refusal is known to be at least about
Refusal == [cool: BOOLEAN, lapsed: BOOLEAN, about: Versions]

\* v: the oldest data the render can have read; once "read", what it did read
FlightState ==
  [stage: {"idle", "rendering", "read", "page", "error"},
   key: Keys, background: BOOLEAN, doomed: BOOLEAN, v: Versions]

RequestState ==
  [waiting: BOOLEAN, key: Keys, min: Versions,
   flight: Flights \cup {NoFlight}, got: Versions \cup {Own}]

Live(f) == flight[f].stage # "idle"
Registered(f) == inflight[flight[f].key] = f
Settled(f) == flight[f].stage \in {"page", "error"}

SomeKey == CHOOSE k \in Keys : TRUE

\* a goroutine that does not run
Parked ==
  [stage |-> "idle", key |-> SomeKey, background |-> FALSE,
   doomed |-> FALSE, v |-> 0]

Init ==
  /\ ver = [k \in Keys |-> 0]
  /\ floor = [k \in Keys |-> 0]
  /\ cache = EmptyCache
  /\ refused = [of |-> [k \in Keys |-> Absent], older |-> {}]
  /\ inflight = [k \in Keys |-> NoFlight]
  /\ flight = [f \in Flights |-> Parked]
  /\ req = [r \in Requests |->
               [waiting |-> FALSE, key |-> SomeKey, min |-> 0,
                flight |-> NoFlight, got |-> Own]]

-----------------------------------------------------------------------------
(* The data and the clock.                                                 *)

Write(k) ==
  /\ ver[k] < MaxVersion
  /\ ver' = [ver EXCEPT ![k] = @ + 1]
  /\ UNCHANGED <<floor, cache, refused, inflight, flight, req>>

\* fresh() turns false: manual copies never do
Ages(k) ==
  /\ k \in Cached(cache) \ Manual
  /\ ~cache.pages[k].aged
  /\ cache' = [cache EXCEPT !.pages[k].aged = TRUE]
  /\ UNCHANGED <<ver, floor, refused, inflight, flight, req>>

Refused == {k \in Keys : refused.of[k] # Absent}

\* a failure of the render service is forgotten even under "manual"
RefusalLapses(k) ==
  /\ k \in Refused
  /\ ~refused.of[k].lapsed
  /\ k \notin Manual \/ refused.of[k].cool
  /\ refused' = [refused EXCEPT !.of[k].lapsed = TRUE]
  /\ UNCHANGED <<ver, floor, cache, inflight, flight, req>>

-----------------------------------------------------------------------------
(* The refusal memory.                                                     *)

Lifted(gone) ==
  [of |-> [k \in Keys |-> IF k \in gone THEN Absent ELSE refused.of[k]],
   older |-> Unlinked(refused.older, gone)]

\* trimRefused: bounded like the cache, the oldest goes
Trimmed(older, members) ==
  IF Cardinality(members) > MaxCachedPages THEN {Front(older, members)} ELSE {}

Recorded(k, ref) ==
  LET of == [refused.of EXCEPT ![k] = ref]
      members == Refused \cup {k}
      older == PushedBack(refused.older, Refused, k)
      trimmed == Trimmed(older, members)
  IN  [of |-> [j \in Keys |-> IF j \in trimmed THEN Absent ELSE of[j]],
       older |-> Unlinked(older, trimmed)]

Held(k) == k \in Refused /\ ~refused.of[k].lapsed

-----------------------------------------------------------------------------
(* handle and regenerate.                                                  *)

Answer(r, k, got) ==
  req' = [req EXCEPT ![r] =
            [waiting |-> FALSE, key |-> k, min |-> floor[k],
             flight |-> NoFlight, got |-> got]]

Wait(r, k, f) ==
  req' = [req EXCEPT ![r] =
            [waiting |-> TRUE, key |-> k, min |-> floor[k],
             flight |-> f, got |-> Own]]

\* slip: whatever runs is joined
JoinableAlways(f) == TRUE

\* a doomed flight read the data before the invalidation that doomed it
Joinable(f) == ~flight[f].doomed

Launch(k, background, f) ==
  /\ ~Live(f)
  /\ flight' = [flight EXCEPT ![f] =
                  [stage |-> "rendering", key |-> k, background |-> background,
                   doomed |-> FALSE, v |-> floor[k]]]
  /\ inflight' = [inflight EXCEPT ![k] = f]

\* f is the flight regenerate returns: the running one, or a new one that
\* replaces it in inflight
Regenerate(k, background, f) ==
  LET running == inflight[k]
      join == running # NoFlight /\ Joinable(running)
  IN  \/ join /\ f = running /\ UNCHANGED <<inflight, flight>>
      \/ ~join /\ Launch(k, background, f)

ArriveRefused(r, k) ==
  /\ Held(k)
  /\ Answer(r, k, Own)
  /\ UNCHANGED <<ver, floor, cache, refused, inflight, flight>>

ArriveHit(r, k) ==
  /\ k \in Cached(cache) /\ ~cache.pages[k].aged
  /\ cache' = Touch(cache, k)
  /\ Answer(r, k, cache.pages[k].body)
  /\ UNCHANGED <<inflight, flight>>

\* stale is still a page: served now, replaced in the background
ArriveStale(r, k) ==
  /\ k \in Cached(cache) /\ cache.pages[k].aged
  /\ cache' = Touch(cache, k)
  /\ Answer(r, k, cache.pages[k].body)
  /\ \E f \in Flights : Regenerate(k, TRUE, f)

ArriveMiss(r, k) ==
  /\ k \notin Cached(cache)
  /\ \E f \in Flights : Regenerate(k, FALSE, f) /\ Wait(r, k, f)
  /\ UNCHANGED cache

\* past the refusal check, which deletes a lapsed refusal
ArriveAllowed(r, k) ==
  /\ ~Held(k)
  /\ refused' = Lifted({k})
  /\ ArriveHit(r, k) \/ ArriveStale(r, k) \/ ArriveMiss(r, k)
  /\ UNCHANGED <<ver, floor>>

Arrive(r, k) ==
  /\ ~req[r].waiting
  /\ ArriveRefused(r, k) \/ ArriveAllowed(r, k)

-----------------------------------------------------------------------------
(* The flight's goroutine.                                                 *)

\* the render service reads the data, at some moment of the render
RenderReads(f) ==
  /\ flight[f].stage = "rendering"
  /\ flight' = [flight EXCEPT ![f].stage = "read", ![f].v = ver[flight[f].key]]
  /\ UNCHANGED <<ver, floor, cache, refused, inflight, req>>

Settle(f, outcome) ==
  /\ flight' = [flight EXCEPT ![f].stage = outcome]
  /\ UNCHANGED <<ver, floor, inflight, req>>

\* slip: a flight does not look whether it was doomed while it ran
MarksAlways(f) == TRUE

\* a doomed flight stores and remembers nothing: the data changed under it
Marks(f) == ~flight[f].doomed

\* The transport failed or the deadline passed.  A doomed flight marks
\* nothing, and a background one leaves the last good copy serving.
RenderFails(f) ==
  LET marks == ~flight[f].background /\ Marks(f)
      ref == [cool |-> TRUE, lapsed |-> FALSE, about |-> flight[f].v]
  IN  /\ flight[f].stage \in {"rendering", "read"}
      /\ refused' = IF marks THEN Recorded(flight[f].key, ref) ELSE refused
      /\ UNCHANGED cache
      /\ Settle(f, "error")

\* contained by the recover: the waiters bypass, nothing is remembered
RenderPanics(f) ==
  /\ flight[f].stage \in {"rendering", "read"}
  /\ UNCHANGED <<cache, refused>>
  /\ Settle(f, "error")

\* the finished page may not be shared: its old copy goes too
Discarded(k) == Remove(cache, {k})

RenderUnstorable(f) ==
  LET k == flight[f].key
      ref == [cool |-> FALSE, lapsed |-> FALSE, about |-> flight[f].v]
  IN  /\ flight[f].stage = "read"
      /\ IF Marks(f)
         THEN refused' = Recorded(k, ref) /\ cache' = Discarded(k)
         ELSE UNCHANGED <<cache, refused>>
      /\ Settle(f, "error")

\* a doomed page is given to the flight's own waiters and never stored
RenderStored(f) ==
  LET k == flight[f].key
      v == flight[f].v
      entry == [body |-> v, head |-> v, tags |-> TagsOf[k], aged |-> FALSE]
  IN  /\ flight[f].stage = "read"
      /\ cache' = IF Marks(f) THEN Store(cache, k, entry) ELSE cache
      /\ UNCHANGED refused
      /\ Settle(f, "page")

\* slips: the key is deleted whoever is registered; the entry is set to nil and
\* not deleted
UnregisteredBlindly(f) == [inflight EXCEPT ![flight[f].key] = NoFlight]
UnregisteredToNil(f) == [inflight EXCEPT ![flight[f].key] = Absent]

\* only the registered flight is unregistered: a doomed one was replaced
Unregistered(f) ==
  [k \in Keys |-> IF k = flight[f].key /\ inflight[k] = f
                  THEN NoFlight ELSE inflight[k]]

\* slip: a replaced flight does not wake its waiters
WokenIfRegistered(f) ==
  {r \in Requests : req[r].waiting /\ req[r].flight = f /\ Registered(f)}

Woken(f) == {r \in Requests : req[r].waiting /\ req[r].flight = f}

\* close(done): nobody writes the result after it, so the waiters' answers
\* are decided here
FlightEnds(f) ==
  /\ Settled(f)
  /\ inflight' = Unregistered(f)
  /\ req' = [r \in Requests |->
       IF r \in Woken(f)
       THEN [req[r] EXCEPT !.waiting = FALSE, !.flight = NoFlight,
               !.got = IF flight[f].stage = "page" THEN flight[f].v ELSE Own]
       ELSE req[r]]
  /\ flight' = [flight EXCEPT ![f] = Parked]
  /\ UNCHANGED <<ver, floor, cache, refused>>

FlightStep(f) ==
  \/ RenderReads(f) \/ RenderFails(f) \/ RenderPanics(f)
  \/ RenderUnstorable(f) \/ RenderStored(f) \/ FlightEnds(f)

-----------------------------------------------------------------------------
(* Revalidate and RevalidateTag.                                           *)

\* slip: a running render is left alone
DoomedNone(named) == flight

\* only a registered flight can be found, by its key or by its tags
Doomed(named) ==
  [f \in Flights |->
     IF Live(f) /\ Registered(f) /\ flight[f].key \in named
     THEN [flight[f] EXCEPT !.doomed = TRUE] ELSE flight[f]]

Invalidate(named, dropped) ==
  /\ cache' = Remove(cache, dropped)
  /\ refused' = Lifted(named)
  /\ flight' = Doomed(named)
  /\ floor' = [k \in Keys |-> IF k \in named THEN ver[k] ELSE floor[k]]
  /\ UNCHANGED <<ver, inflight, req>>

InvalidatePath(p) == Invalidate(Names[p], Matching(cache, Names[p]))

Bearing(t) == {k \in Keys : t \in TagsOf[k]}

InvalidateTag(t) == Invalidate(Bearing(t), Tagged(cache, t))

Next ==
  \/ \E k \in Keys : Write(k) \/ Ages(k) \/ RefusalLapses(k)
  \/ \E r \in Requests, k \in Keys : Arrive(r, k)
  \/ \E f \in Flights : FlightStep(f)
  \/ \E p \in Paths : InvalidatePath(p)
  \/ \E t \in Tags : InvalidateTag(t)

Spec == Init /\ [][Next]_vars
-----------------------------------------------------------------------------
(* Properties.                                                             *)

RefusedTyped ==
  /\ refused.of \in [Keys -> Refusal \cup {Absent}]
  /\ refused.older \in SUBSET (Keys \X Keys)

TypeOK ==
  /\ ver \in [Keys -> Versions]
  /\ floor \in [Keys -> Versions]
  /\ cache \in PageCaches
  /\ RefusedTyped
  /\ inflight \in [Keys -> Flights \cup {NoFlight}]
  /\ flight \in [Flights -> FlightState]
  /\ req \in [Requests -> RequestState]

\* The copy an invalidation dropped does not rise again: no shared copy shows
\* data older than its key's latest invalidation, wherever the render that
\* stores it was when the invalidation landed.
CopiesAreFresh ==
  \A k \in Cached(cache) : cache.pages[k].body >= floor[k]

\* A request that arrives after an invalidation is never answered from data
\* older than it - neither by a copy nor by a render it joined.
AnswersAreFresh ==
  \A r \in Requests :
    ~req[r].waiting /\ req[r].got # Own => req[r].got >= req[r].min

\* Single flight: of the renders of one key that may still be stored there is
\* one, and it is the one inflight names, so an invalidation finds it.
OneRenderPerKey ==
  \A f \in Flights :
    Live(f) /\ ~flight[f].doomed => Registered(f)

\* inflight names running renders of its key only.
InflightRuns ==
  \A k \in Keys :
    inflight[k] # NoFlight =>
      Live(inflight[k]) /\ flight[inflight[k]].key = k

\* Nobody waits on a render that is over, or on one of another page.
WaitersHaveAFlight ==
  \A r \in Requests :
    req[r].waiting =>
      /\ req[r].flight # NoFlight
      /\ Live(req[r].flight)
      /\ flight[req[r].flight].key = req[r].key

\* A page turned personal is tried again once its data is declared changed: no
\* refusal outlives an invalidation of its key, or is recorded by a render
\* that the invalidation overtook.
RefusalsAreFresh ==
  \A k \in Refused : refused.of[k].about >= floor[k]

\* A page that was refused has no shared copy: when the refusal lapses, the
\* next request renders, it is not handed what the page was before.
RefusedIsNotCached == Refused \cap Cached(cache) = {}

\* What is dropped by tag is what the tag's pages hold: the copies carry the
\* tags of their policy and the index finds each of them.
TagsFindCopies ==
  \A t \in Tags : Tagged(cache, t) = Bearing(t) \cap Cached(cache)

\* The abstract promise, the flights hidden: what a request sees of the cache
\* is SharedPages.
Asked ==
  [r \in Requests |->
     [waiting |-> req[r].waiting, key |-> req[r].key,
      min |-> req[r].min, got |-> req[r].got]]

Promise == INSTANCE SharedPages WITH req <- Asked

\* The cache implements its promise: every step of it is a step a reader of
\* SharedPages would expect, or one nobody outside can see.
KeepsPromise == Promise!Spec
=============================================================================
