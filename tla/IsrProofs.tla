------------------------------ MODULE IsrProofs ------------------------------
(***************************************************************************)
(* The cached pages keep their promise for any pages, tags, policies,      *)
(* requests and renders: the invariants of Isr are theorems of its         *)
(* specification, and Isr implements SharedPages.  The files of the cached *)
(* pages follow the memory, and what was invalidated stays away after a    *)
(* restart, for any saves too, and any crashes.                            *)
(***************************************************************************)
EXTENDS IsrDisk, PageCacheLemmas, FunctionTheorems, SequenceTheorems, WellFoundedInduction

-----------------------------------------------------------------------------
(* The inductive invariant.  CopiesAreFresh is not inductive alone: what a *)
(* flight stores is fresh only because a flight that is not doomed read    *)
(* data no older than the floor, and it is not doomed by accident only     *)
(* because every invalidation finds it in inflight.                        *)

FloorsPast == \A k \in Keys : floor[k] <= ver[k]

CopiesTrue ==
  \A k \in Cached(cache) :
    /\ floor[k] <= cache.pages[k].body
    /\ cache.pages[k].body <= ver[k]
    /\ cache.pages[k].tags = TagsOf[k]

FlightsTrue ==
  \A f \in Flights :
    Live(f) =>
      /\ flight[f].v <= ver[flight[f].key]
      /\ ~flight[f].doomed => floor[flight[f].key] <= flight[f].v

WaitersTrue ==
  \A r \in Requests :
    req[r].waiting =>
      /\ req[r].flight \in Flights
      /\ Live(req[r].flight)
      /\ flight[req[r].flight].key = req[r].key
      /\ req[r].min <= flight[req[r].flight].v

\* a render that may still mark or store: no other one of its key may
Pursues(f, k) ==
  /\ flight[f].stage \in {"rendering", "read"}
  /\ flight[f].key = k
  /\ ~flight[f].doomed

PursuedIsNotRefused ==
  \A f \in Flights : \A k \in Refused : ~Pursues(f, k)

MissedIsNotCached ==
  \A f \in Flights :
    \A k \in Cached(cache) : Pursues(f, k) => flight[f].background

IInv ==
  /\ TypeOK
  /\ IndexExact(cache)
  /\ FloorsPast
  /\ CopiesTrue
  /\ FlightsTrue
  /\ WaitersTrue
  /\ AnswersAreFresh
  /\ OneRenderPerKey
  /\ InflightRuns
  /\ RefusalsAreFresh
  /\ PursuedIsNotRefused
  /\ MissedIsNotCached
  /\ RefusedIsNotCached

-----------------------------------------------------------------------------
(* Facts of one operator each.                                             *)

\* What the refusal memory holds after a record: the new refusal or an old
\* one, of the same key.
LEMMA RecordedMembers ==
  ASSUME RefusedTyped, NEW k \in Keys, NEW ref \in Refusal
  PROVE  LET new == Recorded(k, ref)
         IN  /\ new.of \in [Keys -> Refusal \cup {Absent}]
             /\ new.older \in SUBSET (Keys \X Keys)
             /\ \A j \in Keys :
                  \/ new.of[j] = Absent
                  \/ j = k /\ new.of[j] = ref
                  \/ j # k /\ new.of[j] = refused.of[j]
  <1>1. refused.older \subseteq Keys \X Keys /\ Refused \subseteq Keys
    BY DEF RefusedTyped, Refused
  <1>2. PushedBack(refused.older, Refused, k) \subseteq Keys \X Keys
    BY <1>1 DEF PushedBack, Unlinked
  <1>3. Recorded(k, ref).older \in SUBSET (Keys \X Keys)
    BY <1>2 DEF Recorded, Unlinked
  <1>4. \A j \in Keys :
          \/ Recorded(k, ref).of[j] = Absent
          \/ Recorded(k, ref).of[j] = [refused.of EXCEPT ![k] = ref][j]
    BY DEF Recorded
  <1>5. Recorded(k, ref).of \in [Keys -> Refusal \cup {Absent}]
    <2>1. [refused.of EXCEPT ![k] = ref] \in [Keys -> Refusal \cup {Absent}]
      BY DEF RefusedTyped
    <2>2. Recorded(k, ref).of = [j \in Keys |-> Recorded(k, ref).of[j]]
      BY DEF Recorded
    <2> QED
      BY <1>4, <2>1, <2>2
  <1> QED
    BY <1>3, <1>4, <1>5 DEF RefusedTyped

\* Lifting refusals adds none.
LEMMA LiftedMembers ==
  ASSUME RefusedTyped, NEW gone
  PROVE  /\ Lifted(gone).of \in [Keys -> Refusal \cup {Absent}]
         /\ Lifted(gone).older \in SUBSET (Keys \X Keys)
         /\ \A j \in Keys :
              Lifted(gone).of[j] = IF j \in gone THEN Absent ELSE refused.of[j]
  BY DEF RefusedTyped, Lifted, Unlinked

-----------------------------------------------------------------------------
(* The initial state.                                                      *)

\* Nothing is cached, refused or running.
LEMMA IInvInit == Init => IInv
  <1> SUFFICES ASSUME Init PROVE IInv
    OBVIOUS
  <1>1. SomeKey \in Keys
    BY BoundsAssumption DEF SomeKey
  <1>2. cache \in PageCaches /\ Cached(cache) = {} /\ IndexExact(cache)
    BY DEF Init, EmptyCache, PageCaches, Cached, IndexExact, Carries
  <1>3. Refused = {} /\ RefusedTyped
    BY DEF Init, Refused, RefusedTyped
  <1>4. TypeOK
    BY <1>1, <1>2, <1>3, BoundsAssumption
       DEF Init, TypeOK, Versions, FlightState, RequestState, Parked
  <1>5. \A f \in Flights : ~Live(f) /\ flight[f].stage = "idle"
    BY DEF Init, Live, Parked
  <1>6. FloorsPast /\ CopiesTrue /\ FlightsTrue /\ WaitersTrue /\ AnswersAreFresh
    BY <1>2, <1>5
       DEF Init, FloorsPast, CopiesTrue, FlightsTrue, WaitersTrue, AnswersAreFresh
  <1>7. OneRenderPerKey /\ InflightRuns /\ RefusalsAreFresh
    BY <1>3, <1>5 DEF Init, OneRenderPerKey, InflightRuns, RefusalsAreFresh
  <1>8. PursuedIsNotRefused /\ MissedIsNotCached /\ RefusedIsNotCached
    BY <1>2, <1>3 DEF PursuedIsNotRefused, MissedIsNotCached, RefusedIsNotCached
  <1> QED
    BY <1>2, <1>4, <1>6, <1>7, <1>8 DEF IInv

-----------------------------------------------------------------------------
(* The data and the clock.                                                 *)

\* A write to the data leaves every copy and every render behind it.
LEMMA IInvWrite ==
  ASSUME IInv, NEW k \in Keys, Write(k)
  PROVE  IInv'
  <1>1. /\ \A j \in Keys : ver[j] <= ver'[j] /\ ver[j] \in Nat /\ ver'[j] \in Nat
        /\ ver' \in [Keys -> Versions]
        /\ UNCHANGED <<floor, cache, refused, inflight, flight, req>>
    BY BoundsAssumption DEF Write, IInv, TypeOK, Versions
  <1>2. TypeOK' /\ IndexExact(cache)'
    BY <1>1 DEF IInv, TypeOK, RefusedTyped
  <1>3. \A j \in Keys : floor[j] \in Nat
    BY DEF IInv, TypeOK, Versions
  <1>4. FloorsPast'
    BY <1>1, <1>3 DEF IInv, FloorsPast
  <1>5. CopiesTrue'
    <2> SUFFICES ASSUME NEW j \in Cached(cache)
                 PROVE  cache.pages[j].body <= ver'[j]
      BY <1>1 DEF IInv, CopiesTrue
    <2>1. j \in Keys /\ cache.pages[j] \in Entry
      BY DEF IInv, TypeOK, PageCaches, Cached
    <2> QED
      BY <1>1, <2>1 DEF IInv, CopiesTrue, Entry
  <1>6. FlightsTrue'
    <2> SUFFICES ASSUME NEW f \in Flights, Live(f)
                 PROVE  flight[f].v <= ver'[flight[f].key]
      BY <1>1 DEF IInv, FlightsTrue, Live
    <2>1. flight[f].key \in Keys /\ flight[f].v \in Nat
      BY DEF IInv, TypeOK, FlightState, Versions
    <2> QED
      BY <1>1, <2>1 DEF IInv, FlightsTrue
  <1>7. WaitersTrue' /\ AnswersAreFresh' /\ OneRenderPerKey' /\ InflightRuns'
    BY <1>1 DEF IInv, WaitersTrue, AnswersAreFresh, OneRenderPerKey, InflightRuns,
                Live, Registered
  <1>8. /\ RefusalsAreFresh' /\ PursuedIsNotRefused'
        /\ MissedIsNotCached' /\ RefusedIsNotCached'
    BY <1>1 DEF IInv, RefusalsAreFresh, PursuedIsNotRefused, MissedIsNotCached,
                RefusedIsNotCached, Refused, Pursues
  <1> QED
    BY <1>2, <1>4, <1>5, <1>6, <1>7, <1>8 DEF IInv

\* Steps that touch nothing but the order and the age of the copies.
LEMMA IInvSamePages ==
  ASSUME IInv,
         cache' \in PageCaches,
         IndexExact(cache'),
         Cached(cache') = Cached(cache),
         \A k \in Cached(cache) : /\ cache'.pages[k].body = cache.pages[k].body
                                  /\ cache'.pages[k].tags = cache.pages[k].tags,
         UNCHANGED <<ver, floor, refused, inflight, flight, req>>
  PROVE  IInv'
  <1>1. TypeOK'
    BY DEF IInv, TypeOK, RefusedTyped
  <1>2. FloorsPast' /\ CopiesTrue' /\ FlightsTrue' /\ WaitersTrue'
    BY DEF IInv, FloorsPast, CopiesTrue, FlightsTrue, WaitersTrue, Live
  <1>3. AnswersAreFresh' /\ OneRenderPerKey' /\ InflightRuns'
    BY DEF IInv, AnswersAreFresh, OneRenderPerKey, InflightRuns, Live, Registered
  <1>4. /\ RefusalsAreFresh' /\ PursuedIsNotRefused'
        /\ MissedIsNotCached' /\ RefusedIsNotCached'
    BY DEF IInv, RefusalsAreFresh, PursuedIsNotRefused, MissedIsNotCached,
           RefusedIsNotCached, Refused, Pursues
  <1> QED
    BY <1>1, <1>2, <1>3, <1>4 DEF IInv

\* A copy that ages is the same copy.
LEMMA IInvAges ==
  ASSUME IInv, NEW k \in Keys, Ages(k)
  PROVE  IInv'
  <1>1. /\ cache \in PageCaches /\ IndexExact(cache)
        /\ k \in Cached(cache) /\ cache.pages[k] \in Entry
        /\ cache' = [cache EXCEPT !.pages[k].aged = TRUE]
    BY DEF Ages, IInv, TypeOK, PageCaches, Cached
  <1> DEFINE e == [cache.pages[k] EXCEPT !.aged = TRUE]
  <1>2. /\ e \in Entry
        /\ e.body = cache.pages[k].body /\ e.tags = cache.pages[k].tags
    BY <1>1 DEF Entry
  <1>3. /\ cache'.pages = [cache.pages EXCEPT ![k] = e]
        /\ cache'.older = cache.older
        /\ cache'.byTag = cache.byTag
        /\ cache' = [pages |-> cache'.pages, older |-> cache'.older, byTag |-> cache'.byTag]
    BY <1>1 DEF PageCaches
  <1> HIDE DEF e
  <1>4. cache' \in PageCaches
    BY <1>1, <1>2, <1>3 DEF PageCaches
  <1>5. /\ Cached(cache') = Cached(cache)
        /\ \A j \in Keys : j # k => cache'.pages[j] = cache.pages[j]
        /\ cache'.pages[k] = e
    BY <1>1, <1>2, <1>3, AbsentAssumption, ZenonT(40) DEF PageCaches, Cached
  <1>6. IndexExact(cache')
    <2> SUFFICES ASSUME NEW t \in Tags, NEW j \in Keys
                 PROVE  j \in cache'.byTag[t] <=> Carries(cache', j, t)
      BY DEF IndexExact
    <2>1. j \in cache.byTag[t] <=> Carries(cache, j, t)
      BY <1>1 DEF IndexExact
    <2>2. Carries(cache', j, t) <=> Carries(cache, j, t)
      <3>1. CASE j = k
        BY <1>1, <1>2, <1>5, <3>1, AbsentAssumption DEF Carries
      <3>2. CASE j # k
        BY <1>5, <3>2 DEF Carries
      <3> QED
        BY <3>1, <3>2
    <2> QED
      BY <1>3, <2>1, <2>2
  <1>7. \A j \in Cached(cache) : /\ cache'.pages[j].body = cache.pages[j].body
                                 /\ cache'.pages[j].tags = cache.pages[j].tags
    BY <1>2, <1>5 DEF Cached
  <1> QED
    BY <1>4, <1>5, <1>6, <1>7, IInvSamePages DEF Ages

\* Steps that lift refusals, or change one's clock, and nothing else.
LEMMA IInvFewerRefusals ==
  ASSUME IInv,
         RefusedTyped',
         \A k \in Keys : \/ refused'.of[k] = Absent
                         \/ /\ refused.of[k] # Absent
                            /\ refused'.of[k].about = refused.of[k].about,
         UNCHANGED <<ver, floor, cache, inflight, flight, req>>
  PROVE  IInv'
  <1>1. Refused' \subseteq Refused
    BY DEF Refused
  <1>2. TypeOK' /\ IndexExact(cache)'
    BY DEF IInv, TypeOK
  <1>3. FloorsPast' /\ CopiesTrue' /\ FlightsTrue' /\ WaitersTrue'
    BY DEF IInv, FloorsPast, CopiesTrue, FlightsTrue, WaitersTrue, Live
  <1>4. AnswersAreFresh' /\ OneRenderPerKey' /\ InflightRuns' /\ MissedIsNotCached'
    BY DEF IInv, AnswersAreFresh, OneRenderPerKey, InflightRuns, MissedIsNotCached,
           Live, Registered, Pursues
  <1>5. RefusalsAreFresh'
    BY DEF IInv, RefusalsAreFresh, Refused
  <1>6. PursuedIsNotRefused' /\ RefusedIsNotCached'
    BY <1>1 DEF IInv, PursuedIsNotRefused, RefusedIsNotCached, Pursues
  <1> QED
    BY <1>2, <1>3, <1>4, <1>5, <1>6 DEF IInv

\* A refusal that lapses is about the same data.
LEMMA IInvRefusalLapses ==
  ASSUME IInv, NEW k \in Keys, RefusalLapses(k)
  PROVE  IInv'
  <1>1. /\ refused.of \in [Keys -> Refusal \cup {Absent}]
        /\ refused.of[k] \in Refusal
        /\ refused' = [refused EXCEPT !.of[k].lapsed = TRUE]
    BY DEF RefusalLapses, Refused, IInv, TypeOK, RefusedTyped
  <1>2. /\ refused'.of = [refused.of EXCEPT ![k] = [@ EXCEPT !.lapsed = TRUE]]
        /\ refused'.older = refused.older
    BY <1>1
  <1>3. /\ [refused.of[k] EXCEPT !.lapsed = TRUE] \in Refusal
        /\ [refused.of[k] EXCEPT !.lapsed = TRUE].about = refused.of[k].about
    BY <1>1 DEF Refusal
  <1>4. RefusedTyped'
    BY <1>1, <1>2, <1>3 DEF RefusedTyped, IInv, TypeOK
  <1>5. \A j \in Keys : \/ refused'.of[j] = Absent
                        \/ /\ refused.of[j] # Absent
                           /\ refused'.of[j].about = refused.of[j].about
    BY <1>1, <1>2, <1>3 DEF RefusalLapses, Refused
  <1> QED
    BY <1>4, <1>5, IInvFewerRefusals DEF RefusalLapses
-----------------------------------------------------------------------------
(* Requests.                                                               *)

\* regenerate returns a render of the key that an answer may come from, and
\* there is still one such render at most.
LEMMA RegenerateFlights ==
  ASSUME IInv, NEW k \in Keys, NEW background \in BOOLEAN, NEW f \in Flights,
         Regenerate(k, background, f), UNCHANGED <<ver, floor>>
  PROVE  /\ flight' \in [Flights -> FlightState]
         /\ inflight' \in [Keys -> Flights \cup {NoFlight}]
         /\ FlightsTrue' /\ OneRenderPerKey' /\ InflightRuns'
         /\ \A g \in Flights : Live(g) => flight'[g] = flight[g]
         /\ Live(f)' /\ flight'[f].key = k /\ floor[k] <= flight'[f].v
         /\ \A g \in Flights, j \in Keys :
              Pursues(g, j)' =>
                Pursues(g, j) \/ (j = k /\ g = f /\ flight'[f].background = background)
  <1>1. /\ flight \in [Flights -> FlightState]
        /\ inflight \in [Keys -> Flights \cup {NoFlight}]
        /\ floor[k] \in Versions /\ ver[k] \in Versions /\ floor[k] <= ver[k]
    BY DEF IInv, TypeOK, FloorsPast
  <1>2. CASE inflight[k] # NoFlight /\ Joinable(inflight[k])
    <2>1. f = inflight[k] /\ UNCHANGED <<inflight, flight>>
      BY <1>2 DEF Regenerate
    <2>2. Live(f) /\ flight[f].key = k /\ ~flight[f].doomed
      BY <1>2, <2>1 DEF IInv, InflightRuns, Joinable
    <2>3. FlightsTrue' /\ OneRenderPerKey' /\ InflightRuns'
      BY <2>1 DEF IInv, FlightsTrue, OneRenderPerKey, InflightRuns, Live, Registered
    <2>4. floor[k] <= flight[f].v
      BY <2>2 DEF IInv, FlightsTrue
    <2> QED
      BY <1>1, <2>1, <2>2, <2>3, <2>4 DEF Live, Pursues
  <1>3. CASE ~(inflight[k] # NoFlight /\ Joinable(inflight[k]))
    <2> DEFINE new == [stage |-> "rendering", key |-> k, background |-> background,
                       doomed |-> FALSE, v |-> floor[k]]
    <2>1. /\ ~Live(f)
          /\ flight' = [flight EXCEPT ![f] = new]
          /\ inflight' = [inflight EXCEPT ![k] = f]
      BY <1>3 DEF Regenerate, Launch
    <2>2. /\ new \in FlightState
          /\ new.stage = "rendering" /\ new.key = k /\ ~new.doomed
          /\ new.v = floor[k] /\ new.background = background
      BY <1>1 DEF FlightState
    <2> HIDE DEF new
    <2>3. /\ flight' \in [Flights -> FlightState]
          /\ inflight' \in [Keys -> Flights \cup {NoFlight}]
          /\ flight'[f] = new
          /\ \A g \in Flights : g # f => flight'[g] = flight[g]
          /\ inflight'[k] = f
          /\ \A j \in Keys : j # k => inflight'[j] = inflight[j]
      BY <1>1, <2>1, <2>2
    <2>4. FlightsTrue'
      <3> SUFFICES ASSUME NEW g \in Flights, Live(g)'
                   PROVE  /\ flight'[g].v <= ver[flight'[g].key]
                          /\ ~flight'[g].doomed => floor[flight'[g].key] <= flight'[g].v
        BY DEF FlightsTrue
      <3>1. CASE g = f
        BY <1>1, <2>2, <2>3, <3>1 DEF Versions
      <3>2. CASE g # f
        BY <2>3, <3>2 DEF IInv, FlightsTrue, Live
      <3> QED
        BY <3>1, <3>2
    <2>5. OneRenderPerKey'
      <3> SUFFICES ASSUME NEW g \in Flights, Live(g)', ~flight'[g].doomed
                   PROVE  inflight'[flight'[g].key] = g
        BY DEF OneRenderPerKey, Registered
      <3>1. CASE g = f
        BY <2>2, <2>3, <3>1
      <3>2. CASE g # f
        <4>1. Live(g) /\ ~flight[g].doomed /\ flight'[g].key = flight[g].key
          BY <2>3, <3>2 DEF Live
        <4>2. inflight[flight[g].key] = g /\ flight[g].key \in Keys
          BY <1>1, <4>1 DEF IInv, OneRenderPerKey, Registered, FlightState
        <4>3. flight[g].key # k
          BY <1>3, <4>1, <4>2, MarksAssumption DEF Joinable
        <4> QED
          BY <2>3, <4>1, <4>2, <4>3
      <3> QED
        BY <3>1, <3>2
    <2>6. InflightRuns'
      <3> SUFFICES ASSUME NEW j \in Keys, inflight'[j] # NoFlight
                   PROVE  /\ flight'[inflight'[j]].stage # "idle"
                          /\ flight'[inflight'[j]].key = j
        BY DEF InflightRuns, Live
      <3>1. CASE j = k
        BY <2>2, <2>3, <3>1 DEF Live
      <3>2. CASE j # k
        <4>1. /\ inflight'[j] = inflight[j] /\ inflight[j] \in Flights
              /\ Live(inflight[j]) /\ flight[inflight[j]].key = j
          BY <1>1, <2>3, <3>2 DEF IInv, InflightRuns
        <4>2. inflight[j] # f
          BY <2>1, <4>1
        <4> QED
          BY <2>3, <4>1, <4>2 DEF Live
      <3> QED
        BY <3>1, <3>2
    <2>7. \A g \in Flights : Live(g) => flight'[g] = flight[g]
      BY <2>1, <2>3
    <2>8. Live(f)' /\ flight'[f].key = k /\ floor[k] <= flight'[f].v
      BY <1>1, <2>2, <2>3 DEF Live, Versions
    <2>9. \A g \in Flights, j \in Keys :
            Pursues(g, j)' =>
              Pursues(g, j) \/ (j = k /\ g = f /\ flight'[f].background = background)
      BY <2>2, <2>3 DEF Pursues
    <2> QED
      BY <2>3, <2>4, <2>5, <2>6, <2>7, <2>8, <2>9
  <1> QED
    BY <1>2, <1>3

\* What an arrival past the refusal check does, whichever way it ends.
LEMMA IInvArrival ==
  ASSUME IInv, NEW r \in Requests, NEW k \in Keys,
         refused' = Lifted({k}),
         UNCHANGED <<ver, floor>>,
         cache' \in PageCaches, IndexExact(cache'),
         Cached(cache') = Cached(cache), cache'.pages = cache.pages,
         NEW background \in BOOLEAN,
         background \/ k \notin Cached(cache),
         \/ UNCHANGED <<inflight, flight>>
         \/ \E f \in Flights : Regenerate(k, background, f),
         req' \in [Requests -> RequestState],
         \A s \in Requests \ {r} : req'[s] = req[s],
         ~req'[r].waiting /\ req'[r].got # Own => req'[r].got >= req'[r].min,
         req'[r].waiting => \E f \in Flights : /\ Regenerate(k, background, f)
                                               /\ req'[r].flight = f
                                               /\ req'[r].key = k
                                               /\ req'[r].min = floor[k]
  PROVE  IInv'
  <1>1. /\ RefusedTyped'
        /\ Refused' = Refused \ {k}
        /\ \A j \in Refused' : refused'.of[j] = refused.of[j]
    <2>1. RefusedTyped
      BY DEF IInv, TypeOK
    <2>2. /\ refused'.of \in [Keys -> Refusal \cup {Absent}]
          /\ refused'.older \in SUBSET (Keys \X Keys)
          /\ \A j \in Keys :
               refused'.of[j] = IF j \in {k} THEN Absent ELSE refused.of[j]
      BY <2>1, LiftedMembers
    <2> QED
      BY <2>2 DEF RefusedTyped, Refused
  <1>2. /\ flight' \in [Flights -> FlightState]
        /\ inflight' \in [Keys -> Flights \cup {NoFlight}]
        /\ FlightsTrue' /\ OneRenderPerKey' /\ InflightRuns'
        /\ \A g \in Flights : Live(g) => flight'[g] = flight[g]
        /\ \A g \in Flights, j \in Keys :
             Pursues(g, j)' =>
               Pursues(g, j) \/ (j = k /\ flight'[g].background = background)
    <2>1. CASE UNCHANGED <<inflight, flight>>
      BY <2>1 DEF IInv, TypeOK, FlightsTrue, OneRenderPerKey, InflightRuns, Live,
                  Registered, Pursues
    <2>2. CASE \E f \in Flights : Regenerate(k, background, f)
      BY <2>2, RegenerateFlights
    <2> QED
      BY <2>1, <2>2
  <1>3. TypeOK'
    BY <1>1, <1>2 DEF IInv, TypeOK
  <1>4. FloorsPast' /\ CopiesTrue'
    BY DEF IInv, FloorsPast, CopiesTrue
  <1>5. WaitersTrue'
    <2> SUFFICES ASSUME NEW s \in Requests, req'[s].waiting
                 PROVE  /\ req'[s].flight \in Flights
                        /\ flight'[req'[s].flight].stage # "idle"
                        /\ flight'[req'[s].flight].key = req'[s].key
                        /\ req'[s].min <= flight'[req'[s].flight].v
      BY DEF WaitersTrue, Live
    <2>1. CASE s = r
      <3>1. PICK f \in Flights : /\ Regenerate(k, background, f)
                                 /\ req'[r].flight = f
                                 /\ req'[r].key = k
                                 /\ req'[r].min = floor[k]
        BY <2>1
      <3>2. Live(f)' /\ flight'[f].key = k /\ floor[k] <= flight'[f].v
        BY <3>1, RegenerateFlights
      <3> QED
        BY <2>1, <3>1, <3>2 DEF Live
    <2>2. CASE s # r
      <3>1. /\ req'[s] = req[s] /\ req[s].flight \in Flights /\ Live(req[s].flight)
            /\ flight[req[s].flight].key = req[s].key
            /\ req[s].min <= flight[req[s].flight].v
        BY <2>2 DEF IInv, WaitersTrue
      <3>2. flight'[req[s].flight] = flight[req[s].flight]
        BY <1>2, <3>1
      <3> QED
        BY <3>1, <3>2 DEF Live
    <2> QED
      BY <2>1, <2>2
  <1>6. AnswersAreFresh'
    BY DEF IInv, AnswersAreFresh
  <1>7. RefusalsAreFresh' /\ RefusedIsNotCached'
    BY <1>1 DEF IInv, RefusalsAreFresh, RefusedIsNotCached
  <1>8. PursuedIsNotRefused'
    <2> SUFFICES ASSUME NEW g \in Flights, NEW j \in Refused', Pursues(g, j)'
                 PROVE  FALSE
      BY DEF PursuedIsNotRefused
    <2>1. j \in Refused /\ j # k /\ j \in Keys
      BY <1>1 DEF Refused
    <2> QED
      BY <1>2, <2>1 DEF IInv, PursuedIsNotRefused
  <1>9. MissedIsNotCached'
    <2> SUFFICES ASSUME NEW g \in Flights, NEW j \in Cached(cache), Pursues(g, j)'
                 PROVE  flight'[g].background
      BY DEF MissedIsNotCached
    <2>1. j \in Keys
      BY DEF Cached
    <2>2. CASE Pursues(g, j)
      <3>1. flight[g].background /\ Live(g)
        BY <2>2 DEF IInv, MissedIsNotCached, Pursues, Live
      <3> QED
        BY <1>2, <3>1
    <2>3. CASE j = k /\ flight'[g].background = background
      BY <2>3
    <2> QED
      BY <1>2, <2>1, <2>2, <2>3
  <1> QED
    BY <1>3, <1>4, <1>2, <1>5, <1>6, <1>7, <1>8, <1>9 DEF IInv

\* A request, whichever of the answers it gets.
LEMMA IInvArrive ==
  ASSUME IInv, NEW r \in Requests, NEW k \in Keys, Arrive(r, k)
  PROVE  IInv'
  <1>1. /\ req \in [Requests -> RequestState]
        /\ cache \in PageCaches /\ IndexExact(cache)
        /\ floor[k] \in Versions
    BY DEF IInv, TypeOK
  <1>2. ASSUME NEW got \in Versions \cup {Own}, Answer(r, k, got),
               got # Own => floor[k] <= got
        PROVE  /\ req' \in [Requests -> RequestState]
               /\ \A s \in Requests \ {r} : req'[s] = req[s]
               /\ ~req'[r].waiting
               /\ req'[r].got # Own => req'[r].got >= req'[r].min
    <2>1. /\ req'[r] = [waiting |-> FALSE, key |-> k, min |-> floor[k],
                        flight |-> NoFlight, got |-> got]
          /\ \A s \in Requests \ {r} : req'[s] = req[s]
      BY <1>1, <1>2 DEF Answer
    <2>2. req' \in [Requests -> RequestState]
      BY <1>1, <1>2 DEF Answer, RequestState
    <2> QED
      BY <1>1, <1>2, <2>1, <2>2 DEF Versions
  <1>3. CASE ArriveRefused(r, k)
    <2>1. /\ req' \in [Requests -> RequestState]
          /\ \A s \in Requests \ {r} : req'[s] = req[s]
          /\ ~req'[r].waiting
          /\ req'[r].got = Own
      BY <1>1, <1>2, <1>3 DEF ArriveRefused, Answer
    <2>2. UNCHANGED <<ver, floor, cache, refused, inflight, flight>>
      BY <1>3 DEF ArriveRefused
    <2>3. TypeOK' /\ IndexExact(cache)'
      BY <2>1, <2>2 DEF IInv, TypeOK, RefusedTyped
    <2>4. WaitersTrue' /\ AnswersAreFresh'
      BY <2>1, <2>2 DEF IInv, WaitersTrue, AnswersAreFresh, Live
    <2>5. FloorsPast' /\ CopiesTrue' /\ FlightsTrue' /\ OneRenderPerKey' /\ InflightRuns'
      BY <2>2 DEF IInv, FloorsPast, CopiesTrue, FlightsTrue, OneRenderPerKey,
                  InflightRuns, Live, Registered
    <2>6. /\ RefusalsAreFresh' /\ PursuedIsNotRefused'
          /\ MissedIsNotCached' /\ RefusedIsNotCached'
      BY <2>2 DEF IInv, RefusalsAreFresh, PursuedIsNotRefused, MissedIsNotCached,
                  RefusedIsNotCached, Refused, Pursues
    <2> QED
      BY <2>3, <2>4, <2>5, <2>6 DEF IInv
  <1>4. CASE ArriveAllowed(r, k)
    <2>1. refused' = Lifted({k}) /\ UNCHANGED <<ver, floor>>
      BY <1>4 DEF ArriveAllowed
    <2>2. ASSUME k \in Cached(cache), cache' = Touch(cache, k)
          PROVE  /\ cache' \in PageCaches /\ IndexExact(cache')
                 /\ Cached(cache') = Cached(cache) /\ cache'.pages = cache.pages
                 /\ cache.pages[k].body \in Versions
                 /\ floor[k] <= cache.pages[k].body
      <3>1. /\ cache' \in PageCaches
            /\ Cached(cache') = Cached(cache)
            /\ cache'.pages = cache.pages
            /\ cache'.byTag = cache.byTag
        BY <1>1, <2>2, TouchMembers
      <3>2. cache.pages[k] \in Entry /\ ver[k] \in Versions
        BY <1>1, <2>2 DEF PageCaches, Cached, IInv, TypeOK
      <3>3. floor[k] <= cache.pages[k].body /\ cache.pages[k].body <= ver[k]
        BY <2>2 DEF IInv, CopiesTrue
      <3> QED
        BY <1>1, <3>1, <3>2, <3>3, BoundsAssumption
           DEF IndexExact, Carries, Entry, Versions
    <2>3. CASE ArriveHit(r, k)
      <3>1. /\ k \in Cached(cache) /\ cache' = Touch(cache, k)
            /\ Answer(r, k, cache.pages[k].body)
            /\ UNCHANGED <<inflight, flight>>
        BY <2>3 DEF ArriveHit
      <3>2. /\ req' \in [Requests -> RequestState]
            /\ \A s \in Requests \ {r} : req'[s] = req[s]
            /\ ~req'[r].waiting
            /\ req'[r].got # Own => req'[r].got >= req'[r].min
        BY <1>2, <2>2, <3>1
      <3> QED
        BY <2>1, <2>2, <3>1, <3>2, IInvArrival
    <2>4. CASE ArriveStale(r, k)
      <3>1. /\ k \in Cached(cache) /\ cache' = Touch(cache, k)
            /\ Answer(r, k, cache.pages[k].body)
            /\ \E f \in Flights : Regenerate(k, TRUE, f)
        BY <2>4 DEF ArriveStale
      <3>2. /\ req' \in [Requests -> RequestState]
            /\ \A s \in Requests \ {r} : req'[s] = req[s]
            /\ ~req'[r].waiting
            /\ req'[r].got # Own => req'[r].got >= req'[r].min
        BY <1>2, <2>2, <3>1
      <3> QED
        BY <2>1, <2>2, <3>1, <3>2, IInvArrival
    <2>5. CASE ArriveMiss(r, k)
      <3>1. PICK f \in Flights : Regenerate(k, FALSE, f) /\ Wait(r, k, f)
        BY <2>5 DEF ArriveMiss
      <3>2. k \notin Cached(cache) /\ cache' = cache
        BY <2>5 DEF ArriveMiss
      <3>3. /\ req'[r] = [waiting |-> TRUE, key |-> k, min |-> floor[k],
                          flight |-> f, got |-> Own]
            /\ \A s \in Requests \ {r} : req'[s] = req[s]
        BY <1>1, <3>1 DEF Wait
      <3>4. req' \in [Requests -> RequestState]
        BY <1>1, <3>1 DEF Wait, RequestState
      <3>5. /\ cache' \in PageCaches /\ IndexExact(cache')
            /\ Cached(cache') = Cached(cache) /\ cache'.pages = cache.pages
        BY <1>1, <3>2
      <3>6. /\ req'[r].waiting
            /\ \E g \in Flights : /\ Regenerate(k, FALSE, g)
                                  /\ req'[r].flight = g
                                  /\ req'[r].key = k
                                  /\ req'[r].min = floor[k]
        <4>1. /\ req'[r].waiting /\ req'[r].flight = f
              /\ req'[r].key = k /\ req'[r].min = floor[k]
          BY <3>3
        <4> QED
          BY <3>1, <4>1, Zenon
      <3>7. \E g \in Flights : Regenerate(k, FALSE, g)
        BY <3>1
      <3>8. FALSE \in BOOLEAN
        OBVIOUS
      <3> QED
        BY <2>1, <3>2, <3>3, <3>4, <3>5, <3>6, <3>7, <3>8, IInvArrival
    <2> QED
      BY <1>4, <2>3, <2>4, <2>5 DEF ArriveAllowed
  <1> QED
    BY <1>3, <1>4 DEF Arrive
-----------------------------------------------------------------------------
(* Renders.                                                                *)

\* The data a render reads is no older than any floor its key has had.
LEMMA IInvRenderReads ==
  ASSUME IInv, NEW f \in Flights, RenderReads(f)
  PROVE  IInv'
  <1> DEFINE k == flight[f].key
  <1>1. /\ flight \in [Flights -> FlightState] /\ k \in Keys
        /\ flight[f].stage = "rendering"
        /\ ver[k] \in Versions /\ floor[k] \in Versions /\ floor[k] <= ver[k]
        /\ flight[f].v \in Versions /\ flight[f].v <= ver[k]
    BY DEF IInv, TypeOK, FloorsPast, FlightState, RenderReads, FlightsTrue, Live
  <1> DEFINE new == [flight[f] EXCEPT !.stage = "read", !.v = ver[k]]
  <1>2. /\ new \in FlightState
        /\ new.stage = "read" /\ new.v = ver[k] /\ new.key = k
        /\ new.doomed = flight[f].doomed /\ new.background = flight[f].background
    BY <1>1 DEF FlightState
  <1>3. /\ flight' = [flight EXCEPT ![f] = new]
        /\ UNCHANGED <<ver, floor, cache, refused, inflight, req>>
    BY <1>1 DEF RenderReads, FlightState
  <1> HIDE DEF new
  <1>4. /\ flight' \in [Flights -> FlightState]
        /\ flight'[f] = new
        /\ \A g \in Flights : g # f => flight'[g] = flight[g]
    BY <1>1, <1>2, <1>3
  <1>5. \A g \in Flights :
          /\ Live(g)' <=> Live(g)
          /\ flight'[g].key = flight[g].key
          /\ flight'[g].doomed = flight[g].doomed
          /\ flight'[g].background = flight[g].background
          /\ \A j \in Keys : Pursues(g, j)' <=> Pursues(g, j)
    BY <1>1, <1>2, <1>4 DEF Live, Pursues
  <1>6. TypeOK' /\ IndexExact(cache)'
    BY <1>3, <1>4 DEF IInv, TypeOK, RefusedTyped
  <1>7. FloorsPast' /\ CopiesTrue' /\ AnswersAreFresh' /\ RefusalsAreFresh' /\ RefusedIsNotCached'
    BY <1>3 DEF IInv, FloorsPast, CopiesTrue, AnswersAreFresh, RefusalsAreFresh,
                RefusedIsNotCached, Refused
  <1>8. FlightsTrue'
    <2> SUFFICES ASSUME NEW g \in Flights, Live(g)'
                 PROVE  /\ flight'[g].v <= ver[flight'[g].key]
                        /\ ~flight'[g].doomed => floor[flight'[g].key] <= flight'[g].v
      BY <1>3 DEF FlightsTrue
    <2>1. CASE g = f
      BY <1>1, <1>2, <1>4, <2>1 DEF Versions
    <2>2. CASE g # f
      BY <1>4, <2>2 DEF IInv, FlightsTrue, Live
    <2> QED
      BY <2>1, <2>2
  <1>9. WaitersTrue'
    <2> SUFFICES ASSUME NEW r \in Requests, req[r].waiting
                 PROVE  /\ req[r].flight \in Flights
                        /\ flight'[req[r].flight].stage # "idle"
                        /\ flight'[req[r].flight].key = req[r].key
                        /\ req[r].min <= flight'[req[r].flight].v
      BY <1>3 DEF WaitersTrue, Live
    <2>1. /\ req[r].flight \in Flights /\ Live(req[r].flight)
          /\ flight[req[r].flight].key = req[r].key
          /\ req[r].min <= flight[req[r].flight].v
          /\ req[r].min \in Versions
      BY DEF IInv, WaitersTrue, TypeOK, RequestState
    <2>2. CASE req[r].flight = f
      BY <1>1, <1>2, <1>4, <2>1, <2>2 DEF Versions
    <2>3. CASE req[r].flight # f
      BY <1>4, <2>1, <2>3 DEF Live
    <2> QED
      BY <2>2, <2>3
  <1>10. OneRenderPerKey' /\ InflightRuns'
    BY <1>3, <1>5, <1>6 DEF IInv, TypeOK, OneRenderPerKey, InflightRuns, Registered
  <1>11. PursuedIsNotRefused' /\ MissedIsNotCached'
    BY <1>3, <1>5 DEF IInv, PursuedIsNotRefused, MissedIsNotCached, Refused, Cached
  <1> QED
    BY <1>6, <1>7, <1>8, <1>9, <1>10, <1>11 DEF IInv

\* A flight settles: it is still live and registered, but it pursues its key
\* no longer, and nobody else did.
LEMMA SettledFlights ==
  ASSUME IInv, NEW f \in Flights, flight[f].stage \in {"rendering", "read"},
         NEW outcome \in {"page", "error"}, Settle(f, outcome)
  PROVE  /\ flight' \in [Flights -> FlightState]
         /\ UNCHANGED <<ver, floor, inflight, req>>
         /\ FloorsPast' /\ FlightsTrue' /\ WaitersTrue' /\ AnswersAreFresh'
         /\ OneRenderPerKey' /\ InflightRuns'
         /\ \A g \in Flights, j \in Keys :
              Pursues(g, j)' => Pursues(g, j) /\ flight'[g] = flight[g]
         /\ ~flight[f].doomed =>
              \A g \in Flights, j \in Keys : j = flight[f].key => ~Pursues(g, j)'
  <1> DEFINE new == [flight[f] EXCEPT !.stage = outcome]
  <1>1. /\ flight \in [Flights -> FlightState]
        /\ flight' = [flight EXCEPT ![f] = new]
        /\ UNCHANGED <<ver, floor, inflight, req>>
    BY DEF IInv, TypeOK, Settle
  <1>2. /\ new \in FlightState /\ new.stage = outcome
        /\ new.key = flight[f].key /\ new.v = flight[f].v
        /\ new.doomed = flight[f].doomed
    BY <1>1 DEF FlightState
  <1> HIDE DEF new
  <1>3. /\ flight' \in [Flights -> FlightState]
        /\ flight'[f] = new
        /\ \A g \in Flights : g # f => flight'[g] = flight[g]
    BY <1>1, <1>2
  <1>4. \A g \in Flights :
          /\ Live(g)' <=> Live(g)
          /\ flight'[g].key = flight[g].key
          /\ flight'[g].doomed = flight[g].doomed
          /\ flight'[g].v = flight[g].v
    BY <1>2, <1>3 DEF Live
  <1>5. FloorsPast' /\ FlightsTrue' /\ WaitersTrue' /\ AnswersAreFresh'
    BY <1>1, <1>4 DEF IInv, FloorsPast, FlightsTrue, WaitersTrue, AnswersAreFresh
  <1>6. OneRenderPerKey' /\ InflightRuns'
    BY <1>1, <1>4 DEF IInv, TypeOK, OneRenderPerKey, InflightRuns, Registered
  <1>7. \A g \in Flights, j \in Keys :
          Pursues(g, j)' => g # f /\ Pursues(g, j) /\ flight'[g] = flight[g]
    BY <1>2, <1>3 DEF Pursues
  <1>8. ASSUME ~flight[f].doomed, NEW g \in Flights, NEW j \in Keys,
               j = flight[f].key, Pursues(g, j)'
        PROVE  FALSE
    <2>1. g # f /\ Pursues(g, j)
      BY <1>7, <1>8
    <2>2. inflight[j] = g /\ inflight[j] = f
      BY <1>8, <2>1 DEF IInv, OneRenderPerKey, Registered, Pursues, Live
    <2> QED
      BY <2>1, <2>2
  <1> QED
    BY <1>1, <1>3, <1>5, <1>6, <1>7, <1>8

\* A refusal may be recorded by a flight that is not doomed, once no copy of
\* its key is left.
LEMMA IInvRefuses ==
  ASSUME IInv, NEW f \in Flights, flight[f].stage \in {"rendering", "read"},
         ~flight[f].doomed, Settle(f, "error"),
         NEW cool \in BOOLEAN,
         refused' = Recorded(flight[f].key,
                      [cool |-> cool, lapsed |-> FALSE, about |-> flight[f].v]),
         cache' \in PageCaches, IndexExact(cache'),
         Cached(cache') = Cached(cache) \ {flight[f].key},
         \A j \in Cached(cache') : cache'.pages[j] = cache.pages[j]
  PROVE  IInv'
  <1> DEFINE k == flight[f].key
             ref == [cool |-> cool, lapsed |-> FALSE, about |-> flight[f].v]
  <1>1. k \in Keys /\ ref \in Refusal /\ floor[k] <= ref.about
    BY DEF IInv, TypeOK, FlightState, Refusal, FlightsTrue, Live
  <1> HIDE DEF ref
  <1>2. /\ RefusedTyped'
        /\ \A j \in Keys :
             \/ refused'.of[j] = Absent
             \/ j = k /\ refused'.of[j] = ref
             \/ j # k /\ refused'.of[j] = refused.of[j]
    <2>1. RefusedTyped
      BY DEF IInv, TypeOK
    <2>2. refused' = Recorded(k, ref)
      BY DEF ref
    <2>3. /\ Recorded(k, ref).of \in [Keys -> Refusal \cup {Absent}]
          /\ Recorded(k, ref).older \in SUBSET (Keys \X Keys)
          /\ \A j \in Keys :
               \/ Recorded(k, ref).of[j] = Absent
               \/ j = k /\ Recorded(k, ref).of[j] = ref
               \/ j # k /\ Recorded(k, ref).of[j] = refused.of[j]
      <3> HIDE DEF k
      <3> QED
        BY <1>1, <2>1, RecordedMembers
    <2> QED
      BY <2>2, <2>3 DEF RefusedTyped
  <1>3. /\ flight' \in [Flights -> FlightState]
        /\ UNCHANGED <<ver, floor, inflight, req>>
        /\ FloorsPast' /\ FlightsTrue' /\ WaitersTrue' /\ AnswersAreFresh'
        /\ OneRenderPerKey' /\ InflightRuns'
        /\ \A g \in Flights, j \in Keys :
             Pursues(g, j)' => Pursues(g, j) /\ flight'[g] = flight[g]
        /\ \A g \in Flights, j \in Keys : j = k => ~Pursues(g, j)'
    BY SettledFlights
  <1>4. TypeOK'
    BY <1>2, <1>3 DEF IInv, TypeOK
  <1>5. CopiesTrue'
    BY <1>3 DEF IInv, CopiesTrue
  <1>6. Refused' \subseteq Refused \cup {k}
    BY <1>2 DEF Refused
  <1>7. RefusalsAreFresh'
    BY <1>1, <1>2, <1>3 DEF IInv, RefusalsAreFresh, Refused
  <1>8. PursuedIsNotRefused'
    <2> SUFFICES ASSUME NEW g \in Flights, NEW j \in Refused', Pursues(g, j)'
                 PROVE  FALSE
      BY DEF PursuedIsNotRefused
    <2> QED
      BY <1>3, <1>6 DEF IInv, PursuedIsNotRefused, Refused
  <1>9. MissedIsNotCached'
    <2> SUFFICES ASSUME NEW g \in Flights, NEW j \in Cached(cache'), Pursues(g, j)'
                 PROVE  flight'[g].background
      BY DEF MissedIsNotCached
    <2> QED
      BY <1>3 DEF IInv, MissedIsNotCached, Cached
  <1>10. RefusedIsNotCached'
    BY <1>6 DEF IInv, RefusedIsNotCached
  <1> QED
    BY <1>3, <1>4, <1>5, <1>7, <1>8, <1>9, <1>10 DEF IInv

\* A flight that settles and marks nothing.
LEMMA IInvSettlesOnly ==
  ASSUME IInv, NEW f \in Flights, flight[f].stage \in {"rendering", "read"},
         NEW outcome \in {"page", "error"}, Settle(f, outcome),
         UNCHANGED <<cache, refused>>
  PROVE  IInv'
  <1>1. /\ flight' \in [Flights -> FlightState]
        /\ UNCHANGED <<ver, floor, inflight, req>>
        /\ FloorsPast' /\ FlightsTrue' /\ WaitersTrue' /\ AnswersAreFresh'
        /\ OneRenderPerKey' /\ InflightRuns'
        /\ \A g \in Flights, j \in Keys :
             Pursues(g, j)' => Pursues(g, j) /\ flight'[g] = flight[g]
    BY SettledFlights
  <1>2. TypeOK' /\ IndexExact(cache)'
    BY <1>1 DEF IInv, TypeOK, RefusedTyped
  <1>3. CopiesTrue' /\ RefusalsAreFresh' /\ RefusedIsNotCached'
    BY <1>1 DEF IInv, CopiesTrue, RefusalsAreFresh, RefusedIsNotCached, Refused
  <1>4. PursuedIsNotRefused' /\ MissedIsNotCached'
    BY <1>1 DEF IInv, PursuedIsNotRefused, MissedIsNotCached, Refused, Cached
  <1> QED
    BY <1>1, <1>2, <1>3, <1>4 DEF IInv

\* A failed render may mark its key only where no copy serves.
LEMMA IInvRenderFails ==
  ASSUME IInv, NEW f \in Flights, RenderFails(f)
  PROVE  IInv'
  <1> DEFINE k == flight[f].key
  <1>1. /\ flight[f].stage \in {"rendering", "read"}
        /\ Settle(f, "error")
        /\ cache' = cache
    BY DEF RenderFails
  <1>2. CASE ~flight[f].background /\ Marks(f)
    <2>1. /\ ~flight[f].doomed
          /\ refused' = Recorded(k, [cool |-> TRUE, lapsed |-> FALSE,
                                     about |-> flight[f].v])
      BY <1>2 DEF RenderFails, Marks
    <2>2. k \notin Cached(cache)
      BY <1>1, <1>2, <2>1 DEF IInv, MissedIsNotCached, Pursues
    <2>3. /\ cache' \in PageCaches /\ IndexExact(cache')
          /\ Cached(cache') = Cached(cache) \ {k}
          /\ \A j \in Cached(cache') : cache'.pages[j] = cache.pages[j]
      BY <1>1, <2>2 DEF IInv, TypeOK
    <2> QED
      BY <1>1, <2>1, <2>3, IInvRefuses
  <1>3. CASE ~(~flight[f].background /\ Marks(f))
    BY <1>1, <1>3, IInvSettlesOnly DEF RenderFails
  <1> QED
    BY <1>2, <1>3

\* A refusal takes the copy with it, or a doomed one does nothing.
LEMMA IInvRenderUnstorable ==
  ASSUME IInv, NEW f \in Flights, RenderUnstorable(f)
  PROVE  IInv'
  <1> DEFINE k == flight[f].key
  <1>1. flight[f].stage \in {"rendering", "read"} /\ Settle(f, "error")
    BY DEF RenderUnstorable
  <1>2. CASE Marks(f)
    <2>1. /\ ~flight[f].doomed
          /\ refused' = Recorded(k, [cool |-> FALSE, lapsed |-> FALSE,
                                     about |-> flight[f].v])
          /\ cache' = Remove(cache, {k})
      BY <1>2 DEF RenderUnstorable, Marks, Discarded
    <2>2. cache \in PageCaches /\ IndexExact(cache)
      BY DEF IInv, TypeOK
    <2>3. /\ cache' \in PageCaches /\ IndexExact(cache')
          /\ Cached(cache') = Cached(cache) \ {k}
          /\ \A j \in Keys \ {k} : cache'.pages[j] = cache.pages[j]
      BY <2>1, <2>2, RemoveMembers, RemoveIndex
    <2>4. \A j \in Cached(cache') : cache'.pages[j] = cache.pages[j]
      BY <2>3 DEF Cached
    <2> QED
      BY <1>1, <2>1, <2>3, <2>4, IInvRefuses
  <1>3. CASE ~Marks(f)
    BY <1>1, <1>3, IInvSettlesOnly DEF RenderUnstorable
  <1> QED
    BY <1>2, <1>3

\* What is stored was read after the latest invalidation of its key.
LEMMA IInvRenderStored ==
  ASSUME IInv, NEW f \in Flights, RenderStored(f)
  PROVE  IInv'
  <1> DEFINE k == flight[f].key
             e == [body |-> flight[f].v, head |-> flight[f].v,
                   tags |-> TagsOf[k], aged |-> FALSE]
  <1>1. /\ flight[f].stage \in {"rendering", "read"} /\ Settle(f, "page")
        /\ refused' = refused
    BY DEF RenderStored
  <1>2. CASE Marks(f)
    <2>1. ~flight[f].doomed /\ cache' = Store(cache, k, e)
      BY <1>2 DEF RenderStored, Marks
    <2>2. /\ cache \in PageCaches /\ IndexExact(cache) /\ k \in Keys
          /\ flight[f].v \in Versions
          /\ floor[k] <= flight[f].v /\ flight[f].v <= ver[k]
      BY <1>1, <2>1 DEF IInv, TypeOK, FlightState, FlightsTrue, Live
    <2>3. e \in Entry /\ e.body = flight[f].v /\ e.tags = TagsOf[k]
      BY <2>2, PolicyAssumption DEF Entry, Versions
    <2> HIDE DEF e
    <2>4. /\ cache' \in PageCaches /\ IndexExact(cache')
          /\ Cached(cache') \subseteq Cached(cache) \cup {k}
          /\ \A j \in Cached(cache') :
               cache'.pages[j] = IF j = k THEN e ELSE cache.pages[j]
      BY <2>1, <2>2, <2>3, StoreIsSound
    <2>5. /\ flight' \in [Flights -> FlightState]
          /\ UNCHANGED <<ver, floor, inflight, req>>
          /\ FloorsPast' /\ FlightsTrue' /\ WaitersTrue' /\ AnswersAreFresh'
          /\ OneRenderPerKey' /\ InflightRuns'
          /\ \A g \in Flights, j \in Keys :
               Pursues(g, j)' => Pursues(g, j) /\ flight'[g] = flight[g]
          /\ \A g \in Flights, j \in Keys : j = k => ~Pursues(g, j)'
      BY <1>1, <2>1, SettledFlights
    <2>6. TypeOK'
      BY <1>1, <2>4, <2>5 DEF IInv, TypeOK, RefusedTyped
    <2>7. CopiesTrue'
      BY <2>2, <2>3, <2>4, <2>5 DEF IInv, CopiesTrue
    <2>8. k \notin Refused
      BY <1>1, <2>1 DEF IInv, PursuedIsNotRefused, Pursues
    <2>9. RefusalsAreFresh' /\ RefusedIsNotCached'
      BY <1>1, <2>4, <2>5, <2>8 DEF IInv, RefusalsAreFresh, RefusedIsNotCached, Refused
    <2>10. PursuedIsNotRefused'
      BY <1>1, <2>5 DEF IInv, PursuedIsNotRefused, Refused
    <2>11. MissedIsNotCached'
      <3> SUFFICES ASSUME NEW g \in Flights, NEW j \in Cached(cache'), Pursues(g, j)'
                   PROVE  flight'[g].background
        BY DEF MissedIsNotCached
      <3> QED
        BY <2>4, <2>5 DEF IInv, MissedIsNotCached, Cached
    <2> QED
      BY <2>4, <2>5, <2>6, <2>7, <2>9, <2>10, <2>11 DEF IInv
  <1>3. CASE ~Marks(f)
    BY <1>1, <1>3, IInvSettlesOnly DEF RenderStored
  <1> QED
    BY <1>2, <1>3
\* A flight that ends answers whoever waited for it, and leaves inflight only
\* if it is the one registered.
LEMMA IInvFlightEnds ==
  ASSUME IInv, NEW f \in Flights, FlightEnds(f)
  PROVE  IInv'
  <1>1. /\ flight \in [Flights -> FlightState]
        /\ inflight \in [Keys -> Flights \cup {NoFlight}]
        /\ req \in [Requests -> RequestState]
        /\ UNCHANGED <<ver, floor, cache, refused>>
        /\ SomeKey \in Keys
    BY BoundsAssumption DEF IInv, TypeOK, FlightEnds, SomeKey
  <1>2. /\ Parked \in FlightState
        /\ Parked.stage = "idle"
    BY <1>1, BoundsAssumption DEF Parked, FlightState, Versions
  <1>3. /\ flight' = [flight EXCEPT ![f] = Parked]
        /\ flight' \in [Flights -> FlightState]
        /\ flight'[f].stage = "idle"
        /\ \A g \in Flights : g # f => flight'[g] = flight[g]
    BY <1>1, <1>2 DEF FlightEnds
  <1>4. /\ inflight' \in [Keys -> Flights \cup {NoFlight}]
        /\ \A j \in Keys :
             inflight'[j] = IF j = flight[f].key /\ inflight[j] = f
                            THEN NoFlight ELSE inflight[j]
    BY <1>1 DEF FlightEnds, Unregistered
  <1>5. ASSUME NEW r \in Requests
        PROVE  /\ req'[r] \in RequestState
               /\ r \notin Woken(f) => req'[r] = req[r]
               /\ r \in Woken(f) => /\ ~req'[r].waiting
                                    /\ req'[r].min = req[r].min
                                    /\ req'[r].got # Own => req'[r].got = flight[f].v
    <2> DEFINE got == IF flight[f].stage = "page" THEN flight[f].v ELSE Own
    <2>1. req[r] \in RequestState /\ got \in Versions \cup {Own}
      BY <1>1 DEF FlightState
    <2>2. req'[r] = IF r \in Woken(f)
                    THEN [req[r] EXCEPT !.waiting = FALSE, !.flight = NoFlight, !.got = got]
                    ELSE req[r]
      BY DEF FlightEnds
    <2>3. got # Own => got = flight[f].v
      OBVIOUS
    <2> HIDE DEF got
    <2> QED
      BY <2>1, <2>2, <2>3 DEF RequestState
  <1>6. req' \in [Requests -> RequestState]
    <2>1. req' = [r \in Requests |-> req'[r]]
      BY DEF FlightEnds
    <2> QED
      BY <1>5, <2>1
  <1>7. TypeOK' /\ IndexExact(cache)'
    BY <1>1, <1>3, <1>4, <1>6 DEF IInv, TypeOK, RefusedTyped
  <1>8. FloorsPast' /\ CopiesTrue' /\ RefusalsAreFresh' /\ RefusedIsNotCached'
    BY <1>1 DEF IInv, FloorsPast, CopiesTrue, RefusalsAreFresh, RefusedIsNotCached, Refused
  <1>9. FlightsTrue'
    BY <1>1, <1>3 DEF IInv, FlightsTrue, Live
  <1>10. WaitersTrue'
    <2> SUFFICES ASSUME NEW r \in Requests, req'[r].waiting
                 PROVE  /\ req'[r].flight \in Flights
                        /\ flight'[req'[r].flight].stage # "idle"
                        /\ flight'[req'[r].flight].key = req'[r].key
                        /\ req'[r].min <= flight'[req'[r].flight].v
      BY DEF WaitersTrue, Live
    <2>1. r \notin Woken(f) /\ req'[r] = req[r]
      BY <1>5
    <2>2. req[r].flight # f
      BY <2>1 DEF Woken
    <2> QED
      BY <1>3, <2>1, <2>2 DEF IInv, WaitersTrue, Live
  <1>11. AnswersAreFresh'
    <2> SUFFICES ASSUME NEW r \in Requests, ~req'[r].waiting, req'[r].got # Own
                 PROVE  req'[r].got >= req'[r].min
      BY DEF AnswersAreFresh
    <2>1. CASE r \in Woken(f)
      <3>1. req[r].min <= flight[f].v
        BY <2>1 DEF IInv, WaitersTrue, Woken
      <3>2. req[r].min \in Versions /\ flight[f].v \in Versions
        BY <1>1 DEF FlightState, RequestState
      <3> QED
        BY <1>5, <2>1, <3>1, <3>2 DEF Versions
    <2>2. CASE r \notin Woken(f)
      BY <1>5, <2>2 DEF IInv, AnswersAreFresh
    <2> QED
      BY <2>1, <2>2
  <1>12. OneRenderPerKey'
    <2> SUFFICES ASSUME NEW g \in Flights, Live(g)', ~flight'[g].doomed
                 PROVE  inflight'[flight'[g].key] = g
      BY DEF OneRenderPerKey, Registered
    <2>1. g # f /\ flight'[g] = flight[g] /\ Live(g) /\ flight[g].key \in Keys
      BY <1>1, <1>3 DEF Live, FlightState
    <2>2. inflight[flight[g].key] = g
      BY <2>1 DEF IInv, OneRenderPerKey, Registered
    <2> QED
      BY <1>4, <2>1, <2>2
  <1>13. InflightRuns'
    <2> SUFFICES ASSUME NEW j \in Keys, inflight'[j] # NoFlight
                 PROVE  /\ flight'[inflight'[j]].stage # "idle"
                        /\ flight'[inflight'[j]].key = j
      BY DEF InflightRuns, Live
    <2>1. inflight'[j] = inflight[j] /\ inflight[j] \in Flights
      BY <1>1, <1>4
    <2>2. Live(inflight[j]) /\ flight[inflight[j]].key = j
      BY <2>1 DEF IInv, InflightRuns
    <2>3. inflight[j] # f
      BY <1>4, <2>1, <2>2
    <2> QED
      BY <1>3, <2>1, <2>2, <2>3 DEF Live
  <1>14. PursuedIsNotRefused' /\ MissedIsNotCached'
    <2>1. \A g \in Flights, j \in Keys :
            Pursues(g, j)' => Pursues(g, j) /\ flight'[g] = flight[g]
      BY <1>3 DEF Pursues
    <2> QED
      BY <1>1, <2>1 DEF IInv, PursuedIsNotRefused, MissedIsNotCached, Refused, Cached
  <1> QED
    BY <1>7, <1>8, <1>9, <1>10, <1>11, <1>12, <1>13, <1>14 DEF IInv

-----------------------------------------------------------------------------
(* Invalidations.                                                          *)

\* What is left after an invalidation was not named by it: every copy that
\* was, is dropped; every render that was, is found in inflight and doomed.
LEMMA IInvInvalidate ==
  ASSUME IInv, NEW named \in SUBSET Keys, NEW dropped \in SUBSET Keys,
         named \cap Cached(cache) \subseteq dropped,
         Invalidate(named, dropped)
  PROVE  IInv'
  <1>1. /\ flight \in [Flights -> FlightState]
        /\ floor \in [Keys -> Versions] /\ ver \in [Keys -> Versions]
        /\ cache \in PageCaches /\ IndexExact(cache)
        /\ RefusedTyped
        /\ UNCHANGED <<ver, inflight, req>>
    BY DEF IInv, TypeOK, Invalidate
  <1>2. /\ cache' \in PageCaches /\ IndexExact(cache')
        /\ Cached(cache') = Cached(cache) \ dropped
        /\ \A j \in Cached(cache') : cache'.pages[j] = cache.pages[j]
    <2>1. cache' = Remove(cache, dropped)
      BY DEF Invalidate
    <2>2. \A j \in Keys \ dropped : cache'.pages[j] = cache.pages[j]
      BY <1>1, <2>1, RemoveMembers
    <2> QED
      BY <1>1, <2>1, <2>2, RemoveMembers, RemoveIndex DEF Cached
  <1>3. /\ RefusedTyped'
        /\ Refused' = Refused \ named
        /\ \A j \in Refused' : refused'.of[j] = refused.of[j]
    <2>1. /\ refused'.of \in [Keys -> Refusal \cup {Absent}]
          /\ refused'.older \in SUBSET (Keys \X Keys)
          /\ \A j \in Keys :
               refused'.of[j] = IF j \in named THEN Absent ELSE refused.of[j]
      BY <1>1, LiftedMembers DEF Invalidate
    <2> QED
      BY <2>1 DEF RefusedTyped, Refused
  <1>4. /\ floor' \in [Keys -> Versions]
        /\ \A j \in Keys : floor'[j] = IF j \in named THEN ver[j] ELSE floor[j]
    BY <1>1 DEF Invalidate
  <1>5. ASSUME NEW g \in Flights
        PROVE  /\ flight'[g] \in FlightState
               /\ flight'[g].stage = flight[g].stage /\ flight'[g].key = flight[g].key
               /\ flight'[g].v = flight[g].v
               /\ flight'[g].background = flight[g].background
               /\ ~flight'[g].doomed =>
                    /\ ~flight[g].doomed
                    /\ Live(g) /\ Registered(g) => flight[g].key \notin named
    <2>1. flight'[g] = IF Live(g) /\ Registered(g) /\ flight[g].key \in named
                       THEN [flight[g] EXCEPT !.doomed = TRUE] ELSE flight[g]
      BY DEF Invalidate, Doomed
    <2>2. flight[g] \in FlightState
      BY <1>1
    <2> QED
      BY <2>1, <2>2 DEF FlightState
  <1>6. flight' \in [Flights -> FlightState]
    <2>1. flight' = [g \in Flights |-> flight'[g]]
      BY DEF Invalidate, Doomed
    <2> QED
      BY <1>5, <2>1
  <1>7. TypeOK'
    BY <1>1, <1>2, <1>3, <1>4, <1>6 DEF IInv, TypeOK
  <1>8. FloorsPast'
    BY <1>1, <1>4 DEF IInv, FloorsPast, Versions
  <1>9. CopiesTrue'
    BY <1>1, <1>2, <1>4 DEF IInv, CopiesTrue, Cached
  <1>10. FlightsTrue'
    <2> SUFFICES ASSUME NEW g \in Flights, flight'[g].stage # "idle"
                 PROVE  /\ flight'[g].v <= ver'[flight'[g].key]
                        /\ ~flight'[g].doomed => floor'[flight'[g].key] <= flight'[g].v
      BY DEF FlightsTrue, Live
    <2>1. Live(g) /\ flight[g].key \in Keys
      BY <1>1, <1>5 DEF Live, FlightState
    <2>2. flight'[g].v <= ver'[flight'[g].key]
      BY <1>1, <1>5, <2>1 DEF IInv, FlightsTrue
    <2>3. ASSUME ~flight'[g].doomed PROVE floor'[flight'[g].key] <= flight'[g].v
      <3>1. ~flight[g].doomed /\ Registered(g)
        BY <1>5, <2>1, <2>3 DEF IInv, OneRenderPerKey
      <3>2. flight[g].key \notin named
        BY <1>5, <2>1, <2>3, <3>1
      <3> QED
        BY <1>4, <1>5, <2>1, <3>1, <3>2 DEF IInv, FlightsTrue
    <2> QED
      BY <2>2, <2>3
  <1>11. WaitersTrue' /\ AnswersAreFresh'
    BY <1>1, <1>5 DEF IInv, WaitersTrue, AnswersAreFresh, Live
  <1>12. OneRenderPerKey' /\ InflightRuns'
    BY <1>1, <1>5 DEF IInv, TypeOK, OneRenderPerKey, InflightRuns, Live, Registered
  <1>13. RefusalsAreFresh' /\ RefusedIsNotCached'
    BY <1>2, <1>3, <1>4 DEF IInv, RefusalsAreFresh, RefusedIsNotCached, Refused
  <1>14. \A g \in Flights, j \in Keys :
           Pursues(g, j)' => Pursues(g, j) /\ flight'[g].background = flight[g].background
    BY <1>5 DEF Pursues
  <1>15. PursuedIsNotRefused'
    <2> SUFFICES ASSUME NEW g \in Flights, NEW j \in Refused', Pursues(g, j)'
                 PROVE  FALSE
      BY DEF PursuedIsNotRefused
    <2> QED
      BY <1>3, <1>14 DEF IInv, PursuedIsNotRefused, Refused
  <1>16. MissedIsNotCached'
    <2> SUFFICES ASSUME NEW g \in Flights, NEW j \in Cached(cache'), Pursues(g, j)'
                 PROVE  flight'[g].background
      BY DEF MissedIsNotCached
    <2> QED
      BY <1>2, <1>14 DEF IInv, MissedIsNotCached, Cached
  <1> QED
    BY <1>2, <1>7, <1>8, <1>9, <1>10, <1>11, <1>12, <1>13, <1>15, <1>16 DEF IInv

\* A tag's copies are found through the index, and the index is exact.
LEMMA TaggedAreBearing ==
  ASSUME IInv, NEW t \in Tags
  PROVE  Tagged(cache, t) = Bearing(t) \cap Cached(cache)
  <1>1. /\ Tagged(cache, t) \subseteq Keys
        /\ \A k \in Keys : k \in Tagged(cache, t) <=> Carries(cache, k, t)
    BY DEF IInv, TypeOK, PageCaches, IndexExact, Tagged
  <1>2. \A k \in Keys : Carries(cache, k, t) <=> k \in Bearing(t) \cap Cached(cache)
    BY DEF IInv, CopiesTrue, Carries, Bearing, Cached
  <1> QED
    BY <1>1, <1>2 DEF Cached

-----------------------------------------------------------------------------
(* The theorems.                                                           *)

\* One case for each action.
LEMMA IInvStep == IInv /\ [Next]_vars => IInv'
  <1> SUFFICES ASSUME IInv, [Next]_vars PROVE IInv'
    OBVIOUS
  <1>1. CASE \E k \in Keys : Write(k) \/ Ages(k) \/ RefusalLapses(k)
    BY <1>1, IInvWrite, IInvAges, IInvRefusalLapses
  <1>2. CASE \E r \in Requests, k \in Keys : Arrive(r, k)
    BY <1>2, IInvArrive
  <1>3. CASE \E f \in Flights : FlightStep(f)
    <2>1. PICK f \in Flights : FlightStep(f)
      BY <1>3
    <2>2. CASE RenderPanics(f)
      <3>1. "error" \in {"page", "error"}
        OBVIOUS
      <3> QED
        BY <2>2, <3>1, IInvSettlesOnly DEF RenderPanics
    <2> QED
      BY <2>1, <2>2, IInvRenderReads, IInvRenderFails, IInvRenderUnstorable,
         IInvRenderStored, IInvFlightEnds DEF FlightStep
  <1>4. ASSUME NEW p \in Paths, InvalidatePath(p) PROVE IInv'
    <2>1. Names[p] \in SUBSET Keys
      BY PolicyAssumption
    <2>2. /\ Matching(cache, Names[p]) \in SUBSET Keys
          /\ Names[p] \cap Cached(cache) \subseteq Matching(cache, Names[p])
      BY DEF Matching, Cached
    <2> QED
      BY <1>4, <2>1, <2>2, IInvInvalidate DEF InvalidatePath
  <1>5. ASSUME NEW t \in Tags, InvalidateTag(t) PROVE IInv'
    <2>1. Bearing(t) \in SUBSET Keys /\ Tagged(cache, t) \in SUBSET Keys
      BY DEF Bearing, IInv, TypeOK, PageCaches, Tagged
    <2>2. Bearing(t) \cap Cached(cache) \subseteq Tagged(cache, t)
      BY TaggedAreBearing
    <2> QED
      BY <1>5, <2>1, <2>2, IInvInvalidate DEF InvalidateTag
  <1>6. CASE UNCHANGED vars
    BY <1>6 DEF vars, IInv, TypeOK, RefusedTyped, FloorsPast, CopiesTrue, FlightsTrue,
                WaitersTrue, AnswersAreFresh, OneRenderPerKey, InflightRuns,
                RefusalsAreFresh, PursuedIsNotRefused, MissedIsNotCached,
                RefusedIsNotCached, Refused, Pursues, Live, Registered
  <1> QED
    BY <1>1, <1>2, <1>3, <1>4, <1>5, <1>6 DEF Next

\* The inductive invariant.
THEOREM IsrInvariant == Spec => []IInv
  BY IInvInit, IInvStep, PTL DEF Spec

\* The variables keep their types.
THEOREM IsrIsTyped == Spec => []TypeOK
  <1>1. IInv => TypeOK
    BY DEF IInv
  <1> QED
    BY IsrInvariant, <1>1, PTL

\* No invalidated copy rises again.
THEOREM IsrCopiesAreFresh == Spec => []CopiesAreFresh
  <1>1. IInv => CopiesAreFresh
    <2> SUFFICES ASSUME IInv, NEW k \in Cached(cache)
                 PROVE  cache.pages[k].body >= floor[k]
      BY DEF CopiesAreFresh
    <2>1. cache.pages[k].body \in Nat /\ floor[k] \in Nat
      BY BoundsAssumption DEF IInv, TypeOK, PageCaches, Entry, Cached, Versions
    <2> QED
      BY <2>1 DEF IInv, CopiesTrue
  <1> QED
    BY IsrInvariant, <1>1, PTL

\* No request is answered from data declared gone before it arrived.
THEOREM IsrAnswersAreFresh == Spec => []AnswersAreFresh
  <1>1. IInv => AnswersAreFresh
    BY DEF IInv
  <1> QED
    BY IsrInvariant, <1>1, PTL

\* Of the renders of a key that may be stored there is one, and it is found.
THEOREM IsrOneRenderPerKey == Spec => [](OneRenderPerKey /\ InflightRuns)
  <1>1. IInv => OneRenderPerKey /\ InflightRuns
    BY DEF IInv
  <1> QED
    BY IsrInvariant, <1>1, PTL

\* Nobody waits on a render that is over, or on another page's.
THEOREM IsrWaitersHaveAFlight == Spec => []WaitersHaveAFlight
  <1>1. IInv => WaitersHaveAFlight
    BY MarksAssumption DEF IInv, WaitersTrue, WaitersHaveAFlight
  <1> QED
    BY IsrInvariant, <1>1, PTL

\* A refusal never outlives an invalidation, and never hides behind a copy.
THEOREM IsrRefusals == Spec => [](RefusalsAreFresh /\ RefusedIsNotCached)
  <1>1. IInv => RefusalsAreFresh /\ RefusedIsNotCached
    BY DEF IInv
  <1> QED
    BY IsrInvariant, <1>1, PTL

\* RevalidateTag finds every copy of the tag's pages, and no other.
THEOREM IsrTagsFindCopies == Spec => []TagsFindCopies
  <1>1. IInv => TagsFindCopies
    BY TaggedAreBearing DEF TagsFindCopies
  <1> QED
    BY IsrInvariant, <1>1, PTL

-----------------------------------------------------------------------------
(* Isr implements SharedPages.                                             *)

\* Nobody waits and nothing was declared gone.
LEMMA PromiseInit == Init => Promise!Init
  <1> SUFFICES ASSUME Init PROVE Promise!Init
    OBVIOUS
  <1>1. SomeKey \in Keys
    BY BoundsAssumption DEF SomeKey
  <1>2. Asked = [r \in Requests |->
                   [waiting |-> FALSE, key |-> SomeKey, min |-> 0, got |-> Own]]
    BY DEF Init, Asked
  <1> QED
    BY <1>1, <1>2 DEF Init, Promise!Init

\* What a request asked follows what it is: a step that changes one request
\* changes what that one asked.
LEMMA AskedFollows ==
  ASSUME NEW r \in Requests, NEW w, NEW j, NEW m, NEW f, NEW g,
         req'[r] = [waiting |-> w, key |-> j, min |-> m, flight |-> f, got |-> g],
         \A s \in Requests \ {r} : req'[s] = req[s]
  PROVE  Asked' = [Asked EXCEPT ![r] =
                     [waiting |-> w, key |-> j, min |-> m, got |-> g]]
  <1> DEFINE rec == [waiting |-> w, key |-> j, min |-> m, got |-> g]
  <1>1. Asked'[r] = rec
    BY DEF Asked
  <1>2. ASSUME NEW s \in Requests \ {r} PROVE Asked'[s] = Asked[s]
    BY <1>2 DEF Asked
  <1>3. /\ Asked' = [s \in Requests |-> Asked'[s]]
        /\ Asked = [s \in Requests |-> Asked[s]]
    BY DEF Asked
  <1> HIDE DEF rec
  <1>4. [Asked EXCEPT ![r] = rec] = [s \in Requests |-> IF s = r THEN rec ELSE Asked[s]]
    BY <1>3
  <1> QED
    BY <1>1, <1>2, <1>3, <1>4 DEF rec

\* A request that gets a shared copy, or renders for itself, asks and is
\* answered in one step.
LEMMA PromiseAnswer ==
  ASSUME IInv, NEW r \in Requests, NEW k \in Keys, ~req[r].waiting,
         NEW got, got = Own \/ (got \in Versions /\ floor[k] <= got /\ got <= ver[k]),
         Answer(r, k, got), UNCHANGED <<ver, floor>>
  PROVE  Promise!AskAndAnswer(r, k)
  <1>1. req \in [Requests -> RequestState] /\ floor[k] \in Versions /\ ver[k] \in Versions
    BY DEF IInv, TypeOK
  <1>2. got \in Promise!Shareable(k, floor[k])
    BY <1>1 DEF Promise!Shareable, Versions
  <1>3. Asked' = [Asked EXCEPT ![r] =
                    [waiting |-> FALSE, key |-> k, min |-> floor[k], got |-> got]]
    <2>1. /\ req'[r] = [waiting |-> FALSE, key |-> k, min |-> floor[k],
                        flight |-> NoFlight, got |-> got]
          /\ \A s \in Requests \ {r} : req'[s] = req[s]
      BY <1>1 DEF Answer
    <2> QED
      BY <2>1, AskedFollows
  <1>4. ~Asked[r].waiting
    BY DEF Asked
  <1> QED
    BY <1>2, <1>3, <1>4 DEF Promise!AskAndAnswer

\* An arrival is one of the abstract requests' first steps.
LEMMA PromiseArrive ==
  ASSUME IInv, NEW r \in Requests, NEW k \in Keys, Arrive(r, k)
  PROVE  Promise!Ask(r, k) \/ Promise!AskAndAnswer(r, k)
  <1>1. ~req[r].waiting /\ UNCHANGED <<ver, floor>>
    BY DEF Arrive, ArriveRefused, ArriveAllowed
  <1>2. CASE ArriveRefused(r, k)
    BY <1>1, <1>2, PromiseAnswer DEF ArriveRefused
  <1>3. CASE ArriveHit(r, k) \/ ArriveStale(r, k)
    <2>1. k \in Cached(cache) /\ Answer(r, k, cache.pages[k].body)
      BY <1>3 DEF ArriveHit, ArriveStale
    <2>2. /\ cache.pages[k].body \in Nat /\ ver[k] \in Versions
          /\ floor[k] <= cache.pages[k].body /\ cache.pages[k].body <= ver[k]
      BY <2>1 DEF IInv, TypeOK, PageCaches, Cached, CopiesTrue, Entry
    <2>3. cache.pages[k].body \in Versions
      BY <2>2, BoundsAssumption DEF Versions
    <2> QED
      BY <1>1, <2>1, <2>2, <2>3, PromiseAnswer
  <1>4. CASE ArriveMiss(r, k)
    <2>1. PICK f \in Flights : Wait(r, k, f)
      BY <1>4 DEF ArriveMiss
    <2>2. /\ req'[r] = [waiting |-> TRUE, key |-> k, min |-> floor[k],
                        flight |-> f, got |-> Own]
          /\ \A s \in Requests \ {r} : req'[s] = req[s]
      BY <2>1 DEF Wait, IInv, TypeOK
    <2>3. Asked' = [Asked EXCEPT ![r] =
                      [waiting |-> TRUE, key |-> k, min |-> floor[k], got |-> Own]]
      BY <2>2, AskedFollows
    <2>4. ~Asked[r].waiting
      BY <1>1 DEF Asked
    <2> QED
      BY <1>1, <2>3, <2>4 DEF Promise!Ask
  <1> QED
    BY <1>2, <1>3, <1>4 DEF Arrive, ArriveAllowed

\* The end of a flight answers its waiters together, with what it read or
\* with a render of their own.
LEMMA PromiseFlightEnds ==
  ASSUME IInv, NEW f \in Flights, FlightEnds(f)
  PROVE  Promise!Next
  <1> DEFINE got == IF flight[f].stage = "page" THEN flight[f].v ELSE Own
             k == flight[f].key
             answered == Woken(f)
  <1>1. /\ flight[f] \in FlightState /\ k \in Keys /\ Live(f)
        /\ ver[k] \in Versions
        /\ req \in [Requests -> RequestState]
        /\ UNCHANGED <<ver, floor>>
    BY DEF IInv, TypeOK, FlightState, FlightEnds, Settled, Live
  <1>2. got \in {Own} \cup (0 .. MaxVersion)
    BY <1>1 DEF FlightState, Versions
  <1>3. answered \in SUBSET Requests
    BY DEF Woken
  <1>4. ASSUME NEW r \in answered
        PROVE  /\ Asked[r].waiting /\ Asked[r].key = k
               /\ got \in Promise!Shareable(k, Asked[r].min)
    <2>1. /\ r \in Requests /\ req[r].waiting /\ req[r].flight = f
          /\ req[r].min \in Versions
      BY <1>1, <1>4 DEF Woken, RequestState
    <2>2. req[r].key = k /\ req[r].min <= flight[f].v /\ flight[f].v <= ver[k]
      BY <1>1, <2>1 DEF IInv, WaitersTrue, FlightsTrue
    <2>3. /\ Asked[r].waiting = req[r].waiting /\ Asked[r].key = req[r].key
          /\ Asked[r].min = req[r].min
      BY <2>1 DEF Asked
    <2>4. got \in {Own} \cup (req[r].min .. ver[k])
      BY <1>1, <2>1, <2>2 DEF FlightState, Versions
    <2> QED
      BY <2>1, <2>2, <2>3, <2>4 DEF Promise!Shareable
  <1>5. Asked' = [r \in Requests |->
                    IF r \in answered
                    THEN [waiting |-> FALSE, key |-> k, min |-> Asked[r].min,
                          got |-> got]
                    ELSE Asked[r]]
    <2>1. ASSUME NEW r \in Requests
          PROVE  Asked'[r] = IF r \in answered
                             THEN [waiting |-> FALSE, key |-> k,
                                   min |-> Asked[r].min, got |-> got]
                             ELSE Asked[r]
      <3>1. req'[r] = IF r \in answered
                      THEN [req[r] EXCEPT !.waiting = FALSE, !.flight = NoFlight,
                              !.got = got]
                      ELSE req[r]
        BY DEF FlightEnds
      <3>2. Asked'[r] = [waiting |-> req'[r].waiting, key |-> req'[r].key,
                         min |-> req'[r].min, got |-> req'[r].got]
        BY DEF Asked
      <3>3. Asked[r] = [waiting |-> req[r].waiting, key |-> req[r].key,
                        min |-> req[r].min, got |-> req[r].got]
        BY DEF Asked
      <3>4. req[r] \in RequestState
        BY <1>1
      <3> HIDE DEF got, k, answered
      <3>5. CASE r \in answered
        <4>1. /\ req'[r].waiting = FALSE /\ req'[r].got = got
              /\ req'[r].key = req[r].key /\ req'[r].min = req[r].min
          BY <3>1, <3>4, <3>5 DEF RequestState
        <4>2. req[r].key = k
          BY <1>4, <3>3, <3>5
        <4>3. Asked[r].min = req[r].min
          BY <3>3
        <4>4. Asked'[r] = [waiting |-> FALSE, key |-> k,
                           min |-> Asked[r].min, got |-> got]
          BY <3>2, <4>1, <4>2, <4>3
        <4> QED
          BY <3>5, <4>4
      <3>6. CASE r \notin answered
        BY <3>1, <3>2, <3>3, <3>6
      <3> QED
        BY <3>5, <3>6
    <2>2. Asked' = [r \in Requests |-> Asked'[r]]
      BY DEF Asked
    <2> HIDE DEF got, k, answered
    <2> QED
      BY <2>1, <2>2
  <1> HIDE DEF got, k, answered
  <1>6. Promise!AnswerTogether(answered, k, got)
    BY <1>1, <1>4, <1>5 DEF Promise!AnswerTogether
  <1> QED
    BY <1>1, <1>2, <1>3, <1>6 DEF Promise!Next

\* Every step of Isr is a step of SharedPages, or hidden from it.
LEMMA PromiseStep == IInv /\ [Next]_vars => [Promise!Next]_(Promise!vars)
  <1> SUFFICES ASSUME IInv, [Next]_vars
               PROVE  Promise!Next \/ UNCHANGED <<ver, floor, Asked>>
    BY DEF Promise!vars
  <1>1. ASSUME UNCHANGED <<ver, floor, req>> PROVE UNCHANGED <<ver, floor, Asked>>
    BY <1>1 DEF Asked
  <1>2. ASSUME NEW k \in Keys, Write(k) PROVE Promise!Next
    <2>1. Promise!Write(k)
      BY <1>2 DEF Write, Promise!Write, Asked
    <2> QED
      BY <2>1 DEF Promise!Next
  <1>3. CASE \E k \in Keys : Ages(k) \/ RefusalLapses(k)
    BY <1>1, <1>3 DEF Ages, RefusalLapses
  <1>4. CASE \E r \in Requests, k \in Keys : Arrive(r, k)
    BY <1>4, PromiseArrive DEF Promise!Next
  <1>5. CASE \E f \in Flights : FlightStep(f)
    <2>1. PICK f \in Flights : FlightStep(f)
      BY <1>5
    <2>2. CASE FlightEnds(f)
      BY <2>2, PromiseFlightEnds
    <2>3. CASE ~FlightEnds(f)
      BY <1>1, <2>1, <2>3 DEF FlightStep, RenderReads, RenderFails, RenderPanics,
                              RenderUnstorable, RenderStored, Settle
    <2> QED
      BY <2>2, <2>3
  <1>6. ASSUME NEW named \in SUBSET Keys, NEW dropped, Invalidate(named, dropped)
        PROVE  Promise!Next
    <2>1. Promise!Invalidate(named)
      BY <1>6 DEF Invalidate, Promise!Invalidate, Asked
    <2> QED
      BY <2>1 DEF Promise!Next
  <1>7. CASE \E p \in Paths : InvalidatePath(p)
    BY <1>6, <1>7, PolicyAssumption DEF InvalidatePath
  <1>8. CASE \E t \in Tags : InvalidateTag(t)
    BY <1>6, <1>8 DEF InvalidateTag, Bearing
  <1>9. CASE UNCHANGED vars
    BY <1>1, <1>9 DEF vars
  <1> QED
    BY <1>2, <1>3, <1>4, <1>5, <1>7, <1>8, <1>9 DEF Next

\* The cached pages implement what SharedPages promises.
THEOREM IsrImplementsSharedPages == Spec => KeepsPromise
  <1>1. Init => Promise!Init
    BY PromiseInit
  <1>2. IInv /\ [Next]_vars => [Promise!Next]_(Promise!vars)
    BY PromiseStep
  <1> QED
    BY <1>1, <1>2, IsrInvariant, PTL DEF Spec, KeepsPromise, Promise!Spec

-----------------------------------------------------------------------------
(* The inductive invariants, one over the other.                           *)

\* No file and no save is ahead of the data.
FilesPast == \A k \in Keys : disk[k].html # NoFile => disk[k].html <= ver[k]

SavesPast ==
  \A s \in Saves :
    save[s].stage # "idle" =>
      /\ save[s].v <= ver[save[s].key]
      /\ 0 < save[s].gen /\ save[s].gen <= lastGen

GensPast == \A k \in Keys : saveGen[k] <= lastGen

\* who does not remove has nothing to remove
DrainsRest == \A d \in Drains : drain[d].stage # "removing" => drain[d].list = {}

DiskBase ==
  /\ DTypeOK
  /\ DrainsRest
  /\ IInv
  /\ OrderLinear(cache)
  /\ WholeCopies
  /\ FilesPast
  /\ SavesPast
  /\ GensPast

\* a render that has read, and may still be stored
Read(f) == flight[f].stage = "read" /\ ~flight[f].doomed

\* What a render is about to store is no older than the copy it replaces.
ReadsAhead ==
  \A f \in Flights :
    \A k \in Cached(cache) :
      Read(f) /\ flight[f].key = k => cache.pages[k].body <= flight[f].v

\* A save that may land is of the copy its key has.
SavesCurrent ==
  \A s \in Saves :
    save[s].stage # "idle" /\ Current(s) =>
      /\ save[s].key \in Cached(cache)
      /\ cache.pages[save[s].key].body = save[s].v

DiskFollows ==
  /\ DiskBase
  /\ PairsFollowMemory
  /\ ReadsAhead
  /\ SavesCurrent

-----------------------------------------------------------------------------
(* What a step of the memory is to the files.                              *)

\* A step that stores nothing: the copies that stay are the copies that were.
Shrinks ==
  /\ Cached(cache') \subseteq Cached(cache)
  /\ \A k \in Cached(cache') :
       /\ cache'.pages[k].body = cache.pages[k].body
       /\ cache'.pages[k].head = cache.pages[k].head

\* A read that may be stored is an earlier one, or is of the data as they are.
ReadsMove ==
  \A f \in Flights :
    Read(f)' =>
      /\ flight'[f].key \in Keys
      /\ \/ /\ Read(f)
            /\ flight'[f].key = flight[f].key
            /\ flight'[f].v = flight[f].v
         \/ flight'[f].v = ver[flight'[f].key]

\* A goroutine that goes on to drain promises what the step invalidated.
OwesAtMost ==
  \E upto \in [Keys -> Versions] :
    /\ Owes(upto)
    /\ \A k \in Keys :
         upto[k] = 0 \/ (upto[k] <= floor'[k] /\ k \notin Cached(cache'))

MemoryStep ==
  /\ Next
  /\ Shrinks
  /\ \A k \in Keys : floor'[k] = floor[k] \/ k \notin Cached(cache')
  /\ saveGen' = Forgotten
  /\ Queue
  /\ UNCHANGED <<disk, lastGen, save, promised, lent>>
  /\ UNCHANGED drain \/ OwesAtMost

\* The data are only written.
LEMMA VersionsGrow ==
  ASSUME IInv, [Next]_vars
  PROVE  \A k \in Keys : ver[k] \in Nat /\ ver'[k] \in Nat /\ ver[k] <= ver'[k]
  <1>1. ver \in [Keys -> Versions] /\ ver' \in [Keys -> Versions] /\ Versions \subseteq Nat
    BY IInvStep, BoundsAssumption DEF IInv, TypeOK, Versions
  <1>2. UNCHANGED ver \/ \E j \in Keys : ver' = [ver EXCEPT ![j] = @ + 1]
    BY DEF Next, vars, Write, Ages, RefusalLapses, Arrive, ArriveRefused, ArriveAllowed,
           FlightStep, RenderReads, RenderFails, RenderPanics, RenderUnstorable, RenderStored,
           FlightEnds, Settle, InvalidatePath, InvalidateTag, Invalidate
  <1>3. ASSUME NEW k \in Keys PROVE ver[k] \in Nat /\ ver'[k] \in Nat /\ ver[k] <= ver'[k]
    <2>1. ver[k] \in Nat /\ ver'[k] \in Nat
      BY <1>1
    <2>2. ver'[k] = ver[k] \/ ver'[k] = ver[k] + 1
      BY <1>1, <1>2
    <2> QED
      BY <2>1, <2>2
  <1> QED
    BY <1>3

\* A read is made by RenderReads, and by nothing else.
LEMMA ReadsOfSteps ==
  ASSUME IInv, Next PROVE ReadsMove
  <1> SUFFICES ASSUME NEW f \in Flights, Read(f)'
               PROVE  /\ flight'[f].key \in Keys
                      /\ \/ /\ Read(f)
                            /\ flight'[f].key = flight[f].key
                            /\ flight'[f].v = flight[f].v
                         \/ flight'[f].v = ver[flight'[f].key]
    BY DEF ReadsMove
  <1>0. /\ flight \in [Flights -> FlightState] /\ flight'[f] \in FlightState
        /\ flight'[f].key \in Keys
    <2>1. flight \in [Flights -> FlightState] /\ flight' \in [Flights -> FlightState]
      BY IInvStep DEF IInv, TypeOK
    <2>2. flight'[f] \in FlightState
      BY <2>1
    <2> QED
      BY <2>1, <2>2 DEF FlightState
  <1> USE <1>0 DEF Read
  <1>1. CASE \E k \in Keys : Write(k) \/ Ages(k) \/ RefusalLapses(k)
    BY <1>1 DEF Write, Ages, RefusalLapses
  <1>2. ASSUME NEW r \in Requests, NEW k \in Keys, Arrive(r, k)
        PROVE  Read(f) /\ flight'[f].key = flight[f].key /\ flight'[f].v = flight[f].v
    <2>1. \/ UNCHANGED flight
          \/ \E g \in Flights, b \in BOOLEAN : Launch(k, b, g)
      BY <1>2 DEF Arrive, ArriveRefused, ArriveAllowed, ArriveHit, ArriveStale, ArriveMiss,
                  Regenerate
    <2>2. ASSUME NEW g \in Flights, NEW b \in BOOLEAN, Launch(k, b, g)
          PROVE  g # f
      <3>1. flight'[g].stage = "rendering"
        BY <2>2 DEF Launch
      <3> QED
        BY <3>1
    <2> QED
      BY <2>1, <2>2 DEF Launch
  <1>3. ASSUME NEW g \in Flights, FlightStep(g)
        PROVE  \/ Read(f) /\ flight'[f].key = flight[f].key /\ flight'[f].v = flight[f].v
               \/ flight'[f].v = ver[flight'[f].key]
    <2>1. CASE RenderReads(g)
      <3>1. flight' = [flight EXCEPT ![g].stage = "read", ![g].v = ver[flight[g].key]]
        BY <2>1 DEF RenderReads
      <3>2. CASE f = g
        <4>1. flight'[f].key = flight[f].key /\ flight'[f].v = ver[flight[f].key]
          BY <3>1, <3>2 DEF FlightState
        <4> QED
          BY <4>1
      <3> QED
        BY <3>1, <3>2
    <2>2. CASE \E outcome \in {"page", "error"} : Settle(g, outcome)
      <3>1. PICK outcome \in {"page", "error"} : Settle(g, outcome)
        BY <2>2
      <3>2. flight' = [flight EXCEPT ![g].stage = outcome]
        BY <3>1 DEF Settle
      <3>3. f # g
        <4>1. flight'[g].stage = outcome
          BY <3>2 DEF FlightState
        <4> QED
          BY <4>1
      <3> QED
        BY <3>2, <3>3
    <2>3. CASE FlightEnds(g)
      BY <2>3 DEF FlightEnds, Parked
    <2>4. RenderReads(g) \/ FlightEnds(g) \/ \E outcome \in {"page", "error"} : Settle(g, outcome)
      BY <1>3 DEF FlightStep, RenderFails, RenderPanics, RenderUnstorable, RenderStored
    <2> QED
      BY <2>1, <2>2, <2>3, <2>4
  <1>4. ASSUME NEW named, flight' = Doomed(named)
        PROVE  Read(f) /\ flight'[f].key = flight[f].key /\ flight'[f].v = flight[f].v
    <2>1. flight'[f] = flight[f] \/ flight'[f] = [flight[f] EXCEPT !.doomed = TRUE]
      BY <1>4 DEF Doomed
    <2> QED
      BY <2>1 DEF FlightState
  <1>5. (\E p \in Paths : InvalidatePath(p)) \/ (\E t \in Tags : InvalidateTag(t)) =>
          \E named \in SUBSET Keys : flight' = Doomed(named)
    BY PolicyAssumption DEF InvalidatePath, InvalidateTag, Invalidate, Bearing
  <1> QED
    BY <1>1, <1>2, <1>3, <1>4, <1>5 DEF Next

-----------------------------------------------------------------------------
(* The copies, over a step that stores nothing.                            *)

\* What a removal, a use or an ageing leaves of the copies.
LEMMA RemovalShrinks ==
  ASSUME IInv, OrderLinear(cache), NEW gone, cache' = Remove(cache, gone)
  PROVE  Shrinks /\ OrderLinear(cache')
  <1>1. cache \in PageCaches
    BY DEF IInv, TypeOK
  <1>2. /\ Cached(cache') = Cached(cache) \ gone
        /\ \A k \in Keys \ gone : cache'.pages[k] = cache.pages[k]
    BY <1>1, RemoveMembers
  <1>3. OrderLinear(cache')
    BY <1>1, RemoveOrder
  <1> QED
    BY <1>2, <1>3 DEF Shrinks, Cached

LEMMA UseShrinks ==
  ASSUME IInv, OrderLinear(cache), NEW k \in Cached(cache), cache' = Touch(cache, k)
  PROVE  Shrinks /\ OrderLinear(cache') /\ Cached(cache') = Cached(cache)
  <1>1. cache \in PageCaches /\ k \in Keys
    BY DEF IInv, TypeOK, Cached
  <1>2. Cached(cache') = Cached(cache) /\ cache'.pages = cache.pages
    BY <1>1, TouchMembers
  <1>3. OrderLinear(cache')
    BY <1>1, TouchOrder
  <1> QED
    BY <1>2, <1>3 DEF Shrinks

LEMMA AgeingShrinks ==
  ASSUME IInv, OrderLinear(cache), NEW k \in Keys, Ages(k)
  PROVE  Shrinks /\ OrderLinear(cache') /\ Cached(cache') = Cached(cache)
  <1>1. cache \in PageCaches /\ k \in Cached(cache) /\ k \in Keys
    BY DEF IInv, TypeOK, Cached, Ages
  <1>2. cache' = [cache EXCEPT !.pages[k].aged = TRUE]
    BY DEF Ages
  <1>3. cache.pages[k] \in Entry
    BY <1>1 DEF PageCaches, Cached
  <1>4. /\ cache'.older = cache.older
        /\ cache'.pages = [cache.pages EXCEPT ![k] = [@ EXCEPT !.aged = TRUE]]
    BY <1>1, <1>2 DEF PageCaches
  <1>5. /\ [cache.pages[k] EXCEPT !.aged = TRUE] \in Entry
        /\ [cache.pages[k] EXCEPT !.aged = TRUE].body = cache.pages[k].body
        /\ [cache.pages[k] EXCEPT !.aged = TRUE].head = cache.pages[k].head
    BY <1>3 DEF Entry
  <1>6. \A j \in Keys : \/ j # k /\ cache'.pages[j] = cache.pages[j]
                        \/ j = k /\ cache'.pages[j] = [cache.pages[k] EXCEPT !.aged = TRUE]
    BY <1>1, <1>4 DEF PageCaches
  <1>7. Cached(cache') = Cached(cache)
    BY <1>1, <1>5, <1>6, AbsentAssumption DEF Cached
  <1>8. \A j \in Cached(cache) : /\ cache'.pages[j].body = cache.pages[j].body
                                 /\ cache'.pages[j].head = cache.pages[j].head
    BY <1>5, <1>6 DEF Cached
  <1>9. OrderLinear(cache')
    BY <1>4, <1>7 DEF OrderLinear, OrderOnCached, OrderFounded, OrderTotal, OrderIrreflexive,
                      OrderTransitive, IsFront
  <1> QED
    BY <1>7, <1>8, <1>9 DEF Shrinks

\* A copy is in its place while nothing happens to the cache.
LEMMA NothingShrinks ==
  ASSUME OrderLinear(cache), UNCHANGED cache
  PROVE  Shrinks /\ OrderLinear(cache') /\ Cached(cache') = Cached(cache)
  BY DEF Shrinks

\* What a step queues and forgets when it drops nothing.
LEMMA NothingDropped ==
  ASSUME DTypeOK, Cached(cache') = Cached(cache)
  PROVE  Dropped = {} /\ Forgotten = saveGen
  <1>1. Dropped = {}
    BY DEF Dropped, Cached
  <1>2. saveGen = [k \in Keys |-> saveGen[k]]
    BY DEF DTypeOK
  <1> QED
    BY <1>1, <1>2 DEF Forgotten

\* Most steps of the memory drop no copy and move no floor.
LEMMA QuietIsMemory ==
  ASSUME DTypeOK, IInv, OrderLinear(cache), Quiet
  PROVE  MemoryStep /\ OrderLinear(cache')
  <1>1. Next
    BY DEF Quiet, Next, FlightStep
  <1>2. Shrinks /\ OrderLinear(cache') /\ Cached(cache') = Cached(cache)
    <2>1. ASSUME NEW k \in Keys, Write(k) \/ Ages(k) \/ RefusalLapses(k)
          PROVE  Shrinks /\ OrderLinear(cache') /\ Cached(cache') = Cached(cache)
      BY <2>1, AgeingShrinks, NothingShrinks DEF Write, RefusalLapses
    <2>2. ASSUME NEW r \in Requests, NEW k \in Keys, Arrive(r, k)
          PROVE  Shrinks /\ OrderLinear(cache') /\ Cached(cache') = Cached(cache)
      <3>1. UNCHANGED cache \/ (k \in Cached(cache) /\ cache' = Touch(cache, k))
        BY <2>2 DEF Arrive, ArriveRefused, ArriveAllowed, ArriveHit, ArriveStale, ArriveMiss
      <3> QED
        BY <3>1, UseShrinks, NothingShrinks
    <2>3. ASSUME NEW f \in Flights, RenderReads(f) \/ RenderFails(f) \/ RenderPanics(f)
          PROVE  Shrinks /\ OrderLinear(cache') /\ Cached(cache') = Cached(cache)
      BY <2>3, NothingShrinks DEF RenderReads, RenderFails, RenderPanics
    <2> QED
      BY <2>1, <2>2, <2>3 DEF Quiet
  <1>3. UNCHANGED floor
    BY DEF Quiet, Write, Ages, RefusalLapses, Arrive, ArriveRefused, ArriveAllowed,
           RenderReads, RenderFails, RenderPanics, Settle
  <1>4. UNCHANGED fileVars
    BY DEF Quiet
  <1>5. Dropped = {} /\ Forgotten = saveGen
    BY <1>2, NothingDropped
  <1> QED
    BY <1>1, <1>2, <1>3, <1>4, <1>5 DEF MemoryStep, fileVars, Queue

\* An unstorable page takes its old copy with it.
LEMMA UnstorableIsMemory ==
  ASSUME DTypeOK, IInv, OrderLinear(cache), NEW f \in Flights, DropUnstorable(f)
  PROVE  MemoryStep /\ OrderLinear(cache')
  <1>1. RenderUnstorable(f) /\ Next
    BY DEF DropUnstorable, Next, FlightStep
  <1>2. UNCHANGED cache \/ \E gone : cache' = Remove(cache, gone)
    BY <1>1 DEF RenderUnstorable, Discarded
  <1>3. Shrinks /\ OrderLinear(cache')
    BY <1>2, RemovalShrinks, NothingShrinks
  <1>4. UNCHANGED floor
    BY <1>1 DEF RenderUnstorable, Settle
  <1> QED
    BY <1>1, <1>3, <1>4 DEF MemoryStep, DropUnstorable

\* The goroutine of a render that is over goes on to drain, and promises nothing.
LEMMA EndIsMemory ==
  ASSUME DTypeOK, IInv, OrderLinear(cache), NEW f \in Flights, EndAndDrain(f)
  PROVE  MemoryStep /\ OrderLinear(cache')
  <1>1. FlightEnds(f) /\ Next
    BY DEF EndAndDrain, Next, FlightStep
  <1>2. UNCHANGED <<floor, cache>>
    BY <1>1 DEF FlightEnds
  <1>3. Shrinks /\ OrderLinear(cache') /\ Cached(cache') = Cached(cache)
    BY <1>2, NothingShrinks
  <1>4. Dropped = {} /\ Forgotten = saveGen
    BY <1>3, NothingDropped
  <1>5. OwesAtMost
    <2>1. Nothing \in [Keys -> Versions] /\ \A k \in Keys : Nothing[k] = 0
      BY BoundsAssumption DEF Nothing, Versions
    <2>2. Owes(Nothing)
      BY DEF EndAndDrain
    <2> QED
      BY <2>1, <2>2 DEF OwesAtMost
  <1> QED
    BY <1>1, <1>2, <1>3, <1>4, <1>5 DEF MemoryStep, EndAndDrain, Queue

\* A Revalidate drops every copy it names, and promises of those keys what the
\* data are now.
LEMMA RevalidateIsMemory ==
  ASSUME DTypeOK, IInv, OrderLinear(cache), NEW named \in SUBSET Keys, NEW dropped,
         named \cap Cached(cache) \subseteq dropped,
         Next, Invalidate(named, dropped), Revalidated(named)
  PROVE  MemoryStep /\ OrderLinear(cache')
  <1>1. cache' = Remove(cache, dropped)
    BY DEF Invalidate
  <1>2. Shrinks /\ OrderLinear(cache')
    BY <1>1, RemovalShrinks
  <1>3. \A k \in named : k \notin Cached(cache')
    <2>1. cache \in PageCaches
      BY DEF IInv, TypeOK
    <2>2. Cached(cache') = Cached(cache) \ dropped
      BY <1>1, <2>1, RemoveMembers
    <2> QED
      BY <2>2
  <1>4. /\ ver \in [Keys -> Versions] /\ Versions \subseteq Nat /\ 0 \in Versions
        /\ \A k \in Keys : floor'[k] = IF k \in named THEN ver[k] ELSE floor[k]
    BY BoundsAssumption DEF IInv, TypeOK, Versions, Invalidate
  <1>5. OwesAtMost
    <2> DEFINE upto == [k \in Keys |-> IF k \in named THEN ver[k] ELSE 0]
    <2>1. upto \in [Keys -> Versions]
      BY <1>4
    <2>2. Owes(upto)
      BY DEF Revalidated
    <2>3. \A k \in Keys : upto[k] = 0 \/ (upto[k] <= floor'[k] /\ k \notin Cached(cache'))
      <3> SUFFICES ASSUME NEW k \in Keys
                   PROVE  upto[k] = 0 \/ (upto[k] <= floor'[k] /\ k \notin Cached(cache'))
        OBVIOUS
      <3>1. CASE k \in named
        <4>1. upto[k] = ver[k] /\ floor'[k] = ver[k] /\ ver[k] \in Nat
          BY <1>4, <3>1
        <4> QED
          BY <1>3, <3>1, <4>1
      <3>2. CASE k \notin named
        BY <3>2
      <3> QED
        BY <3>1, <3>2
    <2> HIDE DEF upto
    <2> QED
      BY <2>1, <2>2, <2>3 DEF OwesAtMost
  <1> QED
    BY <1>2, <1>3, <1>4, <1>5 DEF MemoryStep, Revalidated

LEMMA RevalidationsAreMemory ==
  ASSUME DTypeOK, IInv, OrderLinear(cache),
         (\E p \in Paths : Revalidate(p)) \/ (\E t \in Tags : RevalidateTag(t))
  PROVE  MemoryStep /\ OrderLinear(cache')
  <1>1. ASSUME NEW p \in Paths, Revalidate(p) PROVE MemoryStep /\ OrderLinear(cache')
    <2>1. Names[p] \in SUBSET Keys /\ Names[p] \cap Cached(cache) \subseteq Matching(cache, Names[p])
      BY PolicyAssumption DEF Matching
    <2>2. Next
      BY <1>1 DEF Revalidate, Next
    <2> QED
      BY <1>1, <2>1, <2>2, RevalidateIsMemory DEF Revalidate, InvalidatePath
  <1>2. ASSUME NEW t \in Tags, RevalidateTag(t) PROVE MemoryStep /\ OrderLinear(cache')
    <2>1. Bearing(t) \in SUBSET Keys /\ Bearing(t) \cap Cached(cache) \subseteq Tagged(cache, t)
      BY TaggedAreBearing DEF Bearing
    <2>2. Next
      BY <1>2 DEF RevalidateTag, Next
    <2> QED
      BY <1>2, <2>1, <2>2, RevalidateIsMemory DEF RevalidateTag, InvalidateTag
  <1> QED
    BY <1>1, <1>2

\* A page that is stored is the copy of its key, the others are those that were.
LEMMA StoreGrows ==
  ASSUME DTypeOK, IInv, OrderLinear(cache), NEW f \in Flights, StoreAndSave(f),
         ~flight[f].doomed
  PROVE  /\ flight[f].key \in Keys /\ flight[f].v \in Versions
         /\ OrderLinear(cache')
         /\ flight[f].key \in Cached(cache')
         /\ Cached(cache') \subseteq Cached(cache) \cup {flight[f].key}
         /\ cache'.pages[flight[f].key].body = flight[f].v
         /\ cache'.pages[flight[f].key].head = flight[f].v
         /\ \A j \in Cached(cache') \ {flight[f].key} : cache'.pages[j] = cache.pages[j]
         /\ UNCHANGED <<ver, floor>>
  <1> DEFINE k == flight[f].key
             v == flight[f].v
             e == [body |-> v, head |-> v, tags |-> TagsOf[k], aged |-> FALSE]
  <1>1. /\ k \in Keys /\ v \in Versions /\ cache \in PageCaches
        /\ cache' = Store(cache, k, e) /\ UNCHANGED <<ver, floor>>
    BY DEF StoreAndSave, RenderStored, Marks, Settle, IInv, TypeOK, FlightState
  <1>2. e \in Entry
    BY <1>1, PolicyAssumption, BoundsAssumption DEF Entry, Versions
  <1>3. e.body = v /\ e.head = v
    OBVIOUS
  <1> HIDE DEF k, v, e
  <1>4. OrderLinear(cache') /\ k \in Cached(cache')
    BY <1>1, <1>2, StoreOrder
  <1>5. /\ Cached(cache') \subseteq Cached(cache) \cup {k}
        /\ \A j \in Cached(cache') : cache'.pages[j] = IF j = k THEN e ELSE cache.pages[j]
    BY <1>1, <1>2, StoreIsSound
  <1> QED
    BY <1>1, <1>3, <1>4, <1>5 DEF k, v

\* A doomed page is not stored: its step is one of those above.
LEMMA DoomedIsMemory ==
  ASSUME DTypeOK, IInv, OrderLinear(cache), NEW f \in Flights, StoreAndSave(f),
         flight[f].doomed
  PROVE  MemoryStep /\ OrderLinear(cache')
  <1>1. RenderStored(f) /\ Next
    BY DEF StoreAndSave, Next, FlightStep
  <1>2. UNCHANGED <<floor, cache>>
    BY <1>1 DEF RenderStored, Settle, Marks
  <1>3. Shrinks /\ OrderLinear(cache') /\ Cached(cache') = Cached(cache)
    BY <1>2, NothingShrinks
  <1>4. Dropped = {} /\ Forgotten = saveGen
    BY <1>3, NothingDropped
  <1> QED
    BY <1>1, <1>2, <1>3, <1>4 DEF MemoryStep, StoreAndSave, Queue

-----------------------------------------------------------------------------
(* The types, and what no file is ahead of.                                *)

LEMMA ForgottenFacts ==
  ASSUME DTypeOK
  PROVE  /\ Forgotten \in [Keys -> 0 .. MaxGen]
         /\ \A k \in Keys : Forgotten[k] = IF k \in Dropped THEN 0 ELSE saveGen[k]
         /\ Dropped \subseteq Keys
  <1>1. saveGen \in [Keys -> 0 .. MaxGen] /\ 0 \in 0 .. MaxGen
    BY DiskAssumption DEF DTypeOK
  <1> QED
    BY <1>1 DEF Forgotten, Dropped, Cached

\* The draining goroutine a step leaves.
LEMMA OwesTyped ==
  ASSUME drain \in [Drains -> DrainState], \A d \in Drains : drain[d].half \subseteq drain[d].list,
         DrainsRest, NEW upto \in [Keys -> Versions], Owes(upto)
  PROVE  /\ drain' \in [Drains -> DrainState]
         /\ \A d \in Drains : drain'[d].half \subseteq drain'[d].list
         /\ DrainsRest'
         /\ \E d \in Drains :
              /\ drain[d].stage = "idle" /\ drain'[d].stage = "due" /\ drain'[d].upto = upto
              /\ \A e \in Drains \ {d} : drain'[e] = drain[e]
         /\ \A d \in Drains : drain'[d].list = drain[d].list
  <1> DEFINE due == [NoDrain EXCEPT !.stage = "due", !.upto = upto]
  <1>1. due \in DrainState /\ due.half = {} /\ due.list = {} /\ due.stage = "due" /\ due.upto = upto
    BY DEF DrainState, NoDrain
  <1>2. PICK d \in Drains : drain[d].stage = "idle" /\ drain' = [drain EXCEPT ![d] = due]
    BY DEF Owes
  <1> HIDE DEF due
  <1>3. \A e \in Drains : drain'[e] = IF e = d THEN due ELSE drain[e]
    BY <1>2
  <1>4. drain[d].list = {}
    BY <1>2 DEF DrainsRest
  <1> QED
    BY <1>1, <1>2, <1>3, <1>4 DEF DrainsRest

LEMMA BaseOfMemory ==
  ASSUME DiskBase, MemoryStep, OrderLinear(cache') PROVE DiskBase'
  <1> USE DEF DiskBase
  <1>1. IInv' /\ TypeOK'
    BY IInvStep DEF MemoryStep, IInv
  <1>2. \A k \in Keys : ver[k] \in Nat /\ ver'[k] \in Nat /\ ver[k] <= ver'[k]
    BY VersionsGrow DEF MemoryStep
  <1>3. /\ saveGen' \in [Keys -> 0 .. MaxGen] /\ sweep' \in SUBSET Keys
        /\ \A k \in Keys : saveGen'[k] = 0 \/ saveGen'[k] = saveGen[k]
    BY ForgottenFacts DEF MemoryStep, Queue, DTypeOK
  <1>4. UNCHANGED <<disk, lastGen, save, promised, lent>>
    BY DEF MemoryStep
  <1>5. /\ drain' \in [Drains -> DrainState] /\ DrainsRest'
        /\ \A d \in Drains : drain'[d].half \subseteq drain'[d].list
    <2>1. CASE UNCHANGED drain
      BY <2>1 DEF DTypeOK, DrainsRest
    <2>2. CASE OwesAtMost
      BY <2>2, OwesTyped DEF OwesAtMost, DTypeOK
    <2> QED
      BY <2>1, <2>2 DEF MemoryStep
  <1>6. DTypeOK'
    BY <1>1, <1>3, <1>4, <1>5 DEF DTypeOK
  <1>7. WholeCopies'
    BY DEF WholeCopies, MemoryStep, Shrinks
  <1>8. FilesPast'
    <2> SUFFICES ASSUME NEW k \in Keys, disk[k].html # NoFile PROVE disk[k].html <= ver'[k]
      BY <1>4 DEF FilesPast
    <2>1. disk[k].html \in Nat /\ disk[k].html <= ver[k]
      BY BoundsAssumption DEF FilesPast, DTypeOK, Pair, Files, Versions
    <2> QED
      BY <1>2, <2>1
  <1>9. SavesPast'
    <2> SUFFICES ASSUME NEW s \in Saves, save[s].stage # "idle"
                 PROVE  /\ save[s].v <= ver'[save[s].key]
                        /\ 0 < save[s].gen /\ save[s].gen <= lastGen
      BY <1>4 DEF SavesPast
    <2>1. save[s].key \in Keys /\ save[s].v \in Nat
      BY BoundsAssumption DEF DTypeOK, SaveState, Versions
    <2>2. save[s].v <= ver[save[s].key] /\ 0 < save[s].gen /\ save[s].gen <= lastGen
      BY DEF SavesPast
    <2> QED
      BY <1>2, <2>1, <2>2
  <1>10. GensPast'
    <2>1. lastGen \in Nat
      BY DiskAssumption DEF DTypeOK
    <2> QED
      BY <1>3, <1>4, <2>1 DEF GensPast
  <1> QED
    BY <1>1, <1>5, <1>6, <1>7, <1>8, <1>9, <1>10

\* A store starts one save, of a generation no other save has.
LEMMA SaveStarts ==
  ASSUME DTypeOK, IInv, NEW f \in Flights, StoreAndSave(f), ~flight[f].doomed
  PROVE  LET k == flight[f].key
         IN  /\ lastGen' = lastGen + 1 /\ lastGen' \in 0 .. MaxGen
             /\ saveGen' \in [Keys -> 0 .. MaxGen]
             /\ saveGen'[k] = lastGen'
             /\ \A j \in Keys \ {k} : saveGen'[j] = IF j \in Dropped THEN 0 ELSE saveGen[j]
             /\ save' \in [Saves -> SaveState]
             /\ \A s \in Saves :
                  \/ save'[s] = save[s]
                  \/ /\ save'[s].stage = "writing" /\ save'[s].key = k
                     /\ save'[s].gen = lastGen' /\ save'[s].v = flight[f].v
             /\ sweep' = sweep \cup Dropped /\ sweep' \in SUBSET Keys
             /\ UNCHANGED <<disk, drain, promised, lent>>
  <1> DEFINE k == flight[f].key
  <1>1. k \in Keys /\ flight[f].v \in Versions
    BY DEF IInv, TypeOK, FlightState
  <1>2. /\ lastGen' = lastGen + 1 /\ lastGen + 1 <= MaxGen
        /\ saveGen' = [Forgotten EXCEPT ![k] = lastGen']
        /\ sweep' = sweep \cup Dropped
        /\ UNCHANGED <<disk, drain, promised, lent>>
    BY DEF StoreAndSave, NextGen, Queue
  <1>3. lastGen' \in 0 .. MaxGen
    BY <1>2, DiskAssumption DEF DTypeOK
  <1>4. /\ saveGen' \in [Keys -> 0 .. MaxGen] /\ saveGen'[k] = lastGen'
        /\ \A j \in Keys \ {k} : saveGen'[j] = IF j \in Dropped THEN 0 ELSE saveGen[j]
    BY <1>1, <1>2, <1>3, ForgottenFacts
  <1>5. sweep' \in SUBSET Keys
    BY <1>2, ForgottenFacts DEF DTypeOK
  <1> DEFINE new == [stage |-> "writing", key |-> k, gen |-> lastGen', v |-> flight[f].v]
  <1>6. PICK t \in Saves : save' = [save EXCEPT ![t] = new]
    BY <1>2 DEF StoreAndSave, NextGen
  <1>7. /\ new \in SaveState /\ new.stage = "writing" /\ new.key = k
        /\ new.gen = lastGen' /\ new.v = flight[f].v
    BY <1>1, <1>3 DEF SaveState
  <1> HIDE DEF new, k
  <1>8. \A s \in Saves : save'[s] = IF s = t THEN new ELSE save[s]
    BY <1>6 DEF DTypeOK
  <1>9. save' \in [Saves -> SaveState]
    BY <1>6, <1>7 DEF DTypeOK
  <1> QED
    BY <1>2, <1>3, <1>4, <1>5, <1>7, <1>8, <1>9 DEF k

LEMMA BaseOfStore ==
  ASSUME DiskBase, NEW f \in Flights, StoreAndSave(f), ~flight[f].doomed PROVE DiskBase'
  <1> USE DEF DiskBase
  <1> DEFINE k == flight[f].key
  <1>0. /\ k \in Keys /\ flight[f].v \in Nat /\ flight[f].v <= ver[k]
    BY BoundsAssumption DEF IInv, TypeOK, FlightState, FlightsTrue, Live, Versions, StoreAndSave, RenderStored
  <1>1. IInv' /\ TypeOK'
    <2>1. Next
      BY DEF StoreAndSave, Next, FlightStep
    <2> QED
      BY <2>1, IInvStep DEF IInv
  <1>2. /\ lastGen' = lastGen + 1 /\ lastGen' \in 0 .. MaxGen
        /\ saveGen' \in [Keys -> 0 .. MaxGen]
        /\ save' \in [Saves -> SaveState]
        /\ \A s \in Saves :
             \/ save'[s] = save[s]
             \/ /\ save'[s].stage = "writing" /\ save'[s].key = k
                /\ save'[s].gen = lastGen' /\ save'[s].v = flight[f].v
        /\ sweep' \in SUBSET Keys
        /\ UNCHANGED <<disk, drain, promised, lent>>
        /\ \A j \in Keys : saveGen'[j] \in {0, saveGen[j], lastGen'}
    BY SaveStarts
  <1>3. /\ OrderLinear(cache')
        /\ \A j \in Cached(cache') :
             \/ j = k /\ cache'.pages[j].body = cache'.pages[j].head
             \/ j \in Cached(cache) /\ cache'.pages[j] = cache.pages[j]
        /\ UNCHANGED ver
    BY StoreGrows
  <1> HIDE DEF k
  <1>4. DTypeOK'
    BY <1>1, <1>2 DEF DTypeOK
  <1>5. WholeCopies'
    BY <1>3 DEF WholeCopies
  <1>6. FilesPast'
    BY <1>2, <1>3 DEF FilesPast
  <1>7. lastGen \in Nat
    BY DiskAssumption DEF DTypeOK
  <1>8. SavesPast'
    <2> SUFFICES ASSUME NEW s \in Saves, save'[s].stage # "idle"
                 PROVE  /\ save'[s].v <= ver[save'[s].key]
                        /\ 0 < save'[s].gen /\ save'[s].gen <= lastGen'
      BY <1>3 DEF SavesPast
    <2>1. CASE save'[s] = save[s]
      <3>1. /\ save[s].v <= ver[save[s].key] /\ save[s].gen \in Nat
            /\ 0 < save[s].gen /\ save[s].gen <= lastGen
        BY <2>1, DiskAssumption DEF SavesPast, DTypeOK, SaveState
      <3> QED
        BY <1>2, <1>7, <2>1, <3>1
    <2>2. CASE save'[s].key = k /\ save'[s].gen = lastGen' /\ save'[s].v = flight[f].v
      BY <1>0, <1>2, <1>7, <2>2
    <2> QED
      BY <1>2, <2>1, <2>2
  <1>9. GensPast'
    <2> SUFFICES ASSUME NEW j \in Keys PROVE saveGen'[j] <= lastGen'
      BY DEF GensPast
    <2>1. saveGen[j] <= lastGen /\ saveGen[j] \in Nat
      BY DiskAssumption DEF GensPast, DTypeOK
    <2> QED
      BY <1>2, <1>7, <2>1
  <1> QED
    BY <1>1, <1>2, <1>3, <1>4, <1>5, <1>6, <1>8, <1>9 DEF DrainsRest

\* The memory stands still while a file is written or removed.
LEMMA MemoryStands ==
  ASSUME DiskBase, UNCHANGED vars
  PROVE  IInv' /\ TypeOK' /\ OrderLinear(cache') /\ WholeCopies'
  <1>1. IInv' /\ UNCHANGED cache
    BY IInvStep DEF DiskBase, vars
  <1> QED
    BY <1>1 DEF DiskBase, IInv, WholeCopies

\* What a landing may leave of a pair.
LEMMA Landing ==
  ASSUME DiskBase, NEW s \in Saves, save[s].stage # "idle"
  PROVE  /\ HtmlLanded(s) \in [Keys -> Pair] /\ PairLanded(s) \in [Keys -> Pair]
         /\ save[s].key \in Keys /\ save[s].v \in Versions /\ save[s].v <= ver[save[s].key]
         /\ \A k \in Keys \ {save[s].key} : HtmlLanded(s)[k] = disk[k] /\ PairLanded(s)[k] = disk[k]
         /\ HtmlLanded(s)[save[s].key].html = save[s].v
         /\ HtmlLanded(s)[save[s].key].json = disk[save[s].key].json
         /\ PairLanded(s)[save[s].key] = [html |-> save[s].v, json |-> save[s].v]
  <1> DEFINE k == save[s].key
             v == save[s].v
  <1>1. k \in Keys /\ v \in Versions /\ v <= ver[k]
    BY DEF DiskBase, DTypeOK, SaveState, SavesPast
  <1>2. disk \in [Keys -> Pair] /\ disk[k] \in Pair
    BY <1>1 DEF DiskBase, DTypeOK
  <1> HIDE DEF k, v
  <1>3. /\ [disk[k] EXCEPT !.html = v] \in Pair
        /\ [disk[k] EXCEPT !.html = v].html = v
        /\ [disk[k] EXCEPT !.html = v].json = disk[k].json
        /\ [[disk[k] EXCEPT !.html = v] EXCEPT !.json = v] = [html |-> v, json |-> v]
        /\ [html |-> v, json |-> v] \in Pair
    <2>1. v \in Files
      BY <1>1 DEF Files
    <2>2. disk[k] \in [html : Files, json : Files]
      BY <1>2 DEF Pair
    <2>3. disk[k] = [html |-> disk[k].html, json |-> disk[k].json] /\ disk[k].json \in Files
      BY <2>2
    <2>4. [disk[k] EXCEPT !.html = v] = [html |-> v, json |-> disk[k].json]
      BY <2>3
    <2>5. [[html |-> v, json |-> disk[k].json] EXCEPT !.json = v] = [html |-> v, json |-> v]
      OBVIOUS
    <2> QED
      BY <2>1, <2>3, <2>4, <2>5 DEF Pair
  <1>4. HtmlLanded(s) = [disk EXCEPT ![k] = [disk[k] EXCEPT !.html = v]]
    BY <1>2 DEF HtmlLanded, k, v
  <1>5. PairLanded(s) = [HtmlLanded(s) EXCEPT ![k] = [HtmlLanded(s)[k] EXCEPT !.json = v]]
    BY DEF PairLanded, k, v
  <1>6. /\ HtmlLanded(s) \in [Keys -> Pair]
        /\ HtmlLanded(s)[k] = [disk[k] EXCEPT !.html = v]
        /\ \A j \in Keys \ {k} : HtmlLanded(s)[j] = disk[j]
    BY <1>1, <1>2, <1>3, <1>4
  <1>7. PairLanded(s) = [HtmlLanded(s) EXCEPT ![k] = [html |-> v, json |-> v]]
    BY <1>3, <1>5, <1>6
  <1>8. /\ PairLanded(s) \in [Keys -> Pair]
        /\ PairLanded(s)[k] = [html |-> v, json |-> v]
        /\ \A j \in Keys \ {k} : PairLanded(s)[j] = disk[j]
    BY <1>1, <1>3, <1>6, <1>7
  <1> QED
    BY <1>1, <1>3, <1>6, <1>8 DEF k, v

\* A save moves its own goroutine, and one pair at most.
LEMMA SaveSteps ==
  ASSUME DiskBase, NEW s \in Saves, SaveWrites(s) \/ SaveLands(s) \/ SaveFails(s)
  PROVE  /\ UNCHANGED <<vars, saveGen, lastGen, sweep, promised, lent>>
         /\ \/ UNCHANGED disk
            \/ /\ save[s].stage # "idle" /\ Current(s)
               /\ disk' = HtmlLanded(s) \/ disk' = PairLanded(s)
         /\ disk' \in [Keys -> Pair]
         /\ save' \in [Saves -> SaveState]
         /\ \A t \in Saves : \/ save'[t] = save[t]
                             \/ save'[t].stage = "idle"
                             \/ /\ save[t].stage # "idle" /\ save'[t].key = save[t].key
                                /\ save'[t].gen = save[t].gen /\ save'[t].v = save[t].v
         /\ UNCHANGED drain \/ Owes(Nothing)
  <1>0. save \in [Saves -> SaveState] /\ disk \in [Keys -> Pair]
    BY DEF DiskBase, DTypeOK
  <1>1. /\ UNCHANGED <<vars, saveGen, lastGen, sweep, promised, lent>>
        /\ UNCHANGED drain \/ Owes(Nothing)
        /\ \/ UNCHANGED disk
           \/ /\ save[s].stage # "idle" /\ Current(s)
              /\ disk' = HtmlLanded(s) \/ disk' = PairLanded(s)
    BY DEF SaveWrites, SaveLands, SaveFails
  <1>2. disk' \in [Keys -> Pair]
    BY <1>0, <1>1, Landing
  <1>3. NoSave \in SaveState /\ NoSave.stage = "idle"
    BY BoundsAssumption, DiskAssumption DEF NoSave, SaveState, SomeKey, Versions
  <1>4. CASE SaveWrites(s)
    <2>1. save[s].stage # "idle" /\ save' = [save EXCEPT ![s] = [save[s] EXCEPT !.stage = "written"]]
      BY <1>0, <1>4 DEF SaveWrites
    <2>2. /\ [save[s] EXCEPT !.stage = "written"] \in SaveState
          /\ [save[s] EXCEPT !.stage = "written"].key = save[s].key
          /\ [save[s] EXCEPT !.stage = "written"].gen = save[s].gen
          /\ [save[s] EXCEPT !.stage = "written"].v = save[s].v
      BY <1>0 DEF SaveState
    <2> QED
      BY <1>0, <1>1, <1>2, <2>1, <2>2
  <1>5. CASE SaveLands(s) \/ SaveFails(s)
    <2>1. save' = [save EXCEPT ![s] = NoSave]
      BY <1>5 DEF SaveLands, SaveFails, Finished
    <2> QED
      BY <1>0, <1>1, <1>2, <1>3, <2>1
  <1> QED
    BY <1>4, <1>5

LEMMA BaseOfSave ==
  ASSUME DiskBase, NEW s \in Saves, SaveWrites(s) \/ SaveLands(s) \/ SaveFails(s)
  PROVE  DiskBase'
  <1>1. /\ UNCHANGED <<vars, saveGen, lastGen, sweep, promised, lent>>
        /\ \/ UNCHANGED disk
           \/ save[s].stage # "idle" /\ (disk' = HtmlLanded(s) \/ disk' = PairLanded(s))
        /\ disk' \in [Keys -> Pair] /\ save' \in [Saves -> SaveState]
        /\ \A t \in Saves : \/ save'[t] = save[t]
                            \/ save'[t].stage = "idle"
                            \/ /\ save[t].stage # "idle" /\ save'[t].key = save[t].key
                               /\ save'[t].gen = save[t].gen /\ save'[t].v = save[t].v
        /\ UNCHANGED drain \/ Owes(Nothing)
    BY SaveSteps
  <1>2. IInv' /\ TypeOK' /\ OrderLinear(cache') /\ WholeCopies'
    BY <1>1, MemoryStands
  <1>3. Nothing \in [Keys -> Versions]
    BY BoundsAssumption DEF Nothing, Versions
  <1>4. /\ drain' \in [Drains -> DrainState] /\ DrainsRest'
        /\ \A d \in Drains : drain'[d].half \subseteq drain'[d].list
    <2>1. CASE UNCHANGED drain
      BY <2>1 DEF DiskBase, DTypeOK, DrainsRest
    <2>2. CASE Owes(Nothing)
      BY <1>3, <2>2, OwesTyped DEF DiskBase, DTypeOK
    <2> QED
      BY <1>1, <2>1, <2>2
  <1>5. DTypeOK'
    BY <1>1, <1>2, <1>4 DEF DiskBase, DTypeOK
  <1>6. UNCHANGED ver
    BY <1>1 DEF vars
  <1>7. FilesPast'
    <2>1. CASE UNCHANGED disk
      BY <1>6, <2>1 DEF DiskBase, FilesPast
    <2>2. CASE save[s].stage # "idle" /\ (disk' = HtmlLanded(s) \/ disk' = PairLanded(s))
      <3>1. /\ \A k \in Keys \ {save[s].key} : disk'[k] = disk[k]
            /\ disk'[save[s].key].html = save[s].v /\ save[s].v <= ver[save[s].key]
        <4>1. [html |-> save[s].v, json |-> save[s].v].html = save[s].v
          OBVIOUS
        <4> QED
          BY <2>2, <4>1, Landing
      <3> QED
        BY <1>6, <3>1 DEF DiskBase, FilesPast
    <2> QED
      BY <1>1, <2>1, <2>2
  <1>8. SavesPast' /\ GensPast'
    BY <1>1, <1>6 DEF DiskBase, SavesPast, GensPast
  <1> QED
    BY <1>2, <1>4, <1>5, <1>7, <1>8 DEF DiskBase

\* A drain takes the whole queue, removes a pair file by file, and is done when
\* its list is empty.
LEMMA DrainSteps ==
  ASSUME DiskBase, NEW d \in Drains, DrainTakes(d) \/ DrainRemoves(d) \/ DrainEnds(d)
  PROVE  /\ UNCHANGED <<vars, saveGen, lastGen, save>>
         /\ disk' \in [Keys -> Pair] /\ sweep' \in SUBSET Keys
         /\ \A k \in Keys :
              \/ disk'[k] = disk[k]
              \/ ~Vouched(disk'[k]) /\ disk'[k].html \in {NoFile, disk[k].html}
         /\ drain' \in [Drains -> DrainState] /\ DrainsRest'
         /\ \A e \in Drains : drain'[e].half \subseteq drain'[e].list
         /\ \A e \in Drains \ {d} : drain'[e] = drain[e]
         /\ \A k \in Keys :
              \/ ~Vouched(disk'[k])
              \/ k \in sweep => k \in sweep' \/ k \in drain'[d].list
         /\ \A k \in Keys :
              k \in drain[d].list => k \in drain'[d].list \/ ~Vouched(disk'[k])
  <1> USE DEF DiskBase
  <1>0. /\ disk \in [Keys -> Pair] /\ sweep \in SUBSET Keys /\ drain \in [Drains -> DrainState]
        /\ drain[d] \in DrainState /\ drain[d].half \subseteq drain[d].list
        /\ drain[d].list \subseteq Keys
    BY DEF DTypeOK, DrainState
  <1>1. UNCHANGED <<vars, saveGen, lastGen, save>>
    BY DEF DrainTakes, DrainRemoves, DrainEnds
  <1>2. CASE DrainTakes(d)
    <2>1. /\ drain[d].list = {} /\ drain[d].half = {}
          /\ drain' = [drain EXCEPT ![d] = [drain[d] EXCEPT !.stage = "removing", !.list = sweep]]
          /\ sweep' = {} /\ UNCHANGED disk
      BY <1>0, <1>2 DEF DrainTakes, DrainsRest
    <2> DEFINE new == [drain[d] EXCEPT !.stage = "removing", !.list = sweep]
    <2>2. new \in DrainState /\ new.list = sweep /\ new.stage = "removing" /\ new.half = drain[d].half
      BY <1>0 DEF DrainState
    <2> HIDE DEF new
    <2>3. \A e \in Drains : drain'[e] = IF e = d THEN new ELSE drain[e]
      BY <1>0, <2>1 DEF new
    <2>4. drain' \in [Drains -> DrainState]
      BY <1>0, <2>1, <2>2 DEF new
    <2> QED
      BY <1>0, <1>1, <2>1, <2>2, <2>3, <2>4 DEF DTypeOK, DrainsRest
  <1>3. CASE DrainRemoves(d)
    <2>0. PICK k \in drain[d].list :
            \/ /\ drain[d].half = {}
               /\ disk' = [disk EXCEPT ![k].html = NoFile]
               /\ drain' = [drain EXCEPT ![d].half = {k}]
            \/ /\ drain[d].half = {k}
               /\ disk' = [disk EXCEPT ![k].json = NoFile]
               /\ drain' = [drain EXCEPT ![d].list = @ \ {k}, ![d].half = {}]
      BY <1>3 DEF DrainRemoves
    <2>1. k \in Keys /\ disk[k] \in Pair /\ UNCHANGED sweep /\ drain[d].stage = "removing"
      BY <1>0, <1>3 DEF DrainRemoves
    <2>2. CASE /\ disk' = [disk EXCEPT ![k].html = NoFile]
               /\ drain' = [drain EXCEPT ![d].half = {k}]
      <3> DEFINE new == [drain[d] EXCEPT !.half = {k}]
                 pair == [disk[k] EXCEPT !.html = NoFile]
      <3>1. /\ new \in DrainState /\ new.list = drain[d].list /\ new.half = {k}
            /\ new.stage = "removing"
        BY <1>0, <2>1 DEF DrainState
      <3>2. pair \in Pair /\ pair.html = NoFile /\ ~Vouched(pair)
        BY <2>1 DEF Pair, Files, Vouched
      <3>3. drain' = [drain EXCEPT ![d] = new] /\ disk' = [disk EXCEPT ![k] = pair]
        BY <1>0, <2>1, <2>2
      <3> HIDE DEF new, pair
      <3>4. /\ \A e \in Drains : drain'[e] = IF e = d THEN new ELSE drain[e]
            /\ \A j \in Keys : disk'[j] = IF j = k THEN pair ELSE disk[j]
            /\ drain' \in [Drains -> DrainState] /\ disk' \in [Keys -> Pair]
        BY <1>0, <2>1, <3>1, <3>2, <3>3
      <3>5. /\ DrainsRest' /\ \A e \in Drains : drain'[e].half \subseteq drain'[e].list
        BY <2>0, <3>1, <3>4 DEF DTypeOK, DrainsRest
      <3> QED
        BY <1>0, <1>1, <2>1, <3>1, <3>2, <3>4, <3>5
    <2>3. CASE /\ disk' = [disk EXCEPT ![k].json = NoFile]
               /\ drain' = [drain EXCEPT ![d].list = @ \ {k}, ![d].half = {}]
      <3> DEFINE new == [drain[d] EXCEPT !.list = drain[d].list \ {k}, !.half = {}]
                 pair == [disk[k] EXCEPT !.json = NoFile]
      <3>1. /\ new \in DrainState /\ new.list = drain[d].list \ {k} /\ new.half = {}
            /\ new.stage = "removing"
        BY <1>0, <2>1 DEF DrainState
      <3>2. pair \in Pair /\ pair.html = disk[k].html /\ ~Vouched(pair)
        BY <2>1 DEF Pair, Files, Vouched
      <3>3. drain' = [drain EXCEPT ![d] = new] /\ disk' = [disk EXCEPT ![k] = pair]
        BY <1>0, <2>1, <2>3
      <3> HIDE DEF new, pair
      <3>4. /\ \A e \in Drains : drain'[e] = IF e = d THEN new ELSE drain[e]
            /\ \A j \in Keys : disk'[j] = IF j = k THEN pair ELSE disk[j]
            /\ drain' \in [Drains -> DrainState] /\ disk' \in [Keys -> Pair]
        BY <1>0, <2>1, <3>1, <3>2, <3>3
      <3>5. /\ DrainsRest' /\ \A e \in Drains : drain'[e].half \subseteq drain'[e].list
        BY <3>1, <3>4 DEF DTypeOK, DrainsRest
      <3> QED
        BY <1>0, <1>1, <2>1, <3>1, <3>2, <3>4, <3>5
    <2> QED
      BY <2>0, <2>2, <2>3
  <1>4. CASE DrainEnds(d)
    <2>1. /\ drain[d].list = {} /\ drain' = [drain EXCEPT ![d] = NoDrain]
          /\ UNCHANGED <<disk, sweep>>
      BY <1>4 DEF DrainEnds
    <2>2. NoDrain \in DrainState /\ NoDrain.list = {} /\ NoDrain.half = {}
      BY BoundsAssumption DEF NoDrain, DrainState, Nothing, Versions
    <2>3. \A e \in Drains : drain'[e] = IF e = d THEN NoDrain ELSE drain[e]
      BY <1>0, <2>1
    <2>4. drain' \in [Drains -> DrainState]
      BY <1>0, <2>1, <2>2
    <2> QED
      BY <1>0, <1>1, <2>1, <2>2, <2>3, <2>4 DEF DTypeOK, DrainsRest
  <1> QED
    BY <1>2, <1>3, <1>4

\* A promise is kept back as long as a goroutine has the pair on its list.
LEMMA PromiseMoves ==
  ASSUME DiskBase, NEW d \in Drains, DrainTakes(d) \/ DrainRemoves(d) \/ DrainEnds(d)
  PROVE  /\ promised' \in [Keys -> Versions] /\ lent' \in [Keys -> Versions]
         /\ \A k \in Keys :
              LET returns == /\ drain[d].stage = "removing" /\ drain[d].list = {}
                             /\ drain'[d] = NoDrain
              IN  /\ \/ promised'[k] = promised[k]
                     \/ ~Listed(k)' /\ promised'[k] = lent[k]
                     \/ ~Listed(k)' /\ returns /\ promised'[k] = drain[d].upto[k]
                  /\ \/ lent'[k] = 0
                     \/ Listed(k)' /\ lent'[k] = lent[k]
                     \/ Listed(k)' /\ returns /\ lent'[k] = drain[d].upto[k]
  <1>1. /\ promised \in [Keys -> Versions] /\ lent \in [Keys -> Versions]
        /\ drain[d].upto \in [Keys -> Versions] /\ drain \in [Drains -> DrainState]
    BY DEF DiskBase, DTypeOK, DrainState
  <1>2. Versions \subseteq Nat /\ 0 \in Versions /\ Nothing \in [Keys -> Versions]
        /\ \A k \in Keys : Nothing[k] = 0
    BY BoundsAssumption DEF Versions, Nothing
  <1>3. PICK named \in [Keys -> Versions] :
          /\ Counted(named)
          /\ \/ named = Nothing
             \/ /\ named = drain[d].upto /\ drain[d].stage = "removing" /\ drain[d].list = {}
                /\ drain'[d] = NoDrain
    BY <1>1, <1>2 DEF DrainTakes, DrainRemoves, DrainEnds
  <1>4. \A k \in Keys :
          /\ lent'[k] = IF Listed(k)' THEN Higher(lent[k], named[k]) ELSE 0
          /\ promised'[k] = IF Listed(k)' THEN promised[k]
                            ELSE Higher(promised[k], Higher(lent[k], named[k]))
    BY <1>3 DEF Counted
  <1>5. \A k \in Keys : lent[k] \in Versions /\ promised[k] \in Versions /\ named[k] \in Versions
    BY <1>1, <1>3
  <1>6. ASSUME NEW k \in Keys
        PROVE  /\ lent'[k] \in Versions /\ promised'[k] \in Versions
               /\ lent'[k] \in {0, lent[k], named[k]} /\ (~Listed(k)' => lent'[k] = 0)
               /\ promised'[k] \in {promised[k], lent[k], named[k]}
               /\ (Listed(k)' => promised'[k] = promised[k])
               /\ named[k] = 0 =>
                    lent'[k] \in {0, lent[k]} /\ promised'[k] \in {promised[k], lent[k]}
    <2> DEFINE l == lent[k]
               p == promised[k]
               n == named[k]
               h == Higher(l, n)
    <2>1. l \in Versions /\ p \in Versions /\ n \in Versions
      BY <1>5
    <2>2. /\ lent'[k] = IF Listed(k)' THEN h ELSE 0
          /\ promised'[k] = IF Listed(k)' THEN p ELSE Higher(p, h)
      BY <1>4
    <2> HIDE DEF l, p, n
    <2>3. l \in Nat /\ n \in Nat
      BY <1>2, <2>1
    <2>4. h \in {l, n} /\ (n = 0 => h = l)
      BY <2>3 DEF Higher
    <2> HIDE DEF h
    <2>5. Higher(p, h) \in {p, h}
      BY DEF Higher
    <2>6. CASE Listed(k)'
      BY <1>2, <2>1, <2>2, <2>4, <2>6 DEF l, p, n
    <2>7. CASE ~Listed(k)'
      BY <1>2, <2>1, <2>2, <2>4, <2>5, <2>7 DEF l, p, n
    <2> QED
      BY <2>6, <2>7
  <1>7. promised' \in [Keys -> Versions] /\ lent' \in [Keys -> Versions]
    <2>1. /\ promised' = [k \in Keys |-> promised'[k]] /\ lent' = [k \in Keys |-> lent'[k]]
      BY <1>3 DEF Counted
    <2>2. \A k \in Keys : promised'[k] \in Versions /\ lent'[k] \in Versions
      BY <1>6
    <2> QED
      BY <2>1, <2>2
  <1> QED
    BY <1>2, <1>3, <1>6, <1>7

LEMMA BaseOfDrain ==
  ASSUME DiskBase, NEW d \in Drains, DrainTakes(d) \/ DrainRemoves(d) \/ DrainEnds(d)
  PROVE  DiskBase'
  <1>1. /\ UNCHANGED <<vars, saveGen, lastGen, save>>
        /\ disk' \in [Keys -> Pair] /\ sweep' \in SUBSET Keys
        /\ \A k \in Keys :
             \/ disk'[k] = disk[k]
             \/ disk'[k].html \in {NoFile, disk[k].html}
        /\ drain' \in [Drains -> DrainState] /\ DrainsRest'
        /\ \A e \in Drains : drain'[e].half \subseteq drain'[e].list
    BY DrainSteps
  <1>2. promised' \in [Keys -> Versions] /\ lent' \in [Keys -> Versions]
    BY PromiseMoves
  <1>3. IInv' /\ TypeOK' /\ OrderLinear(cache') /\ WholeCopies'
    BY <1>1, MemoryStands
  <1>4. DTypeOK'
    BY <1>1, <1>2, <1>3 DEF DiskBase, DTypeOK
  <1>5. UNCHANGED ver
    BY <1>1 DEF vars
  <1>6. FilesPast' /\ SavesPast' /\ GensPast'
    BY <1>1, <1>5 DEF DiskBase, FilesPast, SavesPast, GensPast
  <1> QED
    BY <1>1, <1>3, <1>4, <1>6 DEF DiskBase

-----------------------------------------------------------------------------
(* A restart.                                                              *)

\* The well-foundedness of <, as the existence of a least element.
LEMMA LeastPlace ==
  ASSUME NEW T, T \subseteq Nat, T # {}
  PROVE  \E n \in T : \A m \in T : n <= m
  <1>1. PICK n \in T : \A m \in T : <<m, n>> \notin OpToRel(<, Nat)
    BY WFMin, NatLessThanWellFounded, Zenon
  <1>2. \A m \in T : ~(m < n)
    BY <1>1, Zenon DEF OpToRel
  <1> QED
    BY <1>2

\* The pairs that load, in an order: each has one place.
LEMMA PlacesOfFound ==
  ASSUME NEW good \in SUBSET Keys, NEW found \in Orders(good)
  PROVE  /\ Len(found) \in Nat
         /\ DOMAIN found = 1 .. Len(found)
         /\ \A i \in DOMAIN found : found[i] \in good
         /\ \A k \in good : \E i \in DOMAIN found : found[i] = k
         /\ \A i, j \in DOMAIN found : found[i] = found[j] => i = j
  <1> DEFINE n == Cardinality(good)
  <1>1. IsFiniteSet(good) /\ n \in Nat
    BY DiskAssumption, FS_Subset, FS_CardinalityType
  <1>2. /\ found \in [1 .. n -> good]
        /\ {found[i] : i \in DOMAIN found} = good
    BY DEF Orders
  <1> HIDE DEF n
  <1>3. found \in Seq(good)
    BY <1>1, <1>2, SeqDef
  <1>4. Len(found) \in Nat /\ DOMAIN found = 1 .. Len(found)
    BY <1>3, LenProperties
  <1>5. DOMAIN found = 1 .. n
    BY <1>2
  <1>6. \A k \in good : \E i \in 1 .. n : found[i] = k
    BY <1>2, <1>5
  <1>7. found \in Surjection(1 .. n, good)
    BY <1>2, <1>6, Fun_IsSurj
  <1>8. IsFiniteSet(1 .. n) /\ Cardinality(1 .. n) = n
    BY <1>1, FS_Interval
  <1>9. found \in Injection(1 .. n, good)
    BY <1>7, <1>8, FS_SurjSameCardinalityImpliesInj DEF n
  <1>10. \A i, j \in 1 .. n : found[i] = found[j] => i = j
    BY <1>9, Fun_InjectionProperties
  <1> QED
    BY <1>2, <1>4, <1>5, <1>6, <1>10

\* What is kept of them is the end of that order.
LEMMA KeptIsTheEnd ==
  ASSUME NEW good \in SUBSET Keys, NEW found \in Orders(good)
  PROVE  /\ Kept(found) \subseteq good
         /\ \A i, j \in DOMAIN found : i < j /\ found[i] \in Kept(found) => found[j] \in Kept(found)
  <1>1. /\ Len(found) \in Nat
        /\ DOMAIN found = 1 .. Len(found)
        /\ \A i \in DOMAIN found : found[i] \in good
        /\ \A i, j \in DOMAIN found : found[i] = found[j] => i = j
    BY PlacesOfFound
  <1>2. ASSUME NEW i \in DOMAIN found, found[i] \in Kept(found)
        PROVE  i + MaxCachedPages > Len(found)
    BY <1>1, <1>2 DEF Kept
  <1>3. ASSUME NEW i \in DOMAIN found, NEW j \in DOMAIN found, i < j, found[i] \in Kept(found)
        PROVE  found[j] \in Kept(found)
    <2>1. i + MaxCachedPages > Len(found)
      BY <1>2, <1>3
    <2>2. j + MaxCachedPages > Len(found)
      BY <1>1, <1>3, <2>1, MaxCachedPagesAssumption
    <2> QED
      BY <2>2 DEF Kept
  <1> QED
    BY <1>1, <1>3 DEF Kept

\* The cache a boot builds is one the operations of a cache could have built.
LEMMA LoadedIsSound ==
  ASSUME NEW good \in SUBSET Keys, NEW found \in Orders(good), NEW aged,
         NEW left \in [Keys -> Pair],
         \A k \in good : Vouched(left[k])
  PROVE  LET c == LoadedCache(found, left, aged)
         IN  /\ c \in PageCaches
             /\ Cached(c) = Kept(found)
             /\ \A k \in Kept(found) :
                  c.pages[k] = [body |-> left[k].html, head |-> left[k].json,
                                tags |-> TagsOf[k], aged |-> k \in aged]
             /\ IndexExact(c)
             /\ OrderLinear(c)
  <1> DEFINE c == LoadedCache(found, left, aged)
             kept == Kept(found)
             entry(k) == [body |-> left[k].html, head |-> left[k].json,
                          tags |-> TagsOf[k], aged |-> k \in aged]
  <1>1. /\ DOMAIN found \subseteq Nat
        /\ \A i \in DOMAIN found : found[i] \in good
        /\ \A k \in good : \E i \in DOMAIN found : found[i] = k
        /\ \A i, j \in DOMAIN found : found[i] = found[j] => i = j
    BY PlacesOfFound
  <1>2. /\ kept \subseteq good /\ kept \subseteq Keys
        /\ \A i, j \in DOMAIN found : i < j /\ found[i] \in kept => found[j] \in kept
    BY KeptIsTheEnd
  <1>3. ASSUME NEW k \in kept PROVE entry(k) \in Entry
    <2>1. left[k] \in Pair /\ Vouched(left[k])
      BY <1>2
    <2>2. left[k].html \in Nat /\ left[k].json \in Nat
      BY <2>1, BoundsAssumption DEF Pair, Files, Versions, Vouched
    <2>3. TagsOf[k] \in SUBSET Tags /\ (k \in aged) \in BOOLEAN
      BY <1>2, PolicyAssumption
    <2> QED
      BY <2>2, <2>3 DEF Entry
  <1>4. \A k \in Keys : c.pages[k] = IF k \in kept THEN entry(k) ELSE Absent
    BY DEF LoadedCache
  <1>5. /\ c.pages \in [Keys -> Entry \cup {Absent}]
        /\ c = [pages |-> c.pages, older |-> c.older, byTag |-> c.byTag]
    BY <1>3 DEF LoadedCache
  <1>6. c.byTag = [t \in Tags |-> {k \in kept : t \in TagsOf[k]}]
    BY DEF LoadedCache
  <1>7. \A p : p \in c.older <=> \E i, j \in DOMAIN found :
                  i < j /\ found[i] \in kept /\ p = <<found[i], found[j]>>
    <2> DEFINE D == DOMAIN found
               Q == {q \in D \X D : q[1] < q[2] /\ found[q[1]] \in kept}
    <2>1. c.older = {<<found[q[1]], found[q[2]]>> : q \in Q}
      BY DEF LoadedCache
    <2>2. ASSUME NEW p, p \in c.older
          PROVE  \E i, j \in D : i < j /\ found[i] \in kept /\ p = <<found[i], found[j]>>
      <3>1. PICK q \in Q : p = <<found[q[1]], found[q[2]]>>
        BY <2>1, <2>2
      <3>2. q[1] \in D /\ q[2] \in D /\ q[1] < q[2] /\ found[q[1]] \in kept
        OBVIOUS
      <3> QED
        BY <3>1, <3>2
    <2>3. ASSUME NEW i \in D, NEW j \in D, i < j, found[i] \in kept
          PROVE  <<found[i], found[j]>> \in c.older
      <3>1. <<i, j>> \in Q
        BY <2>3
      <3> QED
        BY <2>1, <3>1
    <2> QED
      BY <2>2, <2>3
  <1> HIDE DEF kept, c, entry
  <1>8. Cached(c) = kept
    <2>1. \A k \in kept : entry(k) # Absent
      BY <1>3, AbsentAssumption
    <2> QED
      BY <1>2, <1>4, <2>1 DEF Cached
  <1>9. \A k \in kept : c.pages[k] = entry(k)
    BY <1>2, <1>4
  <1>10. IndexExact(c)
    <2> SUFFICES ASSUME NEW t \in Tags, NEW k \in Keys
                 PROVE  k \in c.byTag[t] <=> Carries(c, k, t)
      BY DEF IndexExact
    <2>1. k \in c.byTag[t] <=> k \in kept /\ t \in TagsOf[k]
      BY <1>6
    <2>2. CASE k \in kept
      <3>1. c.pages[k] = entry(k) /\ c.pages[k] # Absent /\ entry(k).tags = TagsOf[k]
        BY <1>3, <1>9, <2>2, AbsentAssumption DEF entry
      <3> QED
        BY <2>1, <2>2, <3>1 DEF Carries
    <2>3. CASE k \notin kept
      BY <1>4, <2>1, <2>3 DEF Carries
    <2> QED
      BY <2>2, <2>3
  <1>11. c \in PageCaches
    <2>1. c.byTag \in [Tags -> SUBSET Keys]
      BY <1>2, <1>6
    <2>2. c.older \in SUBSET (Keys \X Keys)
      BY <1>1, <1>2, <1>7
    <2> QED
      BY <1>5, <2>1, <2>2 DEF PageCaches
  <1>12. OrderOnCached(c)
    BY <1>2, <1>7, <1>8 DEF OrderOnCached
  <1>13. \A i, j \in DOMAIN found :
           found[i] \in kept => (<<found[i], found[j]>> \in c.older <=> i < j)
    BY <1>1, <1>7
  <1>14. OrderTotal(c)
    <2> SUFFICES ASSUME NEW j \in kept, NEW k \in kept, j # k
                 PROVE  <<j, k>> \in c.older <=> <<k, j>> \notin c.older
      BY <1>8 DEF OrderTotal
    <2>1. PICK a \in DOMAIN found, b \in DOMAIN found : found[a] = j /\ found[b] = k
      BY <1>1, <1>2
    <2>2. a \in Nat /\ b \in Nat /\ a # b
      BY <1>1, <2>1
    <2>3. (<<j, k>> \in c.older <=> a < b) /\ (<<k, j>> \in c.older <=> b < a)
      BY <1>13, <2>1
    <2> QED
      BY <2>2, <2>3
  <1>15. OrderIrreflexive(c)
    <2> SUFFICES ASSUME NEW k \in Keys, <<k, k>> \in c.older PROVE FALSE
      BY DEF OrderIrreflexive
    <2>1. PICK i \in DOMAIN found, j \in DOMAIN found : i < j /\ <<k, k>> = <<found[i], found[j]>>
      BY <1>7
    <2>2. found[i] = found[j] /\ i \in Nat /\ j \in Nat
      BY <1>1, <2>1
    <2>3. i = j
      BY <1>1, <2>2
    <2> QED
      BY <2>1, <2>2, <2>3
  <1>16. OrderTransitive(c)
    <2> SUFFICES ASSUME NEW x \in Keys, NEW y \in Keys, NEW z \in Keys,
                        <<x, y>> \in c.older, <<y, z>> \in c.older
                 PROVE  <<x, z>> \in c.older
      BY DEF OrderTransitive
    <2>1. PICK i \in DOMAIN found, j \in DOMAIN found :
            i < j /\ found[i] \in kept /\ x = found[i] /\ y = found[j]
      BY <1>7
    <2>2. PICK a \in DOMAIN found, b \in DOMAIN found : a < b /\ y = found[a] /\ z = found[b]
      BY <1>7
    <2>3. a = j /\ i \in Nat /\ j \in Nat /\ b \in Nat
      BY <1>1, <2>1, <2>2
    <2>4. i < b
      BY <2>1, <2>2, <2>3
    <2> QED
      BY <1>7, <2>1, <2>2, <2>4
  <1>17. OrderFounded(c)
    <2> SUFFICES ASSUME NEW S \in SUBSET kept, S # {}
                 PROVE  \E k \in S : IsFront(c.older, S, k)
      BY <1>8 DEF OrderFounded
    <2> DEFINE places == {i \in DOMAIN found : found[i] \in S}
    <2>1. places \subseteq Nat /\ places # {}
      BY <1>1, <1>2
    <2>2. PICK i \in places : \A j \in places : i <= j
      BY <2>1, LeastPlace
    <2>3. IsFront(c.older, S, found[i])
      <3> SUFFICES ASSUME NEW x \in S \ {found[i]} PROVE <<found[i], x>> \in c.older
        BY DEF IsFront
      <3>1. PICK j \in DOMAIN found : found[j] = x
        BY <1>1, <1>2
      <3>2. j \in places /\ i \in Nat /\ j \in Nat /\ i # j
        BY <1>1, <3>1
      <3>3. i < j
        BY <2>2, <3>2
      <3> QED
        BY <1>7, <3>1, <3>3
    <2> QED
      BY <2>3
  <1> QED
    BY <1>8, <1>9, <1>10, <1>11, <1>12, <1>14, <1>15, <1>16, <1>17 DEF OrderLinear, c, kept, entry

\* What a crash leaves of a pair: itself, or the html of a save that was landing.
LEMMA LeftPairs ==
  ASSUME DiskBase, NEW left \in LeftByCrash
  PROVE  /\ left \in [Keys -> Pair]
         /\ \A k \in Keys :
              \/ left[k] = disk[k]
              \/ \E s \in Saves :
                   /\ save[s].stage # "idle" /\ Current(s) /\ save[s].key = k
                   /\ left[k].html = save[s].v
         /\ \A k \in Keys : left[k].html # NoFile => left[k].html <= ver[k]
  <1>1. CASE left = disk
    BY <1>1 DEF DiskBase, DTypeOK, FilesPast
  <1>2. ASSUME NEW s \in Saves, save[s].stage = "written", Current(s), left = HtmlLanded(s)
        PROVE  /\ left \in [Keys -> Pair]
               /\ \A k \in Keys :
                    \/ left[k] = disk[k]
                    \/ \E t \in Saves :
                         /\ save[t].stage # "idle" /\ Current(t) /\ save[t].key = k
                         /\ left[k].html = save[t].v
               /\ \A k \in Keys : left[k].html # NoFile => left[k].html <= ver[k]
    <2>1. /\ left \in [Keys -> Pair]
          /\ save[s].v <= ver[save[s].key]
          /\ \A k \in Keys \ {save[s].key} : left[k] = disk[k]
          /\ left[save[s].key].html = save[s].v
      BY <1>2, Landing
    <2>2. \A k \in Keys : left[k].html # NoFile => left[k].html <= ver[k]
      BY <2>1 DEF DiskBase, FilesPast
    <2> QED
      BY <1>2, <2>1, <2>2
  <1> QED
    BY <1>1, <1>2 DEF LeftByCrash

\* What a boot makes of the pairs it finds.
LEMMA RestartLoads ==
  ASSUME DiskBase, Restart
  PROVE  \E left \in LeftByCrash :
           /\ cache' \in PageCaches /\ IndexExact(cache') /\ OrderLinear(cache')
           /\ \A k \in Cached(cache') :
                /\ Vouched(left[k])
                /\ cache'.pages[k].body = left[k].html
                /\ cache'.pages[k].head = left[k].json
                /\ cache'.pages[k].tags = TagsOf[k]
                /\ disk'[k] = left[k]
           /\ disk' \in [Keys -> Pair]
           /\ \A k \in Keys : disk'[k] = left[k] \/ disk'[k] = [html |-> NoFile, json |-> NoFile]
           /\ sweep' \in SUBSET Keys
           /\ ~ReadErrors => \A k \in Keys :
                Vouched(disk'[k]) => k \in Cached(cache') \/ k \in sweep'
  <1>1. PICK left \in LeftByCrash, sameBuild \in BOOLEAN : LoadSaved(left, sameBuild)
    BY DEF Restart
  <1>2. PICK unreadable \in Unreadables(left) :
          LET good == {k \in Keys \ unreadable : sameBuild /\ Vouched(left[k])}
          IN  \E found \in Orders(good) :
                /\ \E aged \in SUBSET (Kept(found) \ Manual) :
                     cache' = LoadedCache(found, left, aged)
                /\ disk' = [k \in Keys |->
                     IF k \in good \cup unreadable THEN left[k]
                     ELSE [html |-> NoFile, json |-> NoFile]]
                /\ sweep' = good \ Kept(found)
    BY <1>1 DEF LoadSaved
  <1> DEFINE good == {k \in Keys \ unreadable : sameBuild /\ Vouched(left[k])}
  <1>0. PICK found \in Orders(good) :
          /\ \E aged \in SUBSET (Kept(found) \ Manual) :
               cache' = LoadedCache(found, left, aged)
          /\ disk' = [k \in Keys |->
               IF k \in good \cup unreadable THEN left[k]
               ELSE [html |-> NoFile, json |-> NoFile]]
          /\ sweep' = good \ Kept(found)
    BY <1>2
  <1>3. PICK aged \in SUBSET (Kept(found) \ Manual) :
          /\ cache' = LoadedCache(found, left, aged)
          /\ disk' = [k \in Keys |->
               IF k \in good \cup unreadable THEN left[k]
               ELSE [html |-> NoFile, json |-> NoFile]]
          /\ sweep' = good \ Kept(found)
    BY <1>0
  <1>4. good \in SUBSET Keys /\ \A k \in good : Vouched(left[k])
    OBVIOUS
  <1>5. left \in [Keys -> Pair]
    BY LeftPairs
  <1>6. unreadable \subseteq Keys /\ (~ReadErrors => unreadable = {})
    BY <1>2 DEF Unreadables
  <1> HIDE DEF good
  <1>7. /\ cache' \in PageCaches /\ IndexExact(cache') /\ OrderLinear(cache')
        /\ Cached(cache') = Kept(found)
        /\ \A k \in Kept(found) :
             cache'.pages[k] = [body |-> left[k].html, head |-> left[k].json,
                                tags |-> TagsOf[k], aged |-> k \in aged]
    BY <1>3, <1>4, <1>5, LoadedIsSound
  <1>8. Kept(found) \subseteq good
    BY <1>4, KeptIsTheEnd
  <1>9. \A k \in Keys : disk'[k] = IF k \in good \cup unreadable THEN left[k]
                                   ELSE [html |-> NoFile, json |-> NoFile]
    BY <1>3
  <1>10. disk' \in [Keys -> Pair]
    <2>1. [html |-> NoFile, json |-> NoFile] \in Pair
      BY DEF Pair, Files
    <2>2. disk' = [k \in Keys |-> disk'[k]]
      BY <1>3
    <2> QED
      BY <1>5, <1>9, <2>1, <2>2
  <1>11. \A k \in Cached(cache') :
           /\ Vouched(left[k])
           /\ cache'.pages[k].body = left[k].html
           /\ cache'.pages[k].head = left[k].json
           /\ cache'.pages[k].tags = TagsOf[k]
           /\ disk'[k] = left[k]
    <2> SUFFICES ASSUME NEW k \in Kept(found)
                 PROVE  /\ Vouched(left[k])
                        /\ cache'.pages[k].body = left[k].html
                        /\ cache'.pages[k].head = left[k].json
                        /\ cache'.pages[k].tags = TagsOf[k]
                        /\ disk'[k] = left[k]
      BY <1>7
    <2>1. k \in good /\ k \in Keys
      BY <1>4, <1>8
    <2>2. Vouched(left[k]) /\ disk'[k] = left[k]
      BY <1>4, <1>9, <2>1
    <2>3. cache'.pages[k] = [body |-> left[k].html, head |-> left[k].json,
                             tags |-> TagsOf[k], aged |-> k \in aged]
      BY <1>7
    <2> QED
      BY <2>2, <2>3
  <1>12. sweep' \in SUBSET Keys
    BY <1>3, <1>4
  <1>13. ASSUME ~ReadErrors, NEW k \in Keys, Vouched(disk'[k])
         PROVE  k \in Cached(cache') \/ k \in sweep'
    <2>1. k \in good
      <3>1. ~Vouched([html |-> NoFile, json |-> NoFile])
        BY DEF Vouched
      <3> QED
        BY <1>6, <1>9, <1>13, <3>1
    <2> QED
      BY <1>3, <1>7, <2>1
  <1> QED
    BY <1>7, <1>9, <1>10, <1>11, <1>12, <1>13

\* A new process has no request, no render and no invalidation yet, and its
\* copies are no newer than the data.
LEMMA BaseOfRestart ==
  ASSUME DiskBase, Restart PROVE DiskBase'
  <1>1. PICK left \in LeftByCrash :
           /\ cache' \in PageCaches /\ IndexExact(cache') /\ OrderLinear(cache')
           /\ \A k \in Cached(cache') :
                /\ Vouched(left[k])
                /\ cache'.pages[k].body = left[k].html
                /\ cache'.pages[k].head = left[k].json
                /\ cache'.pages[k].tags = TagsOf[k]
           /\ disk' \in [Keys -> Pair]
           /\ \A k \in Keys : disk'[k] = left[k] \/ disk'[k] = [html |-> NoFile, json |-> NoFile]
           /\ sweep' \in SUBSET Keys
    BY RestartLoads
  <1>2. /\ left \in [Keys -> Pair]
        /\ \A k \in Keys : left[k].html # NoFile => left[k].html <= ver[k]
    BY LeftPairs
  <1>3. /\ floor' = [k \in Keys |-> 0]
        /\ refused' = [of |-> [k \in Keys |-> Absent], older |-> {}]
        /\ inflight' = [k \in Keys |-> NoFlight]
        /\ flight' = [f \in Flights |-> Parked]
        /\ req' = [r \in Requests |->
                     [waiting |-> FALSE, key |-> SomeKey, min |-> 0,
                      flight |-> NoFlight, got |-> Own]]
        /\ saveGen' = [k \in Keys |-> 0] /\ lastGen' = 0
        /\ save' = [s \in Saves |-> NoSave]
        /\ drain' = [d \in Drains |-> NoDrain]
        /\ lent' = [k \in Keys |-> 0]
        /\ UNCHANGED <<ver, promised>>
    BY DEF Restart, Nothing
  <1>4. SomeKey \in Keys
    BY BoundsAssumption DEF SomeKey
  <1>5. ver \in [Keys -> Versions] /\ promised \in [Keys -> Versions]
    BY DEF DiskBase, DTypeOK, TypeOK
  <1>6. Refused' = {} /\ RefusedTyped'
    BY <1>3 DEF Refused, RefusedTyped
  <1>7. \A f \in Flights : flight'[f].stage = "idle"
    BY <1>3 DEF Parked
  <1>8. TypeOK'
    BY <1>1, <1>3, <1>4, <1>5, <1>6, BoundsAssumption
       DEF TypeOK, Versions, FlightState, RequestState, Parked
  <1>9. FloorsPast'
    BY <1>3, <1>5, BoundsAssumption DEF FloorsPast, Versions
  <1>10. ASSUME NEW k \in Cached(cache')
         PROVE  /\ floor'[k] <= cache'.pages[k].body /\ cache'.pages[k].body <= ver'[k]
                /\ cache'.pages[k].tags = TagsOf[k]
                /\ cache'.pages[k].body = cache'.pages[k].head
    <2>1. k \in Keys /\ left[k] \in Pair /\ Vouched(left[k])
      BY <1>1, <1>2 DEF Cached
    <2>2. left[k].html \in Nat /\ left[k].html # NoFile /\ left[k].html = left[k].json
      BY <2>1, BoundsAssumption, DiskAssumption DEF Pair, Files, Versions, Vouched
    <2> QED
      BY <1>1, <1>2, <1>3, <2>1, <2>2
  <1>11. CopiesTrue' /\ WholeCopies'
    BY <1>10 DEF CopiesTrue, WholeCopies
  <1>12. FlightsTrue' /\ WaitersTrue' /\ AnswersAreFresh'
    BY <1>3, <1>7 DEF FlightsTrue, WaitersTrue, AnswersAreFresh, Live
  <1>13. OneRenderPerKey' /\ InflightRuns'
    BY <1>3, <1>7 DEF OneRenderPerKey, InflightRuns, Live
  <1>14. RefusalsAreFresh' /\ PursuedIsNotRefused' /\ RefusedIsNotCached'
    BY <1>6 DEF RefusalsAreFresh, PursuedIsNotRefused, RefusedIsNotCached
  <1>15. MissedIsNotCached'
    BY <1>7 DEF MissedIsNotCached, Pursues
  <1>16. IInv'
    BY <1>1, <1>8, <1>9, <1>11, <1>12, <1>13, <1>14, <1>15 DEF IInv
  <1>17. /\ saveGen' \in [Keys -> 0 .. MaxGen] /\ lastGen' \in 0 .. MaxGen
         /\ save' \in [Saves -> SaveState] /\ \A s \in Saves : save'[s].stage = "idle"
         /\ drain' \in [Drains -> DrainState] /\ DrainsRest'
         /\ \A d \in Drains : drain'[d].half \subseteq drain'[d].list
    <2>1. NoSave \in SaveState /\ NoSave.stage = "idle"
      BY <1>4, BoundsAssumption, DiskAssumption DEF NoSave, SaveState, Versions
    <2>2. NoDrain \in DrainState /\ NoDrain.list = {} /\ NoDrain.half = {}
      BY BoundsAssumption DEF NoDrain, DrainState, Nothing, Versions
    <2> QED
      BY <1>3, <2>1, <2>2, DiskAssumption DEF DrainsRest
  <1>18. DTypeOK'
    <2>1. lent' \in [Keys -> Versions]
      BY <1>3, BoundsAssumption DEF Versions
    <2> QED
      BY <1>1, <1>3, <1>5, <1>8, <1>17, <2>1 DEF DTypeOK
  <1>19. FilesPast'
    BY <1>1, <1>2, <1>3 DEF FilesPast
  <1>20. SavesPast' /\ GensPast'
    BY <1>3, <1>17 DEF SavesPast, GensPast
  <1> QED
    BY <1>1, <1>11, <1>16, <1>17, <1>18, <1>19, <1>20 DEF DiskBase

-----------------------------------------------------------------------------
(* Copies are whole: whatever a boot can read or not.                      *)

LEMMA BaseInit == DInit => DiskBase
  <1> SUFFICES ASSUME DInit PROVE DiskBase
    OBVIOUS
  <1>1. IInv /\ TypeOK
    BY IInvInit DEF DInit, IInv
  <1>2. Cached(cache) = {} /\ cache.older = {}
    BY DEF DInit, Init, EmptyCache, Cached
  <1>3. OrderLinear(cache)
    BY <1>2 DEF OrderLinear, OrderOnCached, OrderFounded, OrderTotal, OrderIrreflexive,
                OrderTransitive
  <1>4. SomeKey \in Keys
    BY BoundsAssumption DEF SomeKey
  <1>5. NoSave \in SaveState /\ NoSave.stage = "idle"
    BY <1>4, BoundsAssumption, DiskAssumption DEF NoSave, SaveState, Versions
  <1>6. NoDrain \in DrainState /\ NoDrain.list = {} /\ NoDrain.half = {}
    BY BoundsAssumption DEF NoDrain, DrainState, Nothing, Versions
  <1>7. DTypeOK
    BY <1>1, <1>5, <1>6, BoundsAssumption, DiskAssumption
       DEF DInit, DTypeOK, Pair, Files, Nothing, Versions
  <1>8. DrainsRest /\ WholeCopies /\ FilesPast /\ SavesPast /\ GensPast
    BY <1>2, <1>5, <1>6
       DEF DInit, DrainsRest, WholeCopies, FilesPast, SavesPast, GensPast, Nothing
  <1> QED
    BY <1>1, <1>3, <1>7, <1>8 DEF DiskBase

\* The kinds of step: of the memory, a store, of a save, of a drain, a restart.
LEMMA StepKinds ==
  ASSUME DiskBase, DNext
  PROVE  \/ MemoryStep /\ OrderLinear(cache')
         \/ \E f \in Flights : StoreAndSave(f) /\ ~flight[f].doomed
         \/ \E s \in Saves : SaveWrites(s) \/ SaveLands(s) \/ SaveFails(s)
         \/ \E d \in Drains : DrainTakes(d) \/ DrainRemoves(d) \/ DrainEnds(d)
         \/ Restart
  <1>1. DTypeOK /\ IInv /\ OrderLinear(cache)
    BY DEF DiskBase
  <1> QED
    BY <1>1, QuietIsMemory, UnstorableIsMemory, EndIsMemory, DoomedIsMemory,
       RevalidationsAreMemory DEF DNext

LEMMA BaseStep == DiskBase /\ [DNext]_dvars => DiskBase'
  <1> SUFFICES ASSUME DiskBase, [DNext]_dvars PROVE DiskBase'
    OBVIOUS
  <1>1. CASE DNext
    BY <1>1, StepKinds, BaseOfMemory, BaseOfStore, BaseOfSave, BaseOfDrain, BaseOfRestart
  <1>2. CASE UNCHANGED dvars
    <2>1. UNCHANGED <<vars, disk, saveGen, lastGen, save, sweep, drain, promised, lent>>
      BY <1>2 DEF dvars, fileVars
    <2>2. IInv' /\ TypeOK' /\ OrderLinear(cache') /\ WholeCopies'
      BY <2>1, MemoryStands
    <2>3. UNCHANGED ver
      BY <2>1 DEF vars
    <2> QED
      BY <2>1, <2>2, <2>3 DEF DiskBase, DTypeOK, DrainsRest, FilesPast, SavesPast, GensPast
  <1> QED
    BY <1>1, <1>2

\* A crash between the two renames of a save, a rename that failed after the
\* first one, or a drain that removed half a pair: no copy is ever put together
\* from two renders (isr.go readSaved).
THEOREM CopiesAreWhole == DSpec => []WholeCopies
  <1>1. DiskBase => WholeCopies
    BY DEF DiskBase
  <1> QED
    BY BaseInit, BaseStep, <1>1, PTL DEF DSpec

-----------------------------------------------------------------------------
(* The files follow the memory, when a boot can read what is there.        *)

\* What a step of the memory does to the queue of the pairs to remove.
LEMMA MemoryQueues ==
  ASSUME DiskBase, MemoryStep
  PROVE  /\ \A k \in Keys : Pending(k) => Pending(k)'
         /\ \A k \in Cached(cache) : k \notin Cached(cache') => k \in sweep'
         /\ \A k \in Keys : saveGen'[k] = IF k \in Dropped THEN 0 ELSE saveGen[k]
         /\ \A d \in Drains : drain'[d].list = drain[d].list
         /\ sweep \subseteq sweep'
  <1>1. \A d \in Drains : drain'[d].list = drain[d].list
    <2>1. CASE UNCHANGED drain
      BY <2>1
    <2>2. CASE OwesAtMost
      BY <2>2, OwesTyped DEF OwesAtMost, DiskBase, DTypeOK
    <2> QED
      BY <2>1, <2>2 DEF MemoryStep
  <1>2. sweep' = sweep \cup Dropped
    BY DEF MemoryStep, Queue
  <1>3. \A k \in Cached(cache) : k \notin Cached(cache') => k \in Dropped
    BY DEF Dropped, Cached
  <1>4. \A k \in Keys : saveGen'[k] = IF k \in Dropped THEN 0 ELSE saveGen[k]
    BY ForgottenFacts DEF MemoryStep, DiskBase
  <1> QED
    BY <1>1, <1>2, <1>3, <1>4 DEF Pending, Listed

LEMMA FollowsMemory ==
  ASSUME DiskFollows, MemoryStep, DiskBase' PROVE DiskFollows'
  <1> USE DEF DiskFollows
  <1>0. /\ cache \in PageCaches /\ floor \in [Keys -> Versions]
        /\ UNCHANGED <<disk, save>>
        /\ Cached(cache') \subseteq Cached(cache)
        /\ \A k \in Cached(cache') : cache'.pages[k].body = cache.pages[k].body
        /\ \A k \in Keys : floor'[k] = floor[k] \/ k \notin Cached(cache')
    BY DEF DiskBase, DTypeOK, TypeOK, MemoryStep, Shrinks
  <1>1. /\ \A k \in Keys : Pending(k) => Pending(k)'
        /\ \A k \in Cached(cache) : k \notin Cached(cache') => k \in sweep'
        /\ \A k \in Keys : saveGen'[k] = IF k \in Dropped THEN 0 ELSE saveGen[k]
    BY MemoryQueues
  <1>2. PairsFollowMemory'
    <2> SUFFICES ASSUME NEW k \in Keys, Vouched(disk[k]), ~Pending(k)'
                 PROVE  /\ k \in Cached(cache')
                        /\ disk[k].html \in floor'[k] .. cache'.pages[k].body
      BY <1>0 DEF PairsFollowMemory
    <2>1. k \in Cached(cache) /\ disk[k].html \in floor[k] .. cache.pages[k].body
      BY <1>1 DEF PairsFollowMemory
    <2>2. k \in Cached(cache')
      BY <1>1, <2>1 DEF Pending, Listed
    <2> QED
      BY <1>0, <2>1, <2>2
  <1>3. ReadsAhead'
    <2> SUFFICES ASSUME NEW f \in Flights, NEW k \in Cached(cache'),
                        Read(f)', flight'[f].key = k
                 PROVE  cache'.pages[k].body <= flight'[f].v
      BY DEF ReadsAhead
    <2>1. /\ k \in Cached(cache) /\ cache'.pages[k].body = cache.pages[k].body
          /\ cache.pages[k].body <= ver[k]
      BY <1>0 DEF DiskBase, IInv, CopiesTrue
    <2>2. \/ Read(f) /\ flight[f].key = k /\ flight'[f].v = flight[f].v
          \/ flight'[f].v = ver[k]
      BY ReadsOfSteps DEF ReadsMove, MemoryStep, DiskBase
    <2> QED
      BY <2>1, <2>2 DEF ReadsAhead
  <1>4. SavesCurrent'
    <2> SUFFICES ASSUME NEW s \in Saves, save[s].stage # "idle", saveGen'[save[s].key] = save[s].gen
                 PROVE  /\ save[s].key \in Cached(cache')
                        /\ cache'.pages[save[s].key].body = save[s].v
      BY <1>0 DEF SavesCurrent, Current
    <2>1. save[s].key \in Keys /\ save[s].gen \in Nat /\ save[s].gen # 0
      BY DiskAssumption DEF DiskBase, DTypeOK, SaveState, SavesPast
    <2>2. save[s].key \notin Dropped /\ Current(s)
      BY <1>1, <2>1 DEF Current
    <2>3. save[s].key \in Cached(cache) /\ cache.pages[save[s].key].body = save[s].v
      BY <2>2 DEF SavesCurrent
    <2>4. save[s].key \in Cached(cache')
      BY <2>1, <2>2, <2>3 DEF Dropped, Cached
    <2> QED
      BY <1>0, <2>3, <2>4
  <1> QED
    BY <1>2, <1>3, <1>4

\* What is stored is what the last save is of, and no older than what it replaces.
LEMMA FollowsStore ==
  ASSUME DiskFollows, NEW f \in Flights, StoreAndSave(f), ~flight[f].doomed, DiskBase'
  PROVE  DiskFollows'
  <1> USE DEF DiskFollows
  <1> DEFINE k == flight[f].key
             v == flight[f].v
  <1>0. DTypeOK /\ IInv /\ OrderLinear(cache) /\ Read(f)
    BY DEF DiskBase, StoreAndSave, RenderStored, Read
  <1>1. /\ k \in Keys /\ v \in Versions
        /\ k \in Cached(cache')
        /\ Cached(cache') \subseteq Cached(cache) \cup {k}
        /\ cache'.pages[k].body = v
        /\ \A j \in Cached(cache') \ {k} : cache'.pages[j] = cache.pages[j]
        /\ UNCHANGED <<ver, floor>>
    BY <1>0, StoreGrows
  <1>2. /\ lastGen' = lastGen + 1
        /\ saveGen'[k] = lastGen'
        /\ \A j \in Keys \ {k} : saveGen'[j] = IF j \in Dropped THEN 0 ELSE saveGen[j]
        /\ \A s \in Saves :
             \/ save'[s] = save[s]
             \/ /\ save'[s].stage = "writing" /\ save'[s].key = k
                /\ save'[s].gen = lastGen' /\ save'[s].v = v
        /\ sweep' = sweep \cup Dropped
        /\ UNCHANGED <<disk, drain, promised, lent>>
    BY <1>0, SaveStarts
  <1>3. /\ cache \in PageCaches /\ floor \in [Keys -> Versions] /\ Versions \subseteq Nat
        /\ lastGen \in Nat
    BY BoundsAssumption, DiskAssumption DEF DiskBase, DTypeOK, TypeOK, Versions
  <1>4. k \in Cached(cache) => cache.pages[k].body <= v
    BY <1>0 DEF ReadsAhead
  <1>5. \A j \in Cached(cache) : j \notin Cached(cache') => j \in Dropped
    BY DEF Dropped, Cached
  <1>6. ReadsMove
    <2>1. Next
      BY DEF StoreAndSave, Next, FlightStep
    <2> QED
      BY <1>0, <2>1, ReadsOfSteps
  <1>7. \A g \in Flights : Read(g)' /\ flight'[g].key = k => flight'[g].v = ver[k]
    <2> SUFFICES ASSUME NEW g \in Flights, Read(g)', flight'[g].key = k, flight'[g].v # ver[k]
                 PROVE  FALSE
      OBVIOUS
    <2>1. Read(g) /\ flight[g].key = k
      BY <1>6 DEF ReadsMove
    <2>2. g = f
      BY <1>0, <2>1 DEF IInv, OneRenderPerKey, Registered, Live, Read
    <2>3. flight'[f].stage = "page"
      BY <1>0 DEF StoreAndSave, RenderStored, Settle, IInv, TypeOK, FlightState
    <2> QED
      BY <2>2, <2>3 DEF Read
  <1> HIDE DEF k, v
  <1>8. PairsFollowMemory'
    <2> SUFFICES ASSUME NEW j \in Keys, Vouched(disk[j]), ~Pending(j)'
                 PROVE  /\ j \in Cached(cache')
                        /\ disk[j].html \in floor[j] .. cache'.pages[j].body
      BY <1>1, <1>2 DEF PairsFollowMemory
    <2>1. ~Pending(j) /\ j \notin Dropped
      BY <1>2 DEF Pending, Listed
    <2>2. j \in Cached(cache) /\ disk[j].html \in floor[j] .. cache.pages[j].body
      BY <2>1 DEF PairsFollowMemory
    <2>3. j \in Cached(cache')
      BY <1>5, <2>1, <2>2
    <2>4. cache.pages[j].body \in Nat
      BY <1>3, <2>2 DEF PageCaches, Cached, Entry
    <2>5. CASE j = k
      <3>1. cache.pages[j].body <= v /\ cache'.pages[j].body = v /\ v \in Nat
        BY <1>1, <1>3, <1>4, <2>2, <2>5
      <3>2. floor[j] \in Nat
        BY <1>3
      <3> QED
        BY <2>2, <2>3, <2>4, <3>1, <3>2
    <2>6. CASE j # k
      BY <1>1, <2>2, <2>3, <2>6
    <2> QED
      BY <2>5, <2>6
  <1>9. ReadsAhead'
    <2> SUFFICES ASSUME NEW g \in Flights, NEW j \in Cached(cache'), Read(g)', flight'[g].key = j
                 PROVE  cache'.pages[j].body <= flight'[g].v
      BY DEF ReadsAhead
    <2>1. cache'.pages[j].body <= ver[j]
      BY <1>1 DEF DiskBase, IInv, CopiesTrue
    <2>2. CASE j = k
      BY <1>7, <2>1, <2>2
    <2>3. CASE j # k
      <3>1. j \in Cached(cache) /\ cache'.pages[j].body = cache.pages[j].body
        BY <1>1, <2>3
      <3>2. \/ Read(g) /\ flight[g].key = j /\ flight'[g].v = flight[g].v
            \/ flight'[g].v = ver[j]
        BY <1>6 DEF ReadsMove
      <3> QED
        BY <2>1, <3>1, <3>2 DEF ReadsAhead
    <2> QED
      BY <2>2, <2>3
  <1>10. SavesCurrent'
    <2> SUFFICES ASSUME NEW s \in Saves, save'[s].stage # "idle", saveGen'[save'[s].key] = save'[s].gen
                 PROVE  /\ save'[s].key \in Cached(cache')
                        /\ cache'.pages[save'[s].key].body = save'[s].v
      BY DEF SavesCurrent, Current
    <2>1. CASE save'[s].key = k /\ save'[s].v = v
      BY <1>1, <2>1
    <2>2. CASE save'[s] = save[s]
      <3>1. save[s].key \in Keys /\ save[s].gen \in Nat /\ save[s].gen # 0 /\ save[s].gen <= lastGen
        BY <2>2, DiskAssumption DEF DiskBase, DTypeOK, SaveState, SavesPast
      <3>2. save[s].key # k
        BY <1>2, <1>3, <2>2, <3>1
      <3>3. save[s].key \notin Dropped /\ saveGen[save[s].key] = save[s].gen
        BY <1>2, <2>2, <3>1, <3>2
      <3>4. save[s].key \in Cached(cache) /\ cache.pages[save[s].key].body = save[s].v
        BY <2>2, <3>3 DEF SavesCurrent, Current
      <3>5. save[s].key \in Cached(cache')
        BY <1>5, <3>3, <3>4
      <3> QED
        BY <1>1, <2>2, <3>2, <3>4, <3>5
    <2> QED
      BY <1>2, <2>1, <2>2
  <1> QED
    BY <1>8, <1>9, <1>10

\* A read is still one while the memory stands.
LEMMA ReadsStand ==
  ASSUME ReadsAhead, UNCHANGED vars PROVE ReadsAhead'
  BY DEF ReadsAhead, Read, vars

\* What lands is the copy its key has.
LEMMA LandedIsTheCopy ==
  ASSUME DiskFollows, NEW s \in Saves, SaveWrites(s) \/ SaveLands(s) \/ SaveFails(s)
  PROVE  \A k \in Keys :
           \/ disk'[k] = disk[k]
           \/ k \in Cached(cache) /\ disk'[k].html = cache.pages[k].body
  <1>1. \/ UNCHANGED disk
        \/ /\ save[s].stage # "idle" /\ Current(s)
           /\ disk' = HtmlLanded(s) \/ disk' = PairLanded(s)
    BY SaveSteps DEF DiskFollows
  <1>2. CASE /\ save[s].stage # "idle" /\ Current(s)
             /\ disk' = HtmlLanded(s) \/ disk' = PairLanded(s)
    <2>1. /\ \A k \in Keys \ {save[s].key} : disk'[k] = disk[k]
          /\ disk'[save[s].key].html = save[s].v
      <3>1. [html |-> save[s].v, json |-> save[s].v].html = save[s].v
        OBVIOUS
      <3> QED
        BY <1>2, <3>1, Landing DEF DiskFollows
    <2>2. save[s].key \in Cached(cache) /\ cache.pages[save[s].key].body = save[s].v
      BY <1>2 DEF DiskFollows, SavesCurrent
    <2> QED
      BY <2>1, <2>2
  <1> QED
    BY <1>1, <1>2

LEMMA FollowsSave ==
  ASSUME DiskFollows, NEW s \in Saves, SaveWrites(s) \/ SaveLands(s) \/ SaveFails(s), DiskBase'
  PROVE  DiskFollows'
  <1> USE DEF DiskFollows
  <1>1. /\ UNCHANGED <<vars, saveGen, lastGen, sweep, promised, lent>>
        /\ \A t \in Saves : \/ save'[t] = save[t]
                            \/ save'[t].stage = "idle"
                            \/ /\ save[t].stage # "idle" /\ save'[t].key = save[t].key
                               /\ save'[t].gen = save[t].gen /\ save'[t].v = save[t].v
        /\ UNCHANGED drain \/ Owes(Nothing)
    BY SaveSteps
  <1>2. \A d \in Drains : drain'[d].list = drain[d].list
    <2>1. Nothing \in [Keys -> Versions]
      BY BoundsAssumption DEF Nothing, Versions
    <2> QED
      BY <1>1, <2>1, OwesTyped DEF DiskBase, DTypeOK
  <1>3. UNCHANGED <<cache, floor>>
    BY <1>1 DEF vars
  <1>4. PairsFollowMemory'
    <2> SUFFICES ASSUME NEW k \in Keys, Vouched(disk'[k]), ~Pending(k)'
                 PROVE  k \in Cached(cache) /\ disk'[k].html \in floor[k] .. cache.pages[k].body
      BY <1>3 DEF PairsFollowMemory
    <2>1. ~Pending(k)
      BY <1>1, <1>2 DEF Pending, Listed
    <2>2. CASE disk'[k] = disk[k]
      BY <2>1, <2>2 DEF PairsFollowMemory
    <2>3. CASE k \in Cached(cache) /\ disk'[k].html = cache.pages[k].body
      <3>1. floor[k] <= cache.pages[k].body /\ floor[k] \in Nat
        BY <2>3, BoundsAssumption DEF DiskBase, IInv, CopiesTrue, TypeOK, Versions
      <3>2. cache.pages[k].body \in Nat
        BY <2>3 DEF DiskBase, IInv, TypeOK, PageCaches, Cached, Entry
      <3> QED
        BY <2>3, <3>1, <3>2
    <2> QED
      BY <2>2, <2>3, LandedIsTheCopy
  <1>5. SavesCurrent'
    BY <1>1, <1>3 DEF SavesCurrent, Current
  <1> QED
    BY <1>1, <1>4, <1>5, ReadsStand

\* A drain makes a pair unreadable before it forgets it.
LEMMA FollowsDrain ==
  ASSUME DiskFollows, NEW d \in Drains, DrainTakes(d) \/ DrainRemoves(d) \/ DrainEnds(d), DiskBase'
  PROVE  DiskFollows'
  <1> USE DEF DiskFollows
  <1>1. /\ UNCHANGED <<vars, saveGen, lastGen, save>>
        /\ \A k \in Keys :
             \/ disk'[k] = disk[k]
             \/ ~Vouched(disk'[k])
        /\ \A e \in Drains \ {d} : drain'[e] = drain[e]
        /\ \A k \in Keys :
             \/ ~Vouched(disk'[k])
             \/ k \in sweep => k \in sweep' \/ k \in drain'[d].list
        /\ \A k \in Keys :
             k \in drain[d].list => k \in drain'[d].list \/ ~Vouched(disk'[k])
    BY DrainSteps
  <1>2. UNCHANGED <<cache, floor>>
    BY <1>1 DEF vars
  <1>3. PairsFollowMemory'
    <2> SUFFICES ASSUME NEW k \in Keys, Vouched(disk'[k]), ~Pending(k)'
                 PROVE  k \in Cached(cache) /\ disk'[k].html \in floor[k] .. cache.pages[k].body
      BY <1>2 DEF PairsFollowMemory
    <2>1. ~Pending(k)
      BY <1>1 DEF Pending, Listed
    <2>2. disk'[k] = disk[k]
      BY <1>1
    <2> QED
      BY <2>1, <2>2 DEF PairsFollowMemory
  <1>4. SavesCurrent'
    BY <1>1, <1>2 DEF SavesCurrent, Current
  <1> QED
    BY <1>1, <1>3, <1>4, ReadsStand

\* A boot keeps what it loads and queues the rest, or removes it.
LEMMA FollowsRestart ==
  ASSUME ~ReadErrors, DiskFollows, Restart, DiskBase' PROVE DiskFollows'
  <1> USE DEF DiskFollows
  <1>1. PICK left \in LeftByCrash :
           /\ cache' \in PageCaches
           /\ \A k \in Cached(cache') :
                /\ cache'.pages[k].body = left[k].html
                /\ disk'[k] = left[k]
           /\ \A k \in Keys : Vouched(disk'[k]) => k \in Cached(cache') \/ k \in sweep'
    BY RestartLoads
  <1>2. /\ \A k \in Keys : floor'[k] = 0
        /\ \A f \in Flights : flight'[f].stage = "idle"
        /\ \A s \in Saves : save'[s].stage = "idle"
    BY DEF Restart, Nothing, Parked, NoSave
  <1>3. PairsFollowMemory'
    <2> SUFFICES ASSUME NEW k \in Keys, Vouched(disk'[k]), ~Pending(k)'
                 PROVE  k \in Cached(cache') /\ disk'[k].html \in floor'[k] .. cache'.pages[k].body
      BY DEF PairsFollowMemory
    <2>1. k \in Cached(cache')
      BY <1>1 DEF Pending, Listed
    <2>2. disk'[k].html = cache'.pages[k].body
      BY <1>1, <2>1
    <2>3. cache'.pages[k].body \in Nat
      BY <1>1, <2>1 DEF PageCaches, Cached, Entry
    <2> QED
      BY <1>2, <2>1, <2>2, <2>3
  <1>4. ReadsAhead' /\ SavesCurrent'
    BY <1>2 DEF ReadsAhead, Read, SavesCurrent
  <1> QED
    BY <1>3, <1>4

LEMMA FollowsInit == DInit => DiskFollows
  <1> SUFFICES ASSUME DInit PROVE DiskFollows
    OBVIOUS
  <1>1. DiskBase
    BY BaseInit
  <1>2. PairsFollowMemory
    BY DEF DInit, PairsFollowMemory, Vouched
  <1>3. ReadsAhead /\ SavesCurrent
    BY DEF DInit, Init, Parked, NoSave, ReadsAhead, Read, SavesCurrent
  <1> QED
    BY <1>1, <1>2, <1>3 DEF DiskFollows

LEMMA FollowsStep ==
  ASSUME ~ReadErrors PROVE DiskFollows /\ [DNext]_dvars => DiskFollows'
  <1> SUFFICES ASSUME DiskFollows, [DNext]_dvars PROVE DiskFollows'
    OBVIOUS
  <1>1. DiskBase /\ DiskBase'
    BY BaseStep DEF DiskFollows
  <1>2. CASE DNext
    BY <1>1, <1>2, StepKinds, FollowsMemory, FollowsStore, FollowsSave, FollowsDrain, FollowsRestart
  <1>3. CASE UNCHANGED dvars
    <2>1. UNCHANGED <<vars, disk, saveGen, lastGen, save, sweep, drain, promised, lent>>
      BY <1>3 DEF dvars, fileVars
    <2>2. UNCHANGED <<cache, floor>>
      BY <2>1 DEF vars
    <2>3. PairsFollowMemory' /\ SavesCurrent'
      BY <2>1, <2>2 DEF DiskFollows, PairsFollowMemory, Pending, Listed, SavesCurrent, Current
    <2> QED
      BY <1>1, <2>1, <2>3, ReadsStand DEF DiskFollows
  <1> QED
    BY <1>2, <1>3

\* The files never run ahead of the memory, whatever a crash, a save that is
\* overtaken by a Revalidate, or a drain leaves of a pair: what a restart would
\* load is the copy the process had or an older one no invalidation overtook,
\* or it is on its way out (isr.go saveEntry, forgetSaved, drain). The boots of
\* the theorem can read every file that is there.
THEOREM FilesAreBehind ==
  ASSUME ~ReadErrors PROVE DSpec => []FilesFollowMemory
  <1>1. DiskFollows => FilesFollowMemory
    BY DEF DiskFollows, DiskBase, FilesFollowMemory
  <1>2. DiskFollows /\ [DNext]_dvars => DiskFollows'
    BY FollowsStep
  <1> QED
    BY FollowsInit, <1>1, <1>2, PTL DEF DSpec

-----------------------------------------------------------------------------
(* What a Revalidate that returned has promised, by any number of drains: a  *)
(* promise made while another goroutine has the pair on its list counts when *)
(* that one is through.                                                      *)

\* a pair that is there keeps every promise made of it
FilesKept == \A k \in Keys : Vouched(disk[k]) => promised[k] <= disk[k].html

RendersKept == \A f \in Flights : Read(f) => promised[flight[f].key] <= flight[f].v

PromisesPast == \A k \in Keys : promised[k] <= ver[k]

\* the drain will take the pair from the queue, or someone has it already
OnItsWay(d, k) ==
  \/ drain[d].stage = "due" /\ k \in sweep
  \/ Listed(k)

\* What a drain is about to promise is not cached, and on disk it is removed
\* before the promise.
DrainsTrue ==
  \A d \in Drains : \A k \in Keys :
    drain[d].stage # "idle" =>
      /\ drain[d].upto[k] <= floor[k]
      /\ Vouched(disk[k]) => drain[d].upto[k] <= disk[k].html \/ OnItsWay(d, k)

\* What a Revalidate promised too early is not cached, and on disk it is on the
\* list of whoever has yet to remove it.
LentTrue ==
  \A k \in Keys :
    /\ lent[k] <= floor[k]
    /\ Vouched(disk[k]) => lent[k] <= disk[k].html \/ Listed(k)

DiskPromises ==
  /\ DiskFollows
  /\ FilesKept
  /\ NothingComesBack
  /\ RendersKept
  /\ PromisesPast
  /\ DrainsTrue
  /\ LentTrue

LEMMA FloorsGrow ==
  ASSUME IInv, Next
  PROVE  \A k \in Keys : floor[k] \in Nat /\ floor'[k] \in Nat /\ floor[k] <= floor'[k]
  <1>1. /\ floor \in [Keys -> Versions] /\ floor' \in [Keys -> Versions] /\ Versions \subseteq Nat
        /\ \A k \in Keys : floor[k] <= ver[k]
    BY IInvStep, BoundsAssumption DEF IInv, TypeOK, Versions, FloorsPast
  <1>2. \/ UNCHANGED floor
        \/ \E named \in SUBSET Keys :
             floor' = [k \in Keys |-> IF k \in named THEN ver[k] ELSE floor[k]]
    BY PolicyAssumption
       DEF Next, Write, Ages, RefusalLapses, Arrive, ArriveRefused, ArriveAllowed,
           FlightStep, RenderReads, RenderFails, RenderPanics, RenderUnstorable, RenderStored,
           FlightEnds, Settle, InvalidatePath, InvalidateTag, Invalidate, Bearing
  <1>3. ASSUME NEW k \in Keys PROVE floor[k] <= floor'[k]
    <2>1. floor'[k] = floor[k] \/ floor'[k] = ver[k]
      BY <1>1, <1>2
    <2>2. floor[k] \in Nat /\ floor[k] <= ver[k]
      BY <1>1
    <2> QED
      BY <2>1, <2>2
  <1> QED
    BY <1>1, <1>3

\* What is read of a pair that loads is a version.
LEMMA VouchedIsVersion ==
  ASSUME DTypeOK, NEW k \in Keys, Vouched(disk[k])
  PROVE  disk[k].html \in Nat
  <1>1. disk[k] \in Pair
    BY DEF DTypeOK
  <1> QED
    BY <1>1, BoundsAssumption DEF Vouched, Pair, Files, Versions

LEMMA PromiseTypes ==
  ASSUME DTypeOK
  PROVE  /\ \A k \in Keys : /\ promised[k] \in Nat /\ lent[k] \in Nat
                             /\ ver[k] \in Nat /\ floor[k] \in Nat
         /\ \A k \in Cached(cache) : k \in Keys /\ cache.pages[k].body \in Nat
         /\ \A f \in Flights : flight[f].key \in Keys /\ flight[f].v \in Nat
         /\ \A d \in Drains : \A k \in Keys : drain[d].upto[k] \in Nat
  <1>1. Versions \subseteq Nat
    BY BoundsAssumption DEF Versions
  <1>2. \A k \in Keys : /\ promised[k] \in Nat /\ lent[k] \in Nat
                       /\ ver[k] \in Nat /\ floor[k] \in Nat
    BY <1>1 DEF DTypeOK, TypeOK
  <1>3. \A k \in Cached(cache) : k \in Keys /\ cache.pages[k].body \in Nat
    BY DEF DTypeOK, TypeOK, PageCaches, Cached, Entry
  <1>4. \A f \in Flights : flight[f].key \in Keys /\ flight[f].v \in Nat
    BY <1>1 DEF DTypeOK, TypeOK, FlightState
  <1>5. \A d \in Drains : \A k \in Keys : drain[d].upto[k] \in Nat
    <2> SUFFICES ASSUME NEW d \in Drains, NEW k \in Keys PROVE drain[d].upto[k] \in Nat
      OBVIOUS
    <2>1. drain[d].upto \in [Keys -> Versions]
      BY DEF DTypeOK, DrainState
    <2> QED
      BY <1>1, <2>1
  <1> QED
    BY <1>2, <1>3, <1>4, <1>5

\* A goroutine that joins the drains finds the lists of the others as they were.
LEMMA OwingDrains ==
  ASSUME DiskBase, NEW upto \in [Keys -> Versions], Owes(upto)
  PROVE  \E d \in Drains :
           /\ drain[d].stage = "idle" /\ drain'[d].stage = "due" /\ drain'[d].upto = upto
           /\ \A e \in Drains \ {d} : drain'[e] = drain[e]
  BY OwesTyped DEF DiskBase, DTypeOK

LEMMA ListsStand ==
  ASSUME DiskBase, MemoryStep PROVE \A d \in Drains : drain'[d].list = drain[d].list
  BY OwesTyped DEF MemoryStep, OwesAtMost, DiskBase, DTypeOK

LEMMA PromisesMemory ==
  ASSUME DiskPromises, MemoryStep, DiskFollows' PROVE DiskPromises'
  <1> USE DEF DiskPromises
  <1>0. DiskFollows /\ DiskBase /\ DTypeOK /\ IInv /\ DTypeOK'
    BY DEF DiskFollows, DiskBase
  <1>1. /\ UNCHANGED <<disk, promised, lent>> /\ Next
        /\ Cached(cache') \subseteq Cached(cache)
        /\ \A k \in Cached(cache') : cache'.pages[k].body = cache.pages[k].body
    BY DEF MemoryStep, Shrinks
  <1>2. \A k \in Keys : ver[k] \in Nat /\ ver'[k] \in Nat /\ ver[k] <= ver'[k]
    BY <1>0, <1>1, VersionsGrow
  <1>3. \A k \in Keys : promised[k] \in Nat /\ lent[k] \in Nat
    BY <1>0, PromiseTypes
  <1>4. FilesKept' /\ NothingComesBack'
    BY <1>1 DEF FilesKept, NothingComesBack, Vouched
  <1>5. PromisesPast'
    BY <1>1, <1>2, <1>3 DEF PromisesPast
  <1>6. RendersKept'
    <2> SUFFICES ASSUME NEW f \in Flights, Read(f)'
                 PROVE  promised[flight'[f].key] <= flight'[f].v
      BY <1>1 DEF RendersKept
    <2>1. /\ flight'[f].key \in Keys
          /\ \/ Read(f) /\ flight'[f].key = flight[f].key /\ flight'[f].v = flight[f].v
             \/ flight'[f].v = ver[flight'[f].key]
      BY <1>0, <1>1, ReadsOfSteps DEF ReadsMove
    <2> QED
      BY <2>1 DEF RendersKept, PromisesPast
  <1>7. DrainsTrue'
    <2>1. /\ \A k \in Keys : Pending(k) => Pending(k)'
          /\ \A k \in Cached(cache) : k \notin Cached(cache') => k \in sweep'
          /\ sweep \subseteq sweep'
      BY <1>0, MemoryQueues
    <2>2. \A k \in Keys : floor[k] \in Nat /\ floor'[k] \in Nat /\ floor[k] <= floor'[k]
      BY <1>0, <1>1, FloorsGrow
    <2>9. \A k \in Keys : Listed(k)' <=> Listed(k)
      BY <1>0, ListsStand DEF Listed
    <2> SUFFICES ASSUME NEW d \in Drains, NEW k \in Keys, drain'[d].stage # "idle"
                 PROVE  /\ drain'[d].upto[k] <= floor'[k]
                        /\ Vouched(disk[k]) => drain'[d].upto[k] <= disk[k].html \/ OnItsWay(d, k)'
      BY <1>1 DEF DrainsTrue
    <2>3. CASE drain'[d] = drain[d]
      <3>1. drain[d].upto[k] \in Nat
        BY <1>0, PromiseTypes
      <3> QED
        BY <2>1, <2>2, <2>3, <2>9, <3>1 DEF DrainsTrue, OnItsWay
    <2>4. CASE drain'[d] # drain[d]
      <3>1. OwesAtMost
        BY <2>4 DEF MemoryStep
      <3>2. PICK upto \in [Keys -> Versions] :
              /\ Owes(upto)
              /\ \A j \in Keys :
                   upto[j] = 0 \/ (upto[j] <= floor'[j] /\ j \notin Cached(cache'))
        BY <3>1 DEF OwesAtMost
      <3>3. drain[d].stage = "idle" /\ drain'[d].stage = "due" /\ drain'[d].upto = upto
        <4>1. PICK e \in Drains :
                /\ drain[e].stage = "idle" /\ drain'[e].stage = "due" /\ drain'[e].upto = upto
                /\ \A g \in Drains \ {e} : drain'[g] = drain[g]
          BY <1>0, <3>2, OwingDrains
        <4> QED
          BY <2>4, <4>1
      <3>5. CASE upto[k] = 0
        <4>1. Vouched(disk[k]) => disk[k].html \in Nat
          BY <1>0, VouchedIsVersion
        <4> QED
          BY <2>2, <3>3, <3>5, <4>1
      <3>6. CASE upto[k] <= floor'[k] /\ k \notin Cached(cache')
        <4>1. ASSUME Vouched(disk[k]) PROVE k \in sweep' \/ Listed(k)'
          <5>1. Pending(k) \/ k \in Cached(cache)
            BY <4>1 DEF DiskFollows, PairsFollowMemory
          <5> QED
            BY <2>1, <2>9, <3>6, <5>1 DEF Pending
        <4> QED
          BY <3>3, <3>6, <4>1 DEF OnItsWay
      <3> QED
        BY <3>2, <3>5, <3>6
    <2> QED
      BY <2>3, <2>4
  <1>8. LentTrue'
    <2>1. \A k \in Keys : floor[k] \in Nat /\ floor'[k] \in Nat /\ floor[k] <= floor'[k]
      BY <1>0, <1>1, FloorsGrow
    <2>2. \A k \in Keys : Listed(k)' <=> Listed(k)
      BY <1>0, ListsStand DEF Listed
    <2> QED
      BY <1>1, <1>3, <2>1, <2>2 DEF LentTrue, Vouched
  <1> QED
    BY <1>4, <1>5, <1>6, <1>7, <1>8

LEMMA PromisesStore ==
  ASSUME DiskPromises, NEW f \in Flights, StoreAndSave(f), ~flight[f].doomed, DiskFollows'
  PROVE  DiskPromises'
  <1> USE DEF DiskPromises
  <1>0. DiskFollows /\ DiskBase /\ DTypeOK /\ IInv /\ OrderLinear(cache) /\ Read(f) /\ Next
    BY DEF DiskFollows, DiskBase, StoreAndSave, RenderStored, Read, Next, FlightStep
  <1> DEFINE k == flight[f].key
             v == flight[f].v
  <1>1. /\ k \in Keys
        /\ Cached(cache') \subseteq Cached(cache) \cup {k}
        /\ cache'.pages[k].body = v
        /\ \A j \in Cached(cache') \ {k} : cache'.pages[j] = cache.pages[j]
        /\ UNCHANGED <<ver, floor>>
    BY <1>0, StoreGrows
  <1>2. sweep \subseteq sweep' /\ UNCHANGED <<disk, drain, promised, lent>>
    BY <1>0, SaveStarts
  <1>3. promised[k] <= v
    BY <1>0 DEF RendersKept
  <1>4. FilesKept' /\ PromisesPast'
    BY <1>1, <1>2 DEF FilesKept, PromisesPast, Vouched
  <1>5. \A j \in Cached(cache') : promised[j] <= cache'.pages[j].body
    <2> SUFFICES ASSUME NEW j \in Cached(cache') PROVE promised[j] <= cache'.pages[j].body
      OBVIOUS
    <2>1. CASE j = k
      BY <1>1, <1>3, <2>1
    <2>2. CASE j # k
      <3>1. j \in Cached(cache) /\ cache'.pages[j] = cache.pages[j]
        BY <1>1, <2>2
      <3>2. cache.pages[j].body \in Nat /\ promised[j] \in Nat
        BY <1>0, <3>1, PromiseTypes
      <3> QED
        BY <3>1, <3>2 DEF NothingComesBack
    <2> QED
      BY <2>1, <2>2
  <1>6. NothingComesBack'
    <2>1. \A j \in Cached(cache') : promised[j] \in Nat /\ cache'.pages[j].body \in Nat
      <3>1. DTypeOK'
        BY DEF DiskFollows, DiskBase
      <3>2. \A j \in Cached(cache') : j \in Keys
        BY DEF Cached
      <3>3. cache' \in PageCaches
        BY <3>1 DEF DTypeOK, TypeOK
      <3>4. \A j \in Cached(cache') : cache'.pages[j].body \in Nat
        BY <3>3 DEF PageCaches, Cached, Entry
      <3> QED
        BY <1>0, <3>2, <3>4, PromiseTypes
    <2> QED
      BY <1>2, <1>5, <2>1 DEF NothingComesBack
  <1>7. RendersKept'
    <2> SUFFICES ASSUME NEW g \in Flights, Read(g)'
                 PROVE  promised[flight'[g].key] <= flight'[g].v
      BY <1>2 DEF RendersKept
    <2>1. /\ flight'[g].key \in Keys
          /\ \/ Read(g) /\ flight'[g].key = flight[g].key /\ flight'[g].v = flight[g].v
             \/ flight'[g].v = ver[flight'[g].key]
      BY <1>0, ReadsOfSteps DEF ReadsMove
    <2> QED
      BY <2>1 DEF RendersKept, PromisesPast
  <1>8. DrainsTrue' /\ LentTrue'
    BY <1>1, <1>2 DEF DrainsTrue, LentTrue, OnItsWay, Listed, Vouched
  <1> QED
    BY <1>4, <1>6, <1>7, <1>8

LEMMA PromisesSave ==
  ASSUME DiskPromises, NEW s \in Saves, SaveWrites(s) \/ SaveLands(s) \/ SaveFails(s), DiskFollows'
  PROVE  DiskPromises'
  <1> USE DEF DiskPromises
  <1>0. DiskFollows /\ DiskBase /\ DTypeOK /\ IInv
    BY DEF DiskFollows, DiskBase
  <1>1. /\ UNCHANGED <<vars, sweep, promised, lent>>
        /\ UNCHANGED drain \/ Owes(Nothing)
    BY <1>0, SaveSteps
  <1>9. \A k \in Keys : Listed(k)' <=> Listed(k)
    <2>1. Nothing \in [Keys -> Versions]
      BY BoundsAssumption DEF Nothing, Versions
    <2>2. \A d \in Drains : drain'[d].list = drain[d].list
      BY <1>0, <1>1, <2>1, OwesTyped DEF DiskBase, DTypeOK
    <2> QED
      BY <2>2 DEF Listed
  <1>2. UNCHANGED <<ver, floor, cache, flight>>
    BY <1>1 DEF vars
  <1>3. \A k \in Keys :
          \/ disk'[k] = disk[k]
          \/ k \in Cached(cache) /\ disk'[k].html = cache.pages[k].body
    BY <1>0, LandedIsTheCopy
  <1>4. FilesKept'
    <2> SUFFICES ASSUME NEW k \in Keys, Vouched(disk'[k]) PROVE promised[k] <= disk'[k].html
      BY <1>1 DEF FilesKept
    <2>1. k \in Cached(cache) => promised[k] <= cache.pages[k].body
      BY <1>0, PromiseTypes DEF NothingComesBack
    <2> QED
      BY <1>3, <2>1 DEF FilesKept
  <1>5. NothingComesBack' /\ RendersKept' /\ PromisesPast'
    BY <1>1, <1>2 DEF NothingComesBack, RendersKept, PromisesPast, Read
  <1>6. DrainsTrue'
    <2> SUFFICES ASSUME NEW d \in Drains, NEW k \in Keys, drain'[d].stage # "idle"
                 PROVE  /\ drain'[d].upto[k] <= floor[k]
                        /\ Vouched(disk'[k]) => drain'[d].upto[k] <= disk'[k].html \/ OnItsWay(d, k)'
      BY <1>2 DEF DrainsTrue
    <2>1. Vouched(disk'[k]) => disk'[k].html \in Nat
      <3>1. disk' \in [Keys -> Pair]
        BY DEF DiskFollows, DiskBase, DTypeOK
      <3>2. disk'[k] \in Pair
        BY <3>1
      <3> QED
        BY <3>2, BoundsAssumption DEF Vouched, Pair, Files, Versions
    <2>2. k \in Cached(cache) => floor[k] <= cache.pages[k].body /\ cache.pages[k].body \in Nat
      BY <1>0, PromiseTypes DEF IInv, CopiesTrue
    <2>3. CASE drain'[d] = drain[d]
      <3>1. drain[d].upto[k] \in Nat /\ floor[k] \in Nat /\ drain[d].upto[k] <= floor[k]
        BY <1>0, <2>3, PromiseTypes DEF DrainsTrue
      <3>2. CASE disk'[k] = disk[k]
        BY <1>1, <1>9, <2>3, <3>1, <3>2 DEF DrainsTrue, OnItsWay
      <3>3. CASE k \in Cached(cache) /\ disk'[k].html = cache.pages[k].body
        BY <2>2, <2>3, <3>1, <3>3
      <3> QED
        BY <1>3, <3>2, <3>3
    <2>4. CASE drain'[d] # drain[d]
      <3>1. Nothing \in [Keys -> Versions] /\ Nothing[k] = 0
        BY BoundsAssumption DEF Nothing, Versions
      <3>2. Owes(Nothing)
        BY <1>1, <2>4
      <3>3. drain'[d].upto = Nothing
        <4>1. PICK e \in Drains :
                /\ drain'[e].upto = Nothing
                /\ \A g \in Drains \ {e} : drain'[g] = drain[g]
          BY <1>0, <3>1, <3>2, OwingDrains
        <4> QED
          BY <2>4, <4>1
      <3>4. floor[k] \in Nat
        BY <1>0, PromiseTypes
      <3> QED
        BY <2>1, <3>1, <3>3, <3>4
    <2> QED
      BY <2>3, <2>4
  <1>7. LentTrue'
    <2> SUFFICES ASSUME NEW k \in Keys
                 PROVE  /\ lent[k] <= floor[k]
                        /\ Vouched(disk'[k]) => lent[k] <= disk'[k].html \/ Listed(k)
      BY <1>1, <1>2, <1>9 DEF LentTrue
    <2>1. lent[k] \in Nat /\ floor[k] \in Nat /\ lent[k] <= floor[k]
      BY <1>0, PromiseTypes DEF LentTrue
    <2>2. k \in Cached(cache) => floor[k] <= cache.pages[k].body /\ cache.pages[k].body \in Nat
      BY <1>0, PromiseTypes DEF IInv, CopiesTrue
    <2> QED
      BY <1>3, <2>1, <2>2 DEF LentTrue
  <1> QED
    BY <1>4, <1>5, <1>6, <1>7

\* A drain promises the same until it is done.
LEMMA DrainKeepsItsPromise ==
  ASSUME DiskBase, NEW d \in Drains, DrainTakes(d) \/ DrainRemoves(d) \/ DrainEnds(d)
  PROVE  \/ drain'[d] = NoDrain
         \/ /\ drain[d].stage # "idle"
            /\ drain'[d].stage = "removing"
            /\ drain'[d].upto = drain[d].upto
  <1>1. drain \in [Drains -> DrainState] /\ drain[d] \in DrainState
    BY DEF DiskBase, DTypeOK
  <1>2. CASE DrainTakes(d)
    <2>1. drain'[d].stage = "removing" /\ drain'[d].upto = drain[d].upto
      BY <1>1, <1>2 DEF DrainTakes, DrainState
    <2> QED
      BY <1>2, <2>1 DEF DrainTakes
  <1>3. CASE DrainRemoves(d)
    <2>1. PICK k \in drain[d].list :
            \/ drain' = [drain EXCEPT ![d].half = {k}]
            \/ drain' = [drain EXCEPT ![d].list = @ \ {k}, ![d].half = {}]
      BY <1>3 DEF DrainRemoves
    <2>2. drain'[d].stage = drain[d].stage /\ drain'[d].upto = drain[d].upto
      BY <1>1, <2>1 DEF DrainState
    <2> QED
      BY <1>3, <2>2 DEF DrainRemoves
  <1>4. CASE DrainEnds(d)
    BY <1>1, <1>4 DEF DrainEnds
  <1> QED
    BY <1>2, <1>3, <1>4

LEMMA PromisesDrain ==
  ASSUME DiskPromises, NEW d \in Drains,
         DrainTakes(d) \/ DrainRemoves(d) \/ DrainEnds(d), DiskFollows'
  PROVE  DiskPromises'
  <1> USE DEF DiskPromises
  <1>0. DiskFollows /\ DiskBase /\ DTypeOK /\ IInv
    BY DEF DiskFollows, DiskBase
  <1>1. /\ UNCHANGED vars
        /\ \A k \in Keys :
             \/ disk'[k] = disk[k]
             \/ ~Vouched(disk'[k])
        /\ \A k \in Keys :
             \/ ~Vouched(disk'[k])
             \/ k \in sweep => k \in sweep' \/ k \in drain'[d].list
        /\ \A k \in Keys :
             k \in drain[d].list => k \in drain'[d].list \/ ~Vouched(disk'[k])
        /\ DrainsRest'
    BY <1>0, DrainSteps
  <1>2. UNCHANGED <<ver, floor, cache, flight>>
    BY <1>1 DEF vars
  <1>10. \A k \in Keys : Vouched(disk'[k]) /\ Listed(k) => Listed(k)'
    <2> SUFFICES ASSUME NEW k \in Keys, Vouched(disk'[k]), NEW e \in Drains, k \in drain[e].list
                 PROVE  k \in drain'[e].list
      BY DEF Listed
    <2>1. CASE e = d
      BY <1>1, <2>1
    <2>2. CASE e # d
      BY <1>0, <2>2, DrainSteps
    <2> QED
      BY <2>1, <2>2
  <1>3. \A k \in Keys :
          \/ promised'[k] = promised[k]
          \/ /\ promised'[k] \in {lent[k], drain[d].upto[k]}
             /\ promised'[k] <= floor[k]
             /\ Vouched(disk'[k]) => promised'[k] <= disk'[k].html
    <2> SUFFICES ASSUME NEW k \in Keys, promised'[k] # promised[k]
                 PROVE  /\ promised'[k] \in {lent[k], drain[d].upto[k]}
                        /\ promised'[k] <= floor[k]
                        /\ Vouched(disk'[k]) => promised'[k] <= disk'[k].html
      OBVIOUS
    <2>1. /\ ~Listed(k)'
          /\ \/ promised'[k] = lent[k]
             \/ drain[d].stage = "removing" /\ promised'[k] = drain[d].upto[k]
      BY <1>0, PromiseMoves
    <2>2. Vouched(disk'[k]) => disk'[k] = disk[k] /\ ~Listed(k)
      BY <1>1, <1>10, <2>1
    <2>3. CASE promised'[k] = lent[k]
      BY <2>2, <2>3 DEF LentTrue
    <2>4. CASE drain[d].stage = "removing" /\ promised'[k] = drain[d].upto[k]
      BY <2>2, <2>4 DEF DrainsTrue, OnItsWay
    <2> QED
      BY <2>1, <2>3, <2>4
  <1>4. /\ \A k \in Keys : /\ promised[k] \in Nat /\ lent[k] \in Nat
                            /\ ver[k] \in Nat /\ floor[k] \in Nat
        /\ \A k \in Keys : drain[d].upto[k] \in Nat
    BY <1>0, PromiseTypes
  <1>5. FilesKept'
    <2> SUFFICES ASSUME NEW k \in Keys, Vouched(disk'[k]) PROVE promised'[k] <= disk'[k].html
      BY DEF FilesKept
    <2> QED
      BY <1>1, <1>3 DEF FilesKept
  <1>6. PromisesPast'
    <2> SUFFICES ASSUME NEW k \in Keys PROVE promised'[k] <= ver[k]
      BY <1>2 DEF PromisesPast
    <2>1. floor[k] <= ver[k]
      BY <1>0 DEF IInv, FloorsPast
    <2> QED
      BY <1>3, <1>4, <2>1 DEF PromisesPast
  <1>7. NothingComesBack'
    <2> SUFFICES ASSUME NEW k \in Cached(cache) PROVE promised'[k] <= cache.pages[k].body
      <3>1. ASSUME NEW k \in Cached(cache) PROVE cache.pages[k].body >= promised'[k]
        <4>1. promised'[k] \in Nat /\ cache.pages[k].body \in Nat
          BY <1>0, <1>3, <1>4, PromiseTypes DEF Cached
        <4> QED
          BY <4>1
      <3> QED
        BY <1>2, <3>1 DEF NothingComesBack
    <2>1. k \in Keys /\ cache.pages[k].body \in Nat
      BY <1>0, PromiseTypes
    <2>2. floor[k] <= cache.pages[k].body /\ promised[k] <= cache.pages[k].body
      BY <1>0, <1>4, <2>1 DEF IInv, CopiesTrue, NothingComesBack
    <2> QED
      BY <1>3, <1>4, <2>1, <2>2
  <1>8. RendersKept'
    <2> SUFFICES ASSUME NEW f \in Flights, Read(f)
                 PROVE  promised'[flight[f].key] <= flight[f].v
      BY <1>2 DEF RendersKept, Read
    <2>1. flight[f].key \in Keys /\ flight[f].v \in Nat
      BY <1>0, PromiseTypes
    <2>2. floor[flight[f].key] <= flight[f].v /\ promised[flight[f].key] <= flight[f].v
      BY <1>0 DEF IInv, FlightsTrue, Live, Read, RendersKept
    <2> QED
      BY <1>3, <1>4, <2>1, <2>2
  <1>9. DrainsTrue'
    <2> SUFFICES ASSUME NEW e \in Drains, NEW k \in Keys, drain'[e].stage # "idle"
                 PROVE  /\ drain'[e].upto[k] <= floor[k]
                        /\ Vouched(disk'[k]) => drain'[e].upto[k] <= disk'[k].html \/ OnItsWay(e, k)'
      BY <1>2 DEF DrainsTrue
    <2>1. /\ drain[e].stage # "idle" /\ drain'[e].upto = drain[e].upto
          /\ \/ drain'[e].stage = drain[e].stage
             \/ e = d /\ drain'[d].stage = "removing"
      <3>1. CASE e = d
        BY <1>0, <3>1, DrainKeepsItsPromise DEF NoDrain
      <3>2. CASE e # d
        BY <1>0, <3>2, DrainSteps
      <3> QED
        BY <3>1, <3>2
    <2>2. ASSUME Vouched(disk'[k]), OnItsWay(e, k)
          PROVE  OnItsWay(e, k)'
      <3>1. CASE drain[e].stage = "due" /\ k \in sweep
        <4>1. k \in sweep' \/ k \in drain'[d].list
          BY <1>1, <2>2, <3>1
        <4>2. CASE k \in drain'[d].list
          BY <4>2 DEF OnItsWay, Listed
        <4>3. CASE k \in sweep' /\ e = d
          <5>1. DrainTakes(d)
            BY <3>1, <4>3 DEF DrainRemoves, DrainEnds
          <5> QED
            BY <4>3, <5>1 DEF DrainTakes
        <4>4. CASE k \in sweep' /\ e # d
          BY <2>1, <3>1, <4>4 DEF OnItsWay
        <4> QED
          BY <4>1, <4>2, <4>3, <4>4
      <3>2. CASE Listed(k)
        BY <1>10, <2>2, <3>2 DEF OnItsWay
      <3> QED
        BY <2>2, <3>1, <3>2 DEF OnItsWay
    <2> QED
      BY <1>1, <2>1, <2>2 DEF DrainsTrue
  <1>11. LentTrue'
    <2> SUFFICES ASSUME NEW k \in Keys
                 PROVE  /\ lent'[k] <= floor[k]
                        /\ Vouched(disk'[k]) => lent'[k] <= disk'[k].html \/ Listed(k)'
      BY <1>2 DEF LentTrue
    <2>1. \/ lent'[k] = 0
          \/ Listed(k)' /\ lent'[k] = lent[k]
          \/ Listed(k)' /\ drain[d].stage = "removing" /\ lent'[k] = drain[d].upto[k]
      BY <1>0, PromiseMoves
    <2>2. Vouched(disk'[k]) => disk'[k].html \in Nat
      <3>1. DTypeOK'
        BY DEF DiskFollows, DiskBase
      <3>2. disk'[k] \in Pair
        BY <3>1 DEF DTypeOK
      <3> QED
        BY <3>2, BoundsAssumption DEF Vouched, Pair, Files, Versions
    <2>3. lent[k] <= floor[k] /\ floor[k] \in Nat
      BY <1>4 DEF LentTrue
    <2>4. drain[d].stage = "removing" => drain[d].upto[k] <= floor[k]
      BY DEF DrainsTrue
    <2> QED
      BY <2>1, <2>2, <2>3, <2>4
  <1> QED
    BY <1>11, <1>5, <1>6, <1>7, <1>8, <1>9

\* A boot loads pairs that keep the promises.
LEMMA PromisesRestart ==
  ASSUME DiskPromises, Restart, DiskFollows' PROVE DiskPromises'
  <1> USE DEF DiskPromises
  <1>0. DiskFollows /\ DiskBase /\ DTypeOK
    BY DEF DiskFollows, DiskBase
  <1>1. PICK left \in LeftByCrash :
           /\ \A k \in Cached(cache') :
                /\ Vouched(left[k])
                /\ cache'.pages[k].body = left[k].html
           /\ \A k \in Keys : disk'[k] = left[k] \/ disk'[k] = [html |-> NoFile, json |-> NoFile]
    BY <1>0, RestartLoads
  <1>2. UNCHANGED <<ver, promised>>
    BY DEF Restart
  <1>3. /\ \A f \in Flights : flight'[f].stage = "idle"
        /\ \A d \in Drains : drain'[d].stage = "idle"
    BY DEF Restart, Parked, NoDrain
  <1>4. \A k \in Keys : Vouched(left[k]) => promised[k] <= left[k].html
    <2> SUFFICES ASSUME NEW k \in Keys, Vouched(left[k]) PROVE promised[k] <= left[k].html
      OBVIOUS
    <2>1. \/ left[k] = disk[k]
          \/ \E s \in Saves :
               /\ save[s].stage # "idle" /\ Current(s) /\ save[s].key = k
               /\ left[k].html = save[s].v
      BY <1>0, LeftPairs
    <2>2. CASE left[k] = disk[k]
      BY <2>2 DEF FilesKept
    <2>3. ASSUME NEW s \in Saves, save[s].stage # "idle", Current(s), save[s].key = k,
                 left[k].html = save[s].v
          PROVE  promised[k] <= left[k].html
      <3>1. k \in Cached(cache) /\ cache.pages[k].body = left[k].html
        BY <2>3 DEF DiskFollows, SavesCurrent
      <3> QED
        BY <1>0, <3>1, PromiseTypes DEF NothingComesBack
    <2> QED
      BY <2>1, <2>2, <2>3
  <1>5. FilesKept'
    <2> SUFFICES ASSUME NEW k \in Keys, Vouched(disk'[k]) PROVE promised[k] <= disk'[k].html
      BY <1>2 DEF FilesKept
    <2>1. disk'[k] = left[k]
      BY <1>1 DEF Vouched
    <2> QED
      BY <1>4, <2>1
  <1>6. NothingComesBack'
    <2> SUFFICES ASSUME NEW k \in Cached(cache') PROVE cache'.pages[k].body >= promised[k]
      BY <1>2 DEF NothingComesBack
    <2>1. k \in Keys
      BY DEF Cached
    <2>2. promised[k] <= cache'.pages[k].body
      BY <1>1, <1>4, <2>1
    <2>3. cache' \in PageCaches
      BY DEF DiskFollows, DiskBase, DTypeOK, TypeOK
    <2>4. cache'.pages[k].body \in Nat
      BY <2>3 DEF PageCaches, Cached, Entry
    <2>5. promised[k] \in Nat
      BY <1>0, <2>1, PromiseTypes
    <2> QED
      BY <2>2, <2>4, <2>5
  <1>7. PromisesPast' /\ RendersKept' /\ DrainsTrue'
    BY <1>2, <1>3 DEF PromisesPast, RendersKept, Read, DrainsTrue
  <1>8. LentTrue'
    <2> SUFFICES ASSUME NEW k \in Keys
                 PROVE  lent'[k] <= floor'[k] /\ (Vouched(disk'[k]) => lent'[k] <= disk'[k].html)
      BY DEF LentTrue
    <2>1. lent'[k] = 0 /\ floor'[k] = 0
      BY DEF Restart, Nothing
    <2>2. DTypeOK'
      BY DEF DiskFollows, DiskBase
    <2>3. disk'[k] \in Pair
      BY <2>2 DEF DTypeOK
    <2> QED
      BY <2>1, <2>3, BoundsAssumption DEF Vouched, Pair, Files, Versions
  <1> QED
    BY <1>5, <1>6, <1>7, <1>8

LEMMA PromisesInit == DInit => DiskPromises
  <1> SUFFICES ASSUME DInit PROVE DiskPromises
    OBVIOUS
  <1>1. DiskFollows
    BY FollowsInit
  <1>2. \A k \in Keys : /\ promised[k] = 0 /\ lent[k] = 0 /\ ~Vouched(disk[k])
                       /\ ver[k] \in Nat /\ floor[k] \in Nat
    <2>1. DTypeOK
      BY <1>1 DEF DiskFollows, DiskBase
    <2> QED
      BY <2>1, PromiseTypes DEF DInit, Nothing, Vouched
  <1>3. /\ \A f \in Flights : flight[f].stage = "idle"
        /\ \A d \in Drains : drain[d].stage = "idle"
        /\ Cached(cache) = {}
    BY DEF DInit, Init, Parked, NoDrain, EmptyCache, Cached
  <1> QED
    BY <1>1, <1>2, <1>3
       DEF DiskPromises, FilesKept, NothingComesBack, RendersKept, Read, PromisesPast, DrainsTrue,
           LentTrue

LEMMA PromisesStep ==
  ASSUME ~ReadErrors PROVE DiskPromises /\ [DNext]_dvars => DiskPromises'
  <1> SUFFICES ASSUME DiskPromises, [DNext]_dvars PROVE DiskPromises'
    OBVIOUS
  <1>1. DiskFollows /\ DiskFollows'
    BY FollowsStep DEF DiskPromises
  <1>2. CASE DNext
    <2>1. DiskBase
      BY <1>1 DEF DiskFollows
    <2> QED
      BY <1>1, <1>2, <2>1, StepKinds, PromisesMemory, PromisesStore, PromisesSave, PromisesDrain,
         PromisesRestart
  <1>3. CASE UNCHANGED dvars
    <2>1. UNCHANGED <<disk, sweep, drain, promised, lent, ver, floor, cache, flight>>
      BY <1>3 DEF dvars, fileVars, vars
    <2> QED
      BY <1>1, <2>1
         DEF DiskPromises, FilesKept, NothingComesBack, RendersKept, Read, PromisesPast,
             DrainsTrue, LentTrue, OnItsWay, Listed, Vouched
  <1> QED
    BY <1>2, <1>3

\* "an invalidated copy cannot come back on the next restart" (isr.go): what a
\* Revalidate that returned has named is not served again, by this process or a
\* later one, whatever saves and crashes lie between and however many goroutines
\* drain: it counts once every goroutine that took the pair from the queue is
\* through. The boots of the theorem can read every file that is there.
THEOREM NoCopyComesBack ==
  ASSUME ~ReadErrors PROVE DSpec => []NothingComesBack
  <1>1. DiskPromises => NothingComesBack
    BY DEF DiskPromises
  <1>2. DiskPromises /\ [DNext]_dvars => DiskPromises'
    BY PromisesStep
  <1> QED
    BY PromisesInit, <1>1, <1>2, PTL DEF DSpec
=============================================================================
