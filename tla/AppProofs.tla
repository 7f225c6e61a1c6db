------------------------------ MODULE AppProofs ------------------------------
(***************************************************************************)
(* What is proved of an app in front of its readers: the doors of the      *)
(* render service and the cookies of an action, for any pages and any      *)
(* matcher; that a call to the go api ends once, for any callers; and that *)
(* the screen and the session history of a reader agree, for any pages,    *)
(* forms and navigations.                                                  *)
(***************************************************************************)
EXTENDS PageRequest, FoldLemmas, SequenceTheorems, WellFoundedInduction, TLAPS

-----------------------------------------------------------------------------
(* Paths, patterns and the entries of a matcher, segment by segment.       *)

\* The router takes away empty segments, and those at the end alone.
LEMMA StrippedPath ==
  ASSUME NEW p \in Seq(Segment)
  PROVE  /\ Stripped(p) \in Seq(Segment) /\ Len(Stripped(p)) <= Len(p)
         /\ \A i \in 1 .. Len(Stripped(p)) : Stripped(p)[i] = p[i]
         /\ \A i \in Len(Stripped(p)) + 1 .. Len(p) : p[i] = Empty
<1> DEFINE Cut == {SubSeq(p, 1, n) : n \in 0 .. Len(p)}
           Bare(q) == /\ \A i \in Len(q) + 1 .. Len(p) : p[i] = Empty
                      /\ q = <<>> \/ Last(q) # Empty
           T == {n \in 0 .. Len(p) : \A i \in n + 1 .. Len(p) : p[i] = Empty}
<1>0. Len(p) \in Nat /\ p \in [1 .. Len(p) -> Segment]
  BY LenProperties
<1>1. \A n \in 0 .. Len(p) :
        /\ SubSeq(p, 1, n) \in Seq(Segment) /\ Len(SubSeq(p, 1, n)) = n
        /\ \A i \in 1 .. n : SubSeq(p, 1, n)[i] = p[i]
  BY <1>0, SubSeqProperties
<1>2. PICK n \in T : \A m \in T : n <= m
  <2>1. Len(p) \in T /\ T \subseteq Nat
    BY <1>0
  <2>. QED BY <2>1, LeastNatural
<1>3. Bare(SubSeq(p, 1, n))
  <2> DEFINE q == SubSeq(p, 1, n)
  <2>1. q \in Seq(Segment) /\ Len(q) = n /\ n \in 0 .. Len(p)
    BY <1>1, <1>2
  <2>2. ASSUME n # 0 PROVE Last(q) # Empty
    <3>1. n - 1 \notin T
      BY <1>2, <2>1, <2>2
    <3>2. p[n] # Empty
      BY <1>2, <2>1, <2>2, <3>1
    <3>. QED BY <1>1, <2>1, <2>2, <3>2 DEF Last
  <2>3. n = 0 => q = <<>>
    BY <2>1, EmptySeq
  <2>. QED BY <1>2, <2>1, <2>2, <2>3
<1>4. Stripped(p) \in Cut /\ Bare(Stripped(p))
  <2>1. SubSeq(p, 1, n) \in Cut
    BY <1>2
  <2>2. Stripped(p) = CHOOSE q \in Cut : Bare(q)
    BY DEF Stripped
  <2>. HIDE DEF Cut, Bare
  <2>. QED BY <1>3, <2>1, <2>2
<1>. QED BY <1>0, <1>1, <1>4

LEMMA EmptyHasNoName == Empty.name = ""
  BY DEF Empty

\* What is past one length and within another.
LEMMA Between ==
  ASSUME NEW a \in Nat, NEW b \in Nat, NEW c \in Nat, b < a, a <= c
  PROVE  a \in b + 1 .. c /\ a \in 1 .. a
  OBVIOUS

\* A path of a page that an entry covers shows that the two overlap.
LEMMA CoveredPagesOverlap ==
  ASSUME NEW pattern \in Seq(STRING), NEW entry \in Seq(STRING), NEW p \in Seq(Segment),
         MatchPattern(pattern, Stripped(p)), MatchEntry(entry, p)
  PROVE  PatternsOverlap(pattern, entry)
<1> DEFINE fixed == Fixed(entry)
           q == Stripped(p)
<1>0. /\ q \in Seq(Segment) /\ Len(q) <= Len(p) /\ Len(q) \in Nat /\ Len(p) \in Nat
      /\ \A i \in 1 .. Len(q) : q[i] = p[i]
      /\ \A i \in Len(q) + 1 .. Len(p) : p[i] = Empty
  BY StrippedPath, LenProperties
<1>1. fixed \in Seq(STRING) /\ Len(fixed) \in Nat /\ DOMAIN fixed = 1 .. Len(fixed)
  <2>1. entry # <<>> => Front(entry) \in Seq(STRING)
    BY SubSeqProperties, LenProperties, EmptySeq DEF Front
  <2>2. fixed \in Seq(STRING)
    BY <2>1 DEF Fixed, HasRest
  <2>. QED BY <2>2, LenProperties
<1>2. /\ IF HasRest(entry) THEN Len(fixed) <= Len(p) ELSE Len(fixed) = Len(p)
      /\ \A i \in 1 .. Len(fixed) : p[i].name # "" /\ fixed[i] \in {Param, p[i].name}
  BY <1>1 DEF MatchEntry, Fits
<1>3. Len(fixed) <= Len(q)
  <2>0. Len(fixed) <= Len(p)
    <3>. HIDE DEF fixed, q
    <3>1. Len(fixed) <= Len(p) \/ Len(fixed) = Len(p)
      BY <1>2, Zenon
    <3>2. Len(p) \in Nat
      BY <1>0
    <3>. QED BY <3>1, <3>2
  <2>1. ASSUME Len(q) < Len(fixed) PROVE FALSE
    <3>1. Len(fixed) \in Len(q) + 1 .. Len(p) /\ Len(fixed) \in 1 .. Len(fixed)
      <4>. HIDE DEF fixed, q
      <4>. QED BY <1>0, <1>1, <2>0, <2>1, Between
    <3>2. p[Len(fixed)] = Empty /\ p[Len(fixed)].name # ""
      BY <1>0, <1>2, <3>1
    <3>. QED BY <3>2, EmptyHasNoName
  <2>. HIDE DEF fixed, q
  <2>. QED BY <1>0, <1>1, <2>1
<1>4. /\ Len(pattern) = Len(q)
      /\ \A i \in 1 .. Len(q) : pattern[i] \in {Param, q[i].name}
  BY <1>0, LenProperties DEF MatchPattern, Fits
<1>5. IF HasRest(entry) THEN Len(fixed) <= Len(pattern) ELSE Len(fixed) = Len(pattern)
  <2>. HIDE DEF fixed, q
  <2>1. Len(pattern) = Len(q) /\ Len(fixed) <= Len(q)
    BY <1>3, <1>4
  <2>2. ~HasRest(entry) => Len(fixed) = Len(p)
    BY <1>2, Zenon
  <2>3. ASSUME ~HasRest(entry) PROVE Len(fixed) = Len(pattern)
    <3>1. Len(fixed) = Len(p) /\ Len(q) <= Len(p) /\ Len(fixed) <= Len(q)
      BY <1>0, <2>1, <2>2, <2>3
    <3>. QED BY <1>0, <2>1, <3>1
  <2>. QED BY <2>1, <2>3, Zenon
<1>6. \A i \in 1 .. Len(fixed) : pattern[i] = fixed[i] \/ Param \in {pattern[i], fixed[i]}
  <2> SUFFICES ASSUME NEW i \in 1 .. Len(fixed)
               PROVE  pattern[i] = fixed[i] \/ Param \in {pattern[i], fixed[i]}
    OBVIOUS
  <2>1. i \in 1 .. Len(q)
    BY <1>0, <1>1, <1>3
  <2>2. pattern[i] \in {Param, p[i].name} /\ fixed[i] \in {Param, p[i].name}
    BY <1>0, <1>2, <1>4, <2>1
  <2>. QED BY <2>2
<1>. QED BY <1>1, <1>5, <1>6 DEF PatternsOverlap

\* A path of no page under an entry of plain names shows that no page overlaps it.
LEMMA CoveredUnknownsOverlap ==
  ASSUME NEW patterns \in Seq(Seq(STRING)), NEW entry \in Seq(STRING), NEW p \in Seq(Segment),
         MatchEntry(entry, p), {Param, Rest} \cap {entry[i] : i \in DOMAIN entry} = {},
         NEW k \in DOMAIN patterns, PatternsOverlap(patterns[k], entry)
  PROVE  MatchPattern(patterns[k], Stripped(p))
<1> DEFINE q == Stripped(p)
           pattern == patterns[k]
<1>0. /\ q \in Seq(Segment) /\ Len(q) <= Len(p) /\ Len(q) \in Nat /\ Len(p) \in Nat
      /\ \A i \in 1 .. Len(q) : q[i] = p[i]
      /\ \A i \in Len(q) + 1 .. Len(p) : p[i] = Empty
      /\ DOMAIN q = 1 .. Len(q)
  BY StrippedPath, LenProperties
<1>1. Len(entry) \in Nat /\ DOMAIN entry = 1 .. Len(entry)
      /\ \A i \in 1 .. Len(entry) : entry[i] \notin {Param, Rest}
  BY LenProperties
<1>2. ~HasRest(entry)
  <2>1. entry # <<>> => Len(entry) \in 1 .. Len(entry)
    BY <1>1, EmptySeq
  <2>. QED BY <1>1, <2>1 DEF HasRest, Last
<1>3. Fixed(entry) = entry
  BY <1>2 DEF Fixed
<1>4. /\ Len(entry) = Len(p)
      /\ \A i \in 1 .. Len(entry) : p[i].name # "" /\ entry[i] = p[i].name
  BY <1>1, <1>2, <1>3 DEF MatchEntry, Fits
<1>5. Len(q) = Len(p)
  <2>1. ASSUME Len(q) < Len(p) PROVE FALSE
    <3>1. Len(p) \in Len(q) + 1 .. Len(p) /\ Len(p) \in 1 .. Len(entry)
      <4>. HIDE DEF q
      <4>1. Len(p) \in Len(q) + 1 .. Len(p) /\ Len(p) \in 1 .. Len(p)
        BY <1>0, <2>1, Between
      <4>. QED BY <4>1, <1>4, Zenon
    <3>2. p[Len(p)] = Empty /\ p[Len(p)].name # ""
      BY <1>0, <1>4, <3>1
    <3>. QED BY <3>2, EmptyHasNoName
  <2>. HIDE DEF q
  <2>. QED BY <1>0, <2>1
<1>6. /\ Len(pattern) = Len(entry)
      /\ \A i \in 1 .. Len(entry) : pattern[i] \in {Param, entry[i]}
  BY <1>1, <1>2, <1>3 DEF PatternsOverlap
<1>. QED BY <1>0, <1>1, <1>4, <1>5, <1>6 DEF MatchPattern, Fits

\* A match of any page is of the first: the route is a page that matches, and 0
\* when there is none.
LEMMA RouteMatches ==
  ASSUME NEW patterns \in Seq(Seq(STRING)), NEW p
  PROVE  /\ MatchRoute(p, patterns) # 0 =>
               /\ MatchRoute(p, patterns) \in DOMAIN patterns
               /\ MatchPattern(patterns[MatchRoute(p, patterns)], Stripped(p))
         /\ MatchRoute(p, patterns) = 0 => \A k \in DOMAIN patterns : ~MatchPattern(patterns[k], Stripped(p))
<1> DEFINE hits == {i \in DOMAIN patterns : MatchPattern(patterns[i], Stripped(p))}
<1>1. hits \subseteq Nat \ {0} /\ hits \subseteq Nat
  BY LenProperties
<1>2. CASE hits = {}
  <2>1. MatchRoute(p, patterns) = 0
    BY <1>2 DEF MatchRoute
  <2>. QED BY <1>2, <2>1
<1>3. CASE hits # {}
  <2>1. \E i \in hits : \A j \in hits : i <= j
    BY <1>1, <1>3, LeastNatural
  <2>2. MatchRoute(p, patterns) = CHOOSE i \in hits : \A j \in hits : i <= j
    BY <1>3 DEF MatchRoute
  <2>3. MatchRoute(p, patterns) \in hits
    <3>. HIDE DEF hits
    <3>. QED BY <2>1, <2>2
  <2>. QED BY <1>1, <2>3
<1>. QED BY <1>2, <1>3

-----------------------------------------------------------------------------
(* The canonical spelling of a path is a path.                              *)
Walked(there, s) == IF s = Empty THEN there ELSE Append(there, s)

IsWalking(segments, g) ==
    g = [T \in SUBSET DOMAIN segments |->
            IF T = {} THEN <<>> ELSE Walked(g[T \ {Max(T)}], segments[Max(T)])]

LEMMA CanonicalIsAPath ==
  ASSUME NEW p \in Seq(Segment) PROVE CanonicalPath(p) \in Seq(Segment)
<1> DEFINE segments == CanonicalSegments(p)
           n == Len(segments)
           step == [q \in Seq(Segment) \X Segment |-> Walked(q[1], q[2])]
           G == CHOOSE g : IsWalking(segments, g)
<1>1. segments \in Seq(Segment)
  <2>1. Len(p) \in Nat /\ DOMAIN p = 1 .. Len(p) /\ p \in [1 .. Len(p) -> Segment]
    BY LenProperties
  <2>2. ASSUME NEW i \in 1 .. Len(p)
        PROVE  [p[i] EXCEPT !.form = CASE @ = "alias" -> "plain" [] @ = "codedLower" -> "coded" [] OTHER -> @] \in Segment
    BY <2>1 DEF Segment, Spellings
  <2>. QED BY <2>1, <2>2 DEF CanonicalSegments
<1> HIDE DEF segments
<1>0. n \in Nat /\ segments \in [1 .. n -> Segment] /\ DOMAIN segments = 1 .. n /\ <<>> \in Seq(Segment)
  BY <1>1, LenProperties
<1>2. ASSUME NEW there \in Seq(Segment), NEW s \in Segment
      PROVE  Walked(there, s) \in Seq(Segment) /\ step[<<there, s>>] = Walked(there, s)
  BY AppendProperties DEF Walked
<1>3. Foldable(Seq(Segment), Segment, step, <<>>, segments)
  <2>1. step \in [Seq(Segment) \X Segment -> Seq(Segment)]
    BY <1>2
  <2>. QED BY <1>0, <1>1, <2>1 DEF Foldable
<1> HIDE DEF step
<1>4. CanonicalPath(p) = G[DOMAIN segments]
  BY Zenon DEF CanonicalPath, FoldLeft, MapThenFoldSet, IsWalking, Walked, segments
<1>5. IsWalking(segments, G)
  <2>1. PICK g \in [SUBSET (1 .. n) -> Seq(Segment)] : Folds(g, n, step, <<>>, segments)
    BY <1>1, <1>3, FoldsExist
  <2>2. ASSUME NEW T \in SUBSET DOMAIN segments
        PROVE  g[T] = IF T = {} THEN <<>> ELSE Walked(g[T \ {Max(T)}], segments[Max(T)])
    <3>1. CASE T = {}
      BY <1>0, <2>1, <3>1 DEF Folds
    <3>2. CASE T # {}
      <4>1. T \in SUBSET (1 .. n) /\ T \ {Max(T)} \in SUBSET (1 .. n)
        BY <1>0
      <4>2. Max(T) \in T
        BY <1>0, <3>2, GreatestUpTo
      <4>3. g[T \ {Max(T)}] \in Seq(Segment) /\ segments[Max(T)] \in Segment
        BY <1>0, <2>1, <4>1, <4>2
      <4>4. g[T] = step[<<g[T \ {Max(T)}], segments[Max(T)]>>]
        BY <2>1, <3>2, <4>1 DEF Folds
      <4>. QED BY <1>2, <3>2, <4>3, <4>4
    <3>. QED BY <3>1, <3>2
  <2>3. IsWalking(segments, g)
    BY <1>0, <2>1, <2>2 DEF IsWalking
  <2>. QED BY <2>3
<1>6. Follows(G, n, Seq(Segment), step, <<>>, segments)
  <2>1. ASSUME NEW T \in SUBSET (1 .. n)
        PROVE  G[T] = IF T = {} THEN <<>> ELSE Walked(G[T \ {Max(T)}], segments[Max(T)])
    BY <1>0, <1>5, Zenon DEF IsWalking
  <2>2. ASSUME NEW T \in (SUBSET (1 .. n)) \ {{}}, G[T \ {Max(T)}] \in Seq(Segment)
        PROVE  G[T] = step[<<G[T \ {Max(T)}], segments[Max(T)]>>]
    <3>1. Max(T) \in T
      BY <1>0, GreatestUpTo
    <3>2. segments[Max(T)] \in Segment
      BY <1>0, <3>1
    <3>. QED BY <1>2, <2>1, <2>2, <3>2
  <2>3. G[{}] = <<>>
    BY <2>1
  <2>. QED BY <2>2, <2>3 DEF Follows
<1> HIDE DEF G
<1>7. Row(G, n) \in [0 .. n -> Seq(Segment)] /\ Row(G, n)[n] = G[DOMAIN segments]
  BY <1>1, <1>3, <1>6, RowOfAFold DEF IsRow
<1>. QED BY <1>0, <1>4, <1>7

-----------------------------------------------------------------------------
(* One request in the render service.                                      *)

\* The apps are given and stay: no step changes app, mode or the constants.
AppIsGiven == app \in Apps

\* A copy needs no guard, in whatever order pages and entries are written.
LEMMA CopiesNeedNoGuard == AppIsGiven => CopiesPassNoGuard
<1> SUFFICES ASSUME app \in Apps PROVE CopiesPassNoGuard
  BY DEF AppIsGiven
<1>0. /\ app.patterns \in Seq(Seq(STRING))
      /\ \A entry \in app.matcher : entry \in Seq(STRING)
      /\ \A p \in Paths : CanonicalPath(p) \in Seq(Segment)
  BY RenderAssumption, CanonicalIsAPath
<1>1. ASSUME NEW p \in Paths, MatchRoute(CanonicalPath(p), app.patterns) \in Policies
      PROVE  ~Covers(app.matcher, CanonicalPath(p))
  <2> DEFINE c == CanonicalPath(p)
             k == MatchRoute(c, app.patterns)
  <2>1. k \in DOMAIN app.patterns /\ ~GuardsRoute(app.matcher, app.patterns[k])
    BY <1>1 DEF Policies, Shared
  <2>2. k # 0
    BY <1>0, <2>1, LenProperties
  <2>3. MatchPattern(app.patterns[k], Stripped(c)) /\ app.patterns[k] \in Seq(STRING)
    BY <1>0, <2>1, <2>2, RouteMatches, ElementOfSeq, LenProperties
  <2>4. ASSUME NEW entry \in app.matcher, MatchEntry(entry, c) PROVE FALSE
    BY <1>0, <2>1, <2>3, <2>4, CoveredPagesOverlap DEF GuardsRoute
  <2>. QED BY <2>4 DEF Covers
<1>2. ASSUME ~GuardsUnknown(app.matcher, app.patterns),
             NEW p \in Paths, MatchRoute(CanonicalPath(p), app.patterns) = 0
      PROVE  ~Covers(app.matcher, CanonicalPath(p))
  <2> DEFINE c == CanonicalPath(p)
  <2>1. \A k \in DOMAIN app.patterns : ~MatchPattern(app.patterns[k], Stripped(c))
    BY <1>0, <1>2, RouteMatches
  <2>2. ASSUME NEW entry \in app.matcher, MatchEntry(entry, c) PROVE FALSE
    <3>1. /\ {Param, Rest} \cap {entry[i] : i \in DOMAIN entry} = {}
          /\ \E k \in DOMAIN app.patterns : PatternsOverlap(app.patterns[k], entry)
      BY <1>2 DEF GuardsUnknown
    <3>2. PICK k \in DOMAIN app.patterns : PatternsOverlap(app.patterns[k], entry)
      BY <3>1
    <3>3. MatchPattern(app.patterns[k], Stripped(c))
      BY <1>0, <2>2, <3>1, <3>2, CoveredUnknownsOverlap
    <3>. QED BY <2>1, <3>3
  <2>. QED BY <2>2 DEF Covers
<1>. QED BY <1>1, <1>2 DEF CopiesPassNoGuard

\* Whom the code under way is for is told by the door it came in by, and what
\* came before the door ran nothing.
HandlerIsAtItsDoor ==
  /\ at \in {"idle", "key", "guard", "door"} =>
        ran = {} /\ cookies = {} /\ kept = {} /\ work = "nothing"
  /\ at \in {"key", "guard"} => path = req.path
  /\ at \in {"body", "action"} =>
        req.door \in Posts /\ work = "action" /\ ran = {} /\ cookies = {} /\ kept = {}
  /\ at = "loader" =>
        /\ \/ req.door \in ReadDoors /\ work = req.door
           \/ req.door = "enhanced" /\ work = "envelope"
           \/ req.door = "post" /\ work = "native"
        /\ "loader" \notin ran
  /\ at = "render" =>
        work \in {"document", "shared", "404", "native", "500", "action 500"}

\* Page code runs behind the guard alone; the error page of a guard that threw
\* is no code of the page.
GuardComesFirst ==
  at # "idle" /\ guard # "passed" /\ Covers(app.matcher, req.path) =>
      /\ ran = {}
      /\ at \in {"key", "guard", "answered"} \/ (at = "render" /\ work = "500")

\* What an action had go set is held until the answer, and an error page that
\* knows nothing of it is for those who have none.
ActionCookieIsHeld ==
  /\ kept \subseteq cookies
  /\ "action" \in cookies =>
      /\ "action" \in kept
      /\ at \in {"loader", "render", "answered"}
      /\ work \in {"action", "envelope", "native", "action 500"} \/ gone
      /\ "loader" \in ran => "action" \in saw

RenderInv ==
  /\ AppIsGiven /\ HandlerIsAtItsDoor /\ GuardComesFirst /\ ActionCookieIsHeld
  /\ GuardedDoors /\ RuntimeReadsRedirects /\ LoginsAreKept

LEMMA RenderStarts == RenderInit => RenderInv
  BY DEF RenderInit, RenderInv, AppIsGiven, HandlerIsAtItsDoor, GuardComesFirst, ActionCookieIsHeld,
         GuardedDoors, RuntimeReadsRedirects, LoginsAreKept


\* What an error is answered with carries a login that is held, or is the page
\* of errors, which is rendered with it or for those who have none.
IsAnswered(held) ==
  \/ /\ at' = "answered" /\ work' = work
     /\ answer'.as # "redirect" /\ ("action" \in held => "action" \in answer'.cookies \/ gone)
  \/ /\ at' = "render" /\ answer' = answer
     /\ work' = "action 500" \/ (work' = "500" /\ "action" \notin held)

LEMMA ErrorsAnswer == ASSUME NEW held, Errors, "action" \notin held \/ gone PROVE IsAnswered(held)
  <1> USE DEF Errors, IsAnswered, Sends, GoesTo, Response
  <1>1. CASE gone
    BY <1>1
  <1>2. CASE ~gone /\ mode.dev
    BY <1>2
  <1>3. CASE ~gone /\ ~mode.dev /\ mode.page500
    BY <1>3
  <1>4. CASE ~gone /\ ~mode.dev /\ ~mode.page500
    BY <1>4
  <1>. QED BY <1>1, <1>2, <1>3, <1>4

LEMMA ActionErrorsAnswer == ASSUME NEW held, ActionErrors(held) PROVE IsAnswered(held)
  <1> DEFINE native == ~Enhanced /\ held = {}
  <1>1. CASE gone \/ native
    <2>1. Errors
      BY <1>1 DEF ActionErrors
    <2>2. "action" \notin held \/ gone
      BY <1>1
    <2>. QED BY <2>1, <2>2, ErrorsAnswer
  <1>2. CASE ~(gone \/ native) /\ mode.dev
    <2>1. Sends(Response(500, "overlay", Marked("raw"), Rides(held))) /\ UNCHANGED work
      BY <1>2 DEF ActionErrors
    <2>. QED BY <2>1 DEF IsAnswered, Sends, Response, Rides
  <1>3. CASE ~(gone \/ native) /\ ~mode.dev /\ mode.page500
    <2>1. GoesTo("render", "action 500")
      BY <1>3 DEF ActionErrors
    <2>. QED BY <2>1 DEF IsAnswered, GoesTo
  <1>4. CASE ~(gone \/ native) /\ ~mode.dev /\ ~mode.page500
    <2>1. Sends(Response(500, "text", Marked("raw"), Rides(held))) /\ UNCHANGED work
      BY <1>4 DEF ActionErrors
    <2>. QED BY <2>1 DEF IsAnswered, Sends, Response, Rides
  <1>. QED BY <1>1, <1>2, <1>3, <1>4

LEMMA ThrownAnswers ==
  ASSUME NEW held, Thrown(held),
         "action" \in held => work \in {"envelope", "native", "action 500"} \/ gone
  PROVE  IsAnswered(held)
  <1>1. CASE work \in {"envelope", "native"}
    BY <1>1, ActionErrorsAnswer DEF Thrown
  <1>2. CASE work = "action 500"
    <2>1. Sends(Response(500, "text", Marked("raw"), Rides(held))) /\ UNCHANGED work
      BY <1>2 DEF Thrown
    <2>. QED BY <2>1 DEF IsAnswered, Sends, Response, Rides
  <1>3. CASE work = "500"
    <2>1. Sends(Response(500, "text", "none", {})) /\ UNCHANGED work
      BY <1>3 DEF Thrown
    <2>. QED BY <1>3, <2>1 DEF IsAnswered, Sends, Response
  <1>4. CASE work \notin {"envelope", "native", "action 500", "500"}
    <2>1. Errors
      BY <1>4 DEF Thrown
    <2>. QED BY <1>4, <2>1, ErrorsAnswer
  <1>. QED BY <1>1, <1>2, <1>3, <1>4

LEMMA RenderStep == RenderInv /\ [RenderNext]_renderVars => RenderInv'
<1> SUFFICES ASSUME RenderInv, [RenderNext]_renderVars PROVE RenderInv'
  OBVIOUS
<1> USE DEF RenderInv, AppIsGiven, HandlerIsAtItsDoor, GuardComesFirst, ActionCookieIsHeld,
            GuardedDoors, RuntimeReadsRedirects, LoginsAreKept,
            asked, memory, Sends, GoesTo, Response
<1>1. CASE Arrive
  BY <1>1 DEF Arrive, Requests, Posts, Doors
<1>2. CASE Forbidden
  BY <1>2 DEF Forbidden
<1>3. CASE Respelled
  <2>1. /\ at = "key" /\ at' = "answered" /\ answer'.as = "location" /\ answer'.cookies = {}
        /\ UNCHANGED <<app, mode, req, path, guard, work, ran, cookies, kept, saw, gone>>
    BY <1>3 DEF Respelled
  <2>. QED BY <2>1 DEF Redirect
<1>4. CASE Declares
  BY <1>4 DEF Declares
<1>5. CASE Admits
  BY <1>5 DEF Admits
<1>6. CASE GuardSkips
  BY <1>6 DEF GuardSkips, Covered
<1>7. CASE GuardPasses
  BY <1>7 DEF GuardPasses, Covered
<1>8. CASE GuardAnswers
  BY <1>8 DEF GuardAnswers, Covered, AnsweredForDoor, AsData, Own, StatusOf, Enhanced, Redirect, Json, Posts
<1>9. CASE GuardThrows
  <2>1. IsAnswered({})
    BY <1>9, ErrorsAnswer DEF GuardThrows
  <2>2. /\ at = "guard" /\ guard' = "answered"
        /\ UNCHANGED <<app, mode, req, path, ran, cookies, kept, saw, gone>>
    BY <1>9 DEF GuardThrows
  <2>3. at' = "render" => work' = "500"
    BY <1>9 DEF GuardThrows, Errors
  <2>. QED BY <2>1, <2>2, <2>3 DEF IsAnswered, Redirect
<1>10. CASE Post
  <2>1. /\ at = "door" /\ req.door \in Posts
        /\ UNCHANGED <<app, mode, req, path, guard, ran, cookies, kept, saw, gone>>
    BY <1>10 DEF Post
  <2>2. \/ at' = "body" /\ work' = "action" /\ answer' = answer
        \/ at' = "answered" /\ answer'.as # "redirect" /\ work' = work
    BY <1>10 DEF Post, Json
  <2>. QED BY <2>1, <2>2 DEF Redirect
<1>11. CASE NotAllowed
  BY <1>11 DEF NotAllowed, Redirect
<1>12. CASE NotFound
  <2>1. /\ at = "door" /\ req.door \in ReadDoors
        /\ UNCHANGED <<app, mode, req, path, guard, ran, cookies, kept, saw, gone>>
    BY <1>12 DEF NotFound
  <2>2. CASE req.door = "props"
    BY <1>12, <2>1, <2>2 DEF NotFound, Json, Redirect
  <2>3. CASE req.door # "props" /\ mode.page404
    <3>1. at' = "render" /\ work' = "404" /\ answer' = answer
      BY <1>12, <2>3 DEF NotFound
    <3>. QED BY <2>1, <3>1
  <2>4. CASE req.door # "props" /\ ~mode.page404
    <3>1. at' = "answered" /\ answer'.as = "text" /\ work' = work
      BY <1>12, <2>4 DEF NotFound
    <3>. QED BY <2>1, <3>1 DEF Redirect
  <2>. QED BY <2>2, <2>3, <2>4
<1>13. CASE Read
  BY <1>13 DEF Read, ReadDoors, Posts
<1>14. CASE BodyTooLarge
  BY <1>14 DEF BodyTooLarge, Posts, Redirect
<1>15. CASE CsrfRejects
  BY <1>15 DEF CsrfRejects, Posts, Enhanced, Marked, Json, Redirect
<1>16. CASE ActionStarts
  BY <1>16 DEF ActionStarts, Posts
<1>17. CASE ActionResponds
  BY <1>17 DEF ActionResponds, CallsGo, Own, StatusOf, Enhanced, Redirect, Json, Posts
<1>18. CASE ActionReturns
  BY <1>18 DEF ActionReturns, CallsGo, Enhanced, Posts, ReadDoors
<1>19. CASE ActionThrows
  <2>1. /\ at = "action" /\ kept' = cookies' /\ cookies' \in {cookies, cookies \cup {"action"}}
        /\ ran' = ran \cup {"action"}
        /\ UNCHANGED <<app, mode, req, path, guard, saw, gone>>
    BY <1>19 DEF ActionThrows, CallsGo
  <2>2. IsAnswered(kept')
    BY <1>19, ActionErrorsAnswer DEF ActionThrows
  <2>. QED BY <2>1, <2>2 DEF IsAnswered, Redirect, Posts
<1>20. CASE LoaderReturns
  <2>1. /\ at = "loader" /\ kept' = cookies' /\ cookies' \in {cookies, cookies \cup {"loader"}}
        /\ ran' = ran \cup {"loader"} /\ saw' = kept
        /\ UNCHANGED <<app, mode, req, path, guard, gone>>
    BY <1>20 DEF LoaderReturns, LoaderCalled, CallsGo, FreshJar
  <2>2. \/ at' = "answered" /\ answer'.as = "json" /\ answer'.cookies = cookies' /\ work' = work
        \/ at' = "render" /\ work' = work /\ answer' = answer /\ work \notin {"props", "envelope"}
    <3>1. IF work \in Data
          THEN Sends(Response(200, Json, Marked("action"), cookies')) /\ UNCHANGED work
          ELSE GoesTo("render", work)
      BY <1>20, Zenon DEF LoaderReturns
    <3>2. CASE work \in Data
      <4>1. answer' = [status |-> 200, as |-> "json", mark |-> Marked("action"), cookies |-> cookies']
        BY <3>1, <3>2 DEF Json
      <4>. QED BY <3>1, <3>2, <4>1
    <3>3. CASE work \notin Data
      <4>1. GoesTo("render", work)
        BY <3>1, <3>3, Zenon
      <4>. QED BY <3>3, <4>1 DEF Data
    <3>. QED BY <3>2, <3>3
  <2>. QED BY <2>1, <2>2 DEF Redirect, ReadDoors
<1>21. CASE LoaderResponds
  <2>1. /\ at = "loader" /\ kept' = cookies' /\ cookies' \in {cookies, cookies \cup {"loader"}}
        /\ ran' = ran \cup {"loader"} /\ saw' = kept
        /\ UNCHANGED <<app, mode, req, path, guard, work, gone>>
    BY <1>21 DEF LoaderResponds, LoaderCalled, CallsGo, FreshJar
  <2>2. /\ at' = "answered" /\ answer'.cookies = cookies'
        /\ work \in {"props", "envelope"} => answer'.as # "redirect"
    <3>1. PICK own \in Own :
             Sends(IF work \in Data THEN AsData(own, Marked("action"), cookies')
                                    ELSE Response(StatusOf(own), own, "none", cookies'))
      BY <1>21, Zenon DEF LoaderResponds
    <3>. QED BY <3>1 DEF AsData, Own, Data, Json, Redirect
  <2>. QED BY <2>1, <2>2 DEF Redirect, ReadDoors
<1>22. CASE LoaderThrows
  <2>1. /\ at = "loader" /\ kept' \in {cookies', kept} /\ cookies' \in {cookies, cookies \cup {"loader"}}
        /\ ran' = ran \cup {"loader"} /\ saw' = kept
        /\ UNCHANGED <<app, mode, req, path, guard, gone>>
    BY <1>22 DEF LoaderThrows, LoaderCalled, CallsGo, FreshJar
  <2>2. "action" \in kept' => "action" \in kept \/ "action" \in cookies
    BY <2>1
  <2>3. "action" \in cookies => work \in {"envelope", "native"} \/ gone
    BY <2>1 DEF ReadDoors
  <2>4. IsAnswered(kept')
    <3>1. Thrown(kept')
      BY <1>22, Zenon DEF LoaderThrows
    <3>. QED BY <2>2, <2>3, <3>1, ThrownAnswers
  <2>. QED BY <2>1, <2>2, <2>3, <2>4 DEF IsAnswered, Redirect, ReadDoors
<1>23. CASE Renders
  BY <1>23 DEF Renders, Document, DocumentStatus, Held, Rides, Redirect, ReadDoors, Posts
<1>24. CASE RenderThrows
  <2>1. /\ at = "render" /\ kept' \in {kept, kept \ {"loader"}}
        /\ UNCHANGED <<app, mode, req, path, guard, cookies, saw, gone>>
        /\ ran' = (IF work \in {"500", "action 500"} THEN ran ELSE ran \cup {"render"})
    BY <1>24 DEF RenderThrows
  <2>2. "action" \in kept' => "action" \in kept
    BY <2>1
  <2>4. IsAnswered(kept')
    <3>1. Thrown(kept')
      BY <1>24, Zenon DEF RenderThrows
    <3>2. "action" \in kept' => work \in {"envelope", "native", "action 500"} \/ gone
      BY <2>1, <2>2
    <3>. QED BY <3>1, <3>2, ThrownAnswers
  <2>3. kept' \subseteq cookies' /\ ("action" \in kept' <=> "action" \in kept)
    BY <2>1
  <2>5. /\ at' \in {"answered", "render"}
        /\ at' = "answered" => work' = work
        /\ at' = "render" => work' \in {"500", "action 500"} /\ (work' = "500" => "action" \notin kept')
    BY <2>4 DEF IsAnswered
  <2>6. HandlerIsAtItsDoor'
    BY <2>1, <2>5 DEF Posts, ReadDoors
  <2>7. GuardComesFirst'
    <3>1. ASSUME guard # "passed", Covers(app.matcher, req.path)
          PROVE  ran' = {} /\ (at' = "answered" \/ (at' = "render" /\ work' = "500"))
      <4>1. ran = {} /\ work = "500"
        BY <2>1, <3>1
      <4>2. Sends(Response(500, "text", "none", {}))
        BY <1>24, <4>1 DEF RenderThrows, Thrown
      <4>. QED BY <2>1, <4>1, <4>2
    <3>. QED BY <2>1, <2>5, <3>1
  <2>8. ActionCookieIsHeld'
    BY <2>1, <2>3, <2>5
  <2>9. RuntimeReadsRedirects' /\ LoginsAreKept' /\ GuardedDoors' /\ AppIsGiven'
    BY <2>1, <2>3, <2>4, <2>5, <2>7, <2>8 DEF IsAnswered, Redirect
  <2>. QED BY <2>6, <2>7, <2>8, <2>9
<1>25. CASE HangUp
  BY <1>25 DEF HangUp
<1>26. CASE UNCHANGED renderVars
  BY <1>26 DEF renderVars, Posts, ReadDoors
<1>. QED BY <1>1, <1>2, <1>3, <1>4, <1>5, <1>6, <1>7, <1>8, <1>9, <1>10, <1>11, <1>12, <1>13, <1>14, <1>15, <1>16, <1>17, <1>18, <1>19, <1>20, <1>21, <1>22, <1>23, <1>24, <1>25, <1>26 DEF RenderNext, Enters, Guards, Door, PageCode

LEMMA RenderKeepsItsInvariant == RenderSpec => []RenderInv
  BY RenderStarts, RenderStep, PTL DEF RenderSpec

\* A guard stands before every door, for any pages and any matcher: no code of a
\* page it covers runs unasked, no page that has shared copies answers under it,
\* and the runtime meets no redirect where it reads data (server.ts 580).
THEOREM DoorsAreGuarded == RenderSpec => []DoorsHold
<1>1. RenderInv => DoorsHold
  BY CopiesNeedNoGuard DEF RenderInv, DoorsHold
<1>. QED BY <1>1, RenderKeepsItsInvariant, PTL

\* Who logged in by an action is logged in, whatever throws afterwards, for any
\* page code: the loader that follows sees the cookie, and so does the browser
\* on every answer, an error included (util.ts 1207).
THEOREM LoginsAreNotLost == RenderSpec => []LoginsAreKept
<1>1. RenderInv => LoginsAreKept
  BY DEF RenderInv
<1>. QED BY <1>1, RenderKeepsItsInvariant, PTL

-----------------------------------------------------------------------------
(* The calls of one request.  What go has been given is not offered again: *)
(* only a refusal, which never reached it, is followed by another attempt. *)

\* A call that is still to be dialled has reached nobody, and one that is under
\* way has an attempt left.
NotGivenYet ==
  \A c \in Calls :
    /\ reached[c] \in {0, 1}
    /\ call[c] \in {"idle", "dialling", "resting"} => reached[c] = 0
    /\ call[c] # "over" => attempt[c] <= Retries

CallInv == CallTypeOK /\ reached \in [Calls -> Nat] /\ NotGivenYet

LEMMA CallStarts == CallInit => CallInv
  BY CallAssumption DEF CallInit, CallInv, CallTypeOK, NotGivenYet

LEMMA CallKeepsItsInvariant == CallInv /\ [CallNext]_callVars => CallInv'
<1> SUFFICES ASSUME CallInv, [CallNext]_callVars PROVE CallInv'
  OBVIOUS
<1>0. Kinds \in [Calls -> {"api", "timed", "export"}] /\ Retries \in Nat
  BY CallAssumption
<1> USE <1>0 DEF CallInv, CallTypeOK, NotGivenYet
<1>1. ASSUME NEW c \in Calls, CallStep(c) PROVE CallInv'
  <2>1. CASE Misused(c)
    BY <2>1 DEF Misused, Gets
  <2>2. CASE Begins(c)
    BY <2>2 DEF Begins, Goes
  <2>3. CASE Refused(c)
    <3>1. CASE Retried(c, "refused")
      BY <2>3, <3>1 DEF Refused, Fails, Retried
    <3>2. CASE ~Retried(c, "refused")
      BY <2>3, <3>2 DEF Refused, Fails, Gets
    <3>. QED BY <3>1, <3>2
  <2>4. CASE DialsAgain(c)
    BY <2>4 DEF DialsAgain, Goes
  <2>5. CASE Reaches(c)
    BY <2>5 DEF Reaches, Goes
  <2>6. CASE Reset(c)
    <3>1. ~Retried(c, "reset")
      BY DEF Retried
    <3>. QED BY <2>6, <3>1 DEF Reset, Fails, Gets
  <2>7. CASE Answered(c)
    <3>1. /\ call[c] = "asked" /\ UNCHANGED <<attempt, reached>>
          /\ \/ call' = [call EXCEPT ![c] = "over"] /\ deadline' = [deadline EXCEPT ![c] = "none"]
             \/ call' = [call EXCEPT ![c] = "failing"] /\ UNCHANGED deadline
             \/ call' = [call EXCEPT ![c] = "reading"] /\ UNCHANGED deadline
      BY <2>7 DEF Answered, Gets
    <3>. QED BY <3>1
  <2>8. CASE Reads(c)
    BY <2>8 DEF Reads, Gets
  <2>9. CASE DeadlinePasses(c)
    BY <2>9 DEF DeadlinePasses
  <2>10. CASE GivesUp(c)
    BY <2>10 DEF GivesUp, Gets
  <2>. QED BY <1>1, <2>1, <2>2, <2>3, <2>4, <2>5, <2>6, <2>7, <2>8, <2>9, <2>10 DEF CallStep
<1>2. CASE UNCHANGED callVars
  BY <1>2 DEF callVars
<1>. QED BY <1>1, <1>2 DEF CallNext

\* Go is given each call at most once, for any calls, retries and deadlines: a
\* call that may have changed something is not repeated (api.ts 222), and the
\* attempts stay within the retries.
THEOREM GoIsGivenOnce == CallSpec => [](CallTypeOK /\ GivenOnce)
<1>1. CallInv => CallTypeOK /\ GivenOnce
  BY DEF CallInv, NotGivenYet, GivenOnce
<1>. QED BY <1>1, CallStarts, CallKeepsItsInvariant, PTL DEF CallSpec

-----------------------------------------------------------------------------
(* The jar of a request.  Without goes over the pairs of a header one by    *)
(* one, and so do the cookies taken: each has one value in the jar, of the  *)
(* newest that arrived, and the pairs of no cookie that arrived are those   *)
(* the browser sent.                                                        *)

\* one pair more, as Without goes over them
Keeping(names, others, p) == IF p.name \in names THEN others ELSE Append(others, p)

IsKeeping(names, parts, g) ==
    g = [T \in SUBSET DOMAIN parts |->
            IF T = {} THEN <<>> ELSE Keeping(names, g[T \ {Max(T)}], parts[Max(T)])]

IsKept(names, parts, F) ==
    /\ F[0] = <<>> /\ F[Len(parts)] = Without(parts, names)
    /\ \A k \in 1 .. Len(parts) : F[k] = Keeping(names, F[k - 1], parts[k])

LEMMA WithoutRow ==
  ASSUME NEW All, NEW parts \in Seq(All), NEW names
  PROVE  \E F \in [0 .. Len(parts) -> Seq(All)] : IsKept(names, parts, F)
<1> DEFINE n == Len(parts)
           step == [q \in Seq(All) \X All |-> Keeping(names, q[1], q[2])]
           G == CHOOSE g : IsKeeping(names, parts, g)
<1>0. n \in Nat /\ parts \in [1 .. n -> All] /\ DOMAIN parts = 1 .. n /\ <<>> \in Seq(All)
  BY LenProperties
<1>1. ASSUME NEW others \in Seq(All), NEW p \in All
      PROVE  Keeping(names, others, p) \in Seq(All) /\ step[<<others, p>>] = Keeping(names, others, p)
  BY AppendProperties DEF Keeping
<1>2. Foldable(Seq(All), All, step, <<>>, parts)
  <2>1. step \in [Seq(All) \X All -> Seq(All)]
    BY <1>1
  <2>. QED BY <1>0, <2>1 DEF Foldable
<1> HIDE DEF step
<1>3. Without(parts, names) = G[DOMAIN parts]
  BY Zenon DEF Without, FoldLeft, MapThenFoldSet, IsKeeping, Keeping
<1>4. IsKeeping(names, parts, G)
  <2>1. PICK g \in [SUBSET (1 .. n) -> Seq(All)] : Folds(g, n, step, <<>>, parts)
    BY <1>2, FoldsExist
  <2>2. ASSUME NEW T \in SUBSET DOMAIN parts
        PROVE  g[T] = IF T = {} THEN <<>> ELSE Keeping(names, g[T \ {Max(T)}], parts[Max(T)])
    <3>1. CASE T = {}
      BY <1>0, <2>1, <3>1 DEF Folds
    <3>2. CASE T # {}
      <4>1. T \in SUBSET (1 .. n) /\ T \ {Max(T)} \in SUBSET (1 .. n)
        BY <1>0
      <4>2. Max(T) \in T
        BY <1>0, <3>2, GreatestUpTo
      <4>3. g[T \ {Max(T)}] \in Seq(All) /\ parts[Max(T)] \in All
        BY <1>0, <2>1, <4>1, <4>2
      <4>4. g[T] = step[<<g[T \ {Max(T)}], parts[Max(T)]>>]
        BY <2>1, <3>2, <4>1 DEF Folds
      <4>. QED BY <1>1, <3>2, <4>3, <4>4
    <3>. QED BY <3>1, <3>2
  <2>3. IsKeeping(names, parts, g)
    BY <1>0, <2>1, <2>2 DEF IsKeeping
  <2>. QED BY <2>3
<1>5. Follows(G, n, Seq(All), step, <<>>, parts)
  <2>1. ASSUME NEW T \in SUBSET (1 .. n)
        PROVE  G[T] = IF T = {} THEN <<>> ELSE Keeping(names, G[T \ {Max(T)}], parts[Max(T)])
    BY <1>0, <1>4, Zenon DEF IsKeeping
  <2>2. ASSUME NEW T \in (SUBSET (1 .. n)) \ {{}}, G[T \ {Max(T)}] \in Seq(All)
        PROVE  G[T] = step[<<G[T \ {Max(T)}], parts[Max(T)]>>]
    <3>1. Max(T) \in T
      BY <1>0, GreatestUpTo
    <3>2. parts[Max(T)] \in All
      BY <1>0, <3>1
    <3>. QED BY <1>1, <2>1, <2>2, <3>2
  <2>3. G[{}] = <<>>
    BY <2>1
  <2>. QED BY <2>2, <2>3 DEF Follows
<1> HIDE DEF G
<1> DEFINE F == Row(G, n)
<1>6. /\ F \in [0 .. n -> Seq(All)] /\ F[0] = <<>> /\ F[n] = G[DOMAIN parts]
      /\ \A k \in 1 .. n : F[k] = step[<<F[k - 1], parts[k]>>]
  BY <1>2, <1>5, RowOfAFold DEF IsRow
<1> HIDE DEF F
<1>7. ASSUME NEW k \in 1 .. n PROVE F[k] = Keeping(names, F[k - 1], parts[k])
  <2>1. k - 1 \in 0 .. n
    BY <1>0
  <2>2. F[k - 1] \in Seq(All) /\ parts[k] \in All
    BY <1>0, <1>6, <2>1
  <2>. QED BY <1>1, <1>6, <2>2
<1>8. IsKept(names, parts, F)
  BY <1>3, <1>6, <1>7 DEF IsKept
<1>. QED BY <1>6, <1>8

LEMMA WithoutIsASeq ==
  ASSUME NEW All, NEW s \in Seq(All), NEW names PROVE Without(s, names) \in Seq(All)
<1>1. PICK F \in [0 .. Len(s) -> Seq(All)] : IsKept(names, s, F)
  BY WithoutRow
<1>2. Len(s) \in 0 .. Len(s)
  BY LenProperties
<1>. QED BY <1>1, <1>2 DEF IsKept

\* Pair by pair: what the provers unfold Without with.
LEMMA WithoutNone ==
  ASSUME NEW names PROVE Without(<<>>, names) = <<>>
<1>1. <<>> \in Seq({}) /\ Len(<<>>) = 0
  OBVIOUS
<1>2. PICK F : IsKept(names, <<>>, F)
  BY <1>1, WithoutRow
<1>. QED BY <1>1, <1>2 DEF IsKept

LEMMA WithoutMore ==
  ASSUME NEW All, NEW s \in Seq(All), NEW x \in All, NEW names
  PROVE  Without(Append(s, x), names) = Keeping(names, Without(s, names), x)
<1> DEFINE t == Append(s, x)
           n == Len(s)
<1>0. /\ n \in Nat /\ t \in Seq(All) /\ Len(t) = n + 1 /\ t[n + 1] = x /\ \A k \in 1 .. n : t[k] = s[k]
  BY AppendProperties, LenProperties
<1>1. PICK F \in [0 .. Len(s) -> Seq(All)] : IsKept(names, s, F)
  BY WithoutRow
<1>2. PICK G \in [0 .. Len(t) -> Seq(All)] : IsKept(names, t, G)
  BY <1>0, WithoutRow
<1> HIDE DEF t
<1> DEFINE Good == {k \in 0 .. n : F[k] = G[k]}
<1>3. 0 \in Good
  BY <1>0, <1>1, <1>2 DEF IsKept
<1>4. ASSUME NEW k \in 0 .. n - 1, k \in Good PROVE k + 1 \in Good
  <2>1. k + 1 \in 1 .. n /\ k + 1 \in 1 .. n + 1 /\ (k + 1) - 1 = k /\ k + 1 \in 0 .. n
    BY <1>0
  <2>2. F[k + 1] = Keeping(names, F[k], s[k + 1])
    BY <1>1, <2>1 DEF IsKept
  <2>3. G[k + 1] = Keeping(names, G[k], t[k + 1])
    BY <1>0, <1>2, <2>1 DEF IsKept
  <2>4. F[k] = G[k] /\ t[k + 1] = s[k + 1]
    BY <1>0, <1>4, <2>1
  <2>. QED BY <2>1, <2>2, <2>3, <2>4
<1> HIDE DEF Good
<1>5. n \in Good
  <2>1. \A k \in 0 .. n : k \in Good
    BY <1>0, <1>3, <1>4, InductionUpTo
  <2>. QED BY <1>0, <2>1
<1>6. F[n] = Without(s, names) /\ F[n] \in Seq(All) /\ G[n] = F[n]
  BY <1>0, <1>1, <1>5 DEF IsKept, Good
<1>7. G[n + 1] = Keeping(names, G[n], x)
  <2>1. n + 1 \in 1 .. Len(t) /\ (n + 1) - 1 = n
    BY <1>0
  <2>2. G[n + 1] = Keeping(names, G[(n + 1) - 1], t[n + 1])
    BY <1>2, <2>1 DEF IsKept
  <2>. QED BY <1>0, <2>1, <2>2
<1>8. G[n + 1] = Without(t, names)
  BY <1>0, <1>2 DEF IsKept
<1>. QED BY <1>6, <1>7, <1>8 DEF t

-----------------------------------------------------------------------------
\* Joined, a header loses what its halves lose.
LEMMA AppendToJoined ==
  ASSUME NEW S, NEW s \in Seq(S), NEW t \in Seq(S), NEW x \in S
  PROVE  s \o Append(t, x) = Append(s \o t, x)
<1>1. <<x>> \in Seq(S)
  OBVIOUS
<1>2. Append(t, x) = t \o <<x>> /\ s \o t \in Seq(S)
  BY AppendIsConcat, ConcatProperties
<1>3. Append(s \o t, x) = (s \o t) \o <<x>>
  BY <1>2, AppendIsConcat
<1>4. (s \o t) \o <<x>> = s \o (t \o <<x>>)
  BY <1>1, ConcatAssociative
<1>. QED BY <1>2, <1>3, <1>4

LEMMA WithoutJoined ==
  ASSUME NEW All, NEW s \in Seq(All), NEW t \in Seq(All), NEW names
  PROVE  Without(s \o t, names) = Without(s, names) \o Without(t, names)
<1> DEFINE Good == {u \in Seq(All) : Without(s \o u, names) = Without(s, names) \o Without(u, names)}
<1>1. <<>> \in Good
  <2>1. s \o <<>> = s /\ Without(s, names) \o <<>> = Without(s, names) /\ <<>> \in Seq(All)
    BY ConcatEmptySeq, WithoutIsASeq
  <2>. QED BY <2>1, WithoutNone
<1>2. ASSUME NEW u \in Seq(All), NEW x \in All, u \in Good PROVE Append(u, x) \in Good
  <2> DEFINE ws == Without(s, names)
             wu == Without(u, names)
  <2>0. ws \in Seq(All) /\ wu \in Seq(All)
    BY WithoutIsASeq
  <2> HIDE DEF ws, wu
  <2>6. s \o u \in Seq(All) /\ Append(u, x) \in Seq(All)
    BY ConcatProperties, AppendProperties
  <2>7. s \o Append(u, x) = Append(s \o u, x)
    <3>1. \A a \in Seq(All), b \in Seq(All), y \in All : a \o Append(b, y) = Append(a \o b, y)
      BY AppendToJoined
    <3>. QED BY <3>1
  <2>8. ws \o Append(wu, x) = Append(ws \o wu, x)
    <3>1. \A a \in Seq(All), b \in Seq(All), y \in All : a \o Append(b, y) = Append(a \o b, y)
      BY AppendToJoined
    <3>. QED BY <2>0, <3>1
  <2>1. /\ ws \in Seq(All) /\ wu \in Seq(All) /\ s \o u \in Seq(All) /\ Append(u, x) \in Seq(All)
        /\ s \o Append(u, x) = Append(s \o u, x) /\ ws \o Append(wu, x) = Append(ws \o wu, x)
    BY <2>0, <2>6, <2>7, <2>8
  <2>2. Without(s \o Append(u, x), names) = Keeping(names, Without(s \o u, names), x)
    BY <2>1, WithoutMore
  <2>3. Without(Append(u, x), names) = Keeping(names, wu, x)
    BY WithoutMore DEF wu
  <2>4. Without(s \o u, names) = ws \o wu
    BY <1>2 DEF ws, wu
  <2>5. Keeping(names, ws \o wu, x) = ws \o Keeping(names, wu, x)
    BY <2>1 DEF Keeping
  <2>. QED BY <2>1, <2>2, <2>3, <2>4, <2>5 DEF ws
<1> HIDE DEF Good
<1>3. Seq(All) \subseteq Good
  BY <1>1, <1>2, InductionOverSeq
<1>. QED BY <1>3 DEF Good

\* What goes twice goes once.
LEMMA WithoutTwice ==
  ASSUME NEW All, NEW s \in Seq(All), NEW names, NEW more
  PROVE  Without(Without(s, names), more) = Without(s, names \cup more)
<1> DEFINE Good == {u \in Seq(All) : Without(Without(u, names), more) = Without(u, names \cup more)}
<1>1. <<>> \in Good
  BY WithoutNone
<1>2. ASSUME NEW u \in Seq(All), NEW x \in All, u \in Good PROVE Append(u, x) \in Good
  <2> DEFINE wu == Without(u, names)
  <2>1. wu \in Seq(All) /\ Append(u, x) \in Seq(All)
    BY WithoutIsASeq, AppendProperties
  <2>2. Without(Append(u, x), names) = Keeping(names, wu, x)
    BY WithoutMore
  <2>3. Without(Append(u, x), names \cup more) = Keeping(names \cup more, Without(u, names \cup more), x)
    BY WithoutMore
  <2>4. Without(Append(wu, x), more) = Keeping(more, Without(wu, more), x)
    BY <2>1, WithoutMore
  <2>5. Without(wu, more) = Without(u, names \cup more)
    BY <1>2
  <2> HIDE DEF wu
  <2>. QED BY <2>1, <2>2, <2>3, <2>4, <2>5 DEF Keeping
<1> HIDE DEF Good
<1>3. Seq(All) \subseteq Good
  BY <1>1, <1>2, InductionOverSeq
<1>. QED BY <1>3 DEF Good

\* What has none of the names is left alone.
LEMMA WithoutIsAlone ==
  ASSUME NEW All, NEW s \in Seq(All), NEW names, \A i \in 1 .. Len(s) : s[i].name \notin names
  PROVE  Without(s, names) = s
<1> DEFINE Good == {u \in Seq(All) : (\A i \in 1 .. Len(u) : u[i].name \notin names) => Without(u, names) = u}
<1>1. <<>> \in Good
  BY WithoutNone
<1>2. ASSUME NEW u \in Seq(All), NEW x \in All, u \in Good PROVE Append(u, x) \in Good
  <2>1. /\ Append(u, x) \in Seq(All) /\ Len(Append(u, x)) = Len(u) + 1 /\ Len(u) \in Nat
        /\ \A i \in 1 .. Len(u) : Append(u, x)[i] = u[i]
        /\ Append(u, x)[Len(u) + 1] = x
    BY AppendProperties, LenProperties
  <2>2. ASSUME \A i \in 1 .. Len(Append(u, x)) : Append(u, x)[i].name \notin names
        PROVE  Without(Append(u, x), names) = Append(u, x)
    <3>1. \A i \in 1 .. Len(u) : u[i].name \notin names
      <4>1. \A i \in 1 .. Len(u) : i \in 1 .. Len(u) + 1
        BY <2>1
      <4>. QED BY <2>1, <2>2, <4>1
    <3>2. x.name \notin names
      <4>1. Len(u) + 1 \in 1 .. Len(u) + 1
        BY <2>1
      <4>. QED BY <2>1, <2>2, <4>1
    <3>3. Without(u, names) = u
      BY <1>2, <3>1
    <3>. QED BY <3>2, <3>3, WithoutMore DEF Keeping
  <2>. QED BY <2>1, <2>2
<1> HIDE DEF Good
<1>3. Seq(All) \subseteq Good
  BY <1>1, <1>2, InductionOverSeq
<1>. QED BY <1>3 DEF Good

-----------------------------------------------------------------------------
\* The values of a name, pair by pair and in joined headers.
LEMMA ValuesAre ==
  ASSUME NEW s, NEW n \in Nat, DOMAIN s = 1 .. n, NEW name, NEW v
  PROVE  v \in ValuesOf(s, name) <=> \E i \in 1 .. n : s[i].name = name /\ s[i].value = v
BY DEF ValuesOf

LEMMA ValuesJoined ==
  ASSUME NEW All, NEW s \in Seq(All), NEW t \in Seq(All), NEW name
  PROVE  ValuesOf(s \o t, name) = ValuesOf(s, name) \cup ValuesOf(t, name)
<1> DEFINE m == Len(s)
           n == Len(t)
           st == s \o t
<1>0. /\ m \in Nat /\ n \in Nat /\ DOMAIN s = 1 .. m /\ DOMAIN t = 1 .. n /\ DOMAIN st = 1 .. m + n /\ m + n \in Nat
      /\ \A i \in 1 .. m + n : st[i] = IF i <= m THEN s[i] ELSE t[i - m]
  BY ConcatProperties, LenProperties
<1> HIDE DEF m, n, st
<1>1. /\ \A i \in 1 .. m : i \in 1 .. m + n /\ i <= m
      /\ \A i \in 1 .. n : i + m \in 1 .. m + n /\ ~(i + m <= m) /\ (i + m) - m = i
      /\ \A i \in 1 .. m + n : i <= m => i \in 1 .. m
      /\ \A i \in 1 .. m + n : ~(i <= m) => i - m \in 1 .. n
  BY <1>0
<1>2. ASSUME NEW v PROVE v \in ValuesOf(st, name) <=> v \in ValuesOf(s, name) \/ v \in ValuesOf(t, name)
  <2>1. v \in ValuesOf(st, name) <=> \E i \in 1 .. m + n : st[i].name = name /\ st[i].value = v
    BY <1>0, ValuesAre
  <2>2. v \in ValuesOf(s, name) <=> \E i \in 1 .. m : s[i].name = name /\ s[i].value = v
    BY <1>0, ValuesAre
  <2>3. v \in ValuesOf(t, name) <=> \E i \in 1 .. n : t[i].name = name /\ t[i].value = v
    BY <1>0, ValuesAre
  <2>4. \A i \in 1 .. m : st[i] = s[i]
    BY <1>0, <1>1
  <2>5. \A i \in 1 .. n : st[i + m] = t[i]
    BY <1>0, <1>1
  <2>6. \A i \in 1 .. m + n : (i \in 1 .. m /\ st[i] = s[i]) \/ (i - m \in 1 .. n /\ st[i] = t[i - m])
    BY <1>0, <1>1
  <2>. QED BY <1>1, <2>1, <2>2, <2>3, <2>4, <2>5, <2>6
<1>. QED BY <1>2 DEF st

LEMMA ValuesOfOne ==
  ASSUME NEW x, NEW name
  PROVE  ValuesOf(<<x>>, name) = IF x.name = name THEN {x.value} ELSE {}
<1> DEFINE s == <<x>>
<1>1. DOMAIN s = 1 .. 1 /\ s[1] = x
  OBVIOUS
<1> HIDE DEF s
<1>2. {j \in DOMAIN s : s[j].name = name} = IF x.name = name THEN {1} ELSE {}
  BY <1>1
<1>3. ValuesOf(s, name) = IF x.name = name THEN {x.value} ELSE {}
  BY <1>1, <1>2 DEF ValuesOf
<1>. QED BY <1>3 DEF s

LEMMA ValuesOfMore ==
  ASSUME NEW All, NEW s \in Seq(All), NEW x \in All, NEW name
  PROVE  ValuesOf(Append(s, x), name) = ValuesOf(s, name) \cup (IF x.name = name THEN {x.value} ELSE {})
<1> DEFINE t == <<x>>
<1>1. t \in Seq(All) /\ Append(s, x) = s \o t
  BY AppendIsConcat
<1>2. ValuesOf(t, name) = IF x.name = name THEN {x.value} ELSE {}
  BY ValuesOfOne
<1> HIDE DEF t
<1>3. ValuesOf(s \o t, name) = ValuesOf(s, name) \cup ValuesOf(t, name)
  BY <1>1, ValuesJoined
<1>. QED BY <1>1, <1>2, <1>3

LEMMA ValuesOfNone ==
  ASSUME NEW name PROVE ValuesOf(<<>>, name) = {}
<1>1. DOMAIN <<>> = {}
  OBVIOUS
<1>. QED BY <1>1 DEF ValuesOf

LEMMA ValuesLeft ==
  ASSUME NEW All, NEW s \in Seq(All), NEW names, NEW name
  PROVE  ValuesOf(Without(s, names), name) = IF name \in names THEN {} ELSE ValuesOf(s, name)
<1> DEFINE Left(u) == IF name \in names THEN {} ELSE ValuesOf(u, name)
           Good == {u \in Seq(All) : ValuesOf(Without(u, names), name) = Left(u)}
<1>1. <<>> \in Good
  BY WithoutNone, ValuesOfNone
<1>2. ASSUME NEW u \in Seq(All), NEW x \in All, u \in Good PROVE Append(u, x) \in Good
  <2> DEFINE wu == Without(u, names)
  <2>1. wu \in Seq(All) /\ Append(u, x) \in Seq(All)
    BY WithoutIsASeq, AppendProperties
  <2>2. Without(Append(u, x), names) = Keeping(names, wu, x)
    BY WithoutMore
  <2> HIDE DEF wu
  <2>3. ValuesOf(Append(u, x), name) = ValuesOf(u, name) \cup (IF x.name = name THEN {x.value} ELSE {})
    BY <2>1, ValuesOfMore
  <2>4. ValuesOf(Append(wu, x), name) = ValuesOf(wu, name) \cup (IF x.name = name THEN {x.value} ELSE {})
    BY <2>1, ValuesOfMore
  <2>5. ValuesOf(wu, name) = Left(u)
    BY <1>2 DEF wu
  <2>. QED BY <2>1, <2>2, <2>3, <2>4, <2>5 DEF Keeping
<1> HIDE DEF Good
<1>3. Seq(All) \subseteq Good
  BY <1>1, <1>2, InductionOverSeq
<1>. QED BY <1>3 DEF Good

-----------------------------------------------------------------------------
(* One cookie taken.  It stands where the first of its name stood, and the  *)
(* others as they were.                                                     *)
Added(pair) == IF pair.value = Expired THEN <<>> ELSE <<pair>>

LEMMA PlacedWhereItStood ==
  ASSUME NEW All, NEW parts \in Seq(All), NEW pair \in All
  PROVE  \E A \in Seq(All), B \in Seq(All) :
            /\ Without(parts, {pair.name}) = A \o B
            /\ Replaced(parts, pair) = (A \o Added(pair)) \o B
<1> DEFINE n == Len(parts)
           rest == Without(parts, {pair.name})
           named == {i \in DOMAIN parts : parts[i].name = pair.name}
           first == IF named = {} THEN Len(rest) + 1 ELSE CHOOSE i \in named : \A j \in named : i <= j
           A == SubSeq(rest, 1, first - 1)
           B == SubSeq(rest, first, Len(rest))
<1>0. n \in Nat /\ DOMAIN parts = 1 .. n /\ rest \in Seq(All) /\ Len(rest) \in Nat
  BY WithoutIsASeq, LenProperties
<1>1. Replaced(parts, pair) = (A \o Added(pair)) \o B
  BY DEF Replaced, Added
<1>2. first \in 1 .. Len(rest) + 1
  <2>1. CASE named = {}
    BY <1>0, <2>1
  <2>2. CASE named # {}
    <3>1. named \subseteq Nat
      BY <1>0
    <3>2. PICK h \in named : \A j \in named : h <= j
      BY <2>2, <3>1, LeastNatural
    <3>3. first \in named /\ \A j \in named : first <= j
      BY <2>2, <3>2, Zenon
    <3> DEFINE k == first
    <3>4. k \in 1 .. n /\ \A j \in 1 .. n : parts[j].name = pair.name => k <= j
      BY <1>0, <3>3
    <3> HIDE DEF first, named, rest
    <3> DEFINE C == SubSeq(parts, 1, k - 1)
               D == SubSeq(parts, k, n)
    <3>5. k - 1 \in 0 .. n /\ k - 1 \in Int /\ k \in Int /\ n \in Int /\ 1 \in 1 .. n + 1 /\ (k - 1) + 1 = k
          /\ k - 1 \in 1 - 1 .. n /\ n \in k - 1 .. n /\ k - 1 \in Nat
      BY <1>0, <3>4
    <3>6. \A i \in 1 .. k - 1 : i \in 1 .. n /\ ~(k <= i) /\ parts[i] \in All
      BY <1>0, <3>4
    <3>7. C \in Seq(All) /\ Len(C) = k - 1 /\ \A i \in 1 .. k - 1 : C[i] = parts[i]
      <4>1. \A i \in 1 .. k - 1 : parts[i] \in All
        BY <3>6
      <4>2. /\ C \in Seq(All) /\ Len(C) = IF 1 <= k - 1 THEN (k - 1) - 1 + 1 ELSE 0
            /\ \A i \in 1 .. (k - 1) - 1 + 1 : C[i] = parts[1 + i - 1]
        BY <3>5, <4>1, SubSeqProperties
      <4>. QED BY <3>5, <4>2
    <3>8. D \in Seq(All)
      <4>1. \A i \in k .. n : i \in 1 .. n
        BY <3>4, <1>0
      <4>2. \A i \in k .. n : parts[i] \in All
        BY <4>1, ElementOfSeq
      <4>. QED BY <3>5, <4>2, SubSeqProperties
    <3>9. C \o D = parts
      <4>1. SubSeq(parts, 1, k - 1) \o SubSeq(parts, (k - 1) + 1, Len(parts)) = SubSeq(parts, 1, Len(parts))
        BY <3>5, ConcatAdjacentSubSeq
      <4>. QED BY <3>5, <4>1, SubSeqFull
    <3> HIDE DEF C, D
    <3>10. Without(C, {pair.name}) = C
      <4>1. \A i \in 1 .. Len(C) : C[i].name \notin {pair.name}
        BY <3>4, <3>6, <3>7
      <4>. QED BY <3>7, <4>1, WithoutIsAlone
    <3>11. rest = C \o Without(D, {pair.name})
      <4> DEFINE N == {pair.name}
      <4> HIDE DEF N
      <4>1. Without(C \o D, N) = Without(C, N) \o Without(D, N)
        BY <3>7, <3>8, WithoutJoined
      <4>. QED BY <3>9, <3>10, <4>1 DEF rest, N
    <3>12. Len(rest) = (k - 1) + Len(Without(D, {pair.name})) /\ Len(Without(D, {pair.name})) \in Nat
      BY <3>7, <3>8, <3>11, WithoutIsASeq, ConcatProperties, LenProperties
    <3> HIDE DEF n
    <3>. QED BY <3>4, <3>5, <3>12
  <2>. QED BY <2>1, <2>2
<1> HIDE DEF first, named
<1>3. /\ 1 \in 1 .. Len(rest) + 1 /\ first - 1 \in 1 - 1 .. Len(rest) /\ Len(rest) \in first - 1 .. Len(rest)
      /\ (first - 1) + 1 = first /\ first \in Int /\ first - 1 \in Int /\ Len(rest) \in Int
  BY <1>0, <1>2
<1> HIDE DEF rest
<1>4. A \o B = rest
  <2>1. SubSeq(rest, 1, first - 1) \o SubSeq(rest, (first - 1) + 1, Len(rest)) = SubSeq(rest, 1, Len(rest))
    BY <1>0, <1>3, ConcatAdjacentSubSeq
  <2>. QED BY <1>0, <1>3, <2>1, SubSeqFull
<1>5. A \in Seq(All) /\ B \in Seq(All)
  <2>1. \A i \in 1 .. first - 1 : i \in 1 .. Len(rest)
    BY <1>0, <1>2
  <2>2. \A i \in first .. Len(rest) : i \in 1 .. Len(rest)
    BY <1>0, <1>2
  <2>3. (\A i \in 1 .. first - 1 : rest[i] \in All) /\ (\A i \in first .. Len(rest) : rest[i] \in All)
    BY <1>0, <2>1, <2>2, ElementOfSeq
  <2>4. A \in Seq(All)
    BY <1>3, <2>3, SubSeqProperties
  <2>5. B \in Seq(All)
    BY <1>3, <2>3, SubSeqProperties
  <2>. QED BY <2>4, <2>5
<1> HIDE DEF A, B
<1>. QED BY <1>1, <1>4, <1>5 DEF rest

\* It is the one value of its name, and no other name has a value less or more.
TakesIt(parts, pair, next) ==
    /\ \A name : ValuesOf(next, name) =
          IF name = pair.name THEN {pair.value} \ {Expired} ELSE ValuesOf(parts, name)
    /\ \A names : pair.name \in names => Without(next, names) = Without(parts, names)

LEMMA ReplacedIs ==
  ASSUME NEW All, NEW parts \in Seq(All), NEW pair \in All
  PROVE  Replaced(parts, pair) \in Seq(All) /\ TakesIt(parts, pair, Replaced(parts, pair))
<1> DEFINE fresh == Added(pair)
           rest == Without(parts, {pair.name})
<1>1. PICK A \in Seq(All), B \in Seq(All) : rest = A \o B /\ Replaced(parts, pair) = (A \o fresh) \o B
  BY PlacedWhereItStood
<1> DEFINE head == A \o fresh
<1>2. fresh \in Seq(All) /\ head \in Seq(All)
  <2>1. fresh \in Seq(All)
    BY DEF Added
  <2>. QED BY <2>1, ConcatProperties
<1>3. Replaced(parts, pair) \in Seq(All)
  <2>1. head \o B \in Seq(All)
    BY <1>2, ConcatProperties
  <2>. QED BY <1>1, <2>1
<1>4. rest \in Seq(All)
  BY WithoutIsASeq
<1> HIDE DEF fresh
<1>5. ASSUME NEW name
      PROVE  ValuesOf(Replaced(parts, pair), name) =
               IF name = pair.name THEN {pair.value} \ {Expired} ELSE ValuesOf(parts, name)
  <2>1. ValuesOf(fresh, name) = IF name = pair.name THEN {pair.value} \ {Expired} ELSE {}
    <3>1. CASE pair.value = Expired
      BY <3>1, ValuesOfNone DEF fresh, Added
    <3>2. CASE pair.value # Expired
      BY <3>2, ValuesOfOne DEF fresh, Added
    <3>. QED BY <3>1, <3>2
  <2>2. ValuesOf(Replaced(parts, pair), name) = (ValuesOf(A, name) \cup ValuesOf(fresh, name)) \cup ValuesOf(B, name)
    <3>1. ValuesOf(A \o fresh, name) = ValuesOf(A, name) \cup ValuesOf(fresh, name)
      BY <1>2, ValuesJoined
    <3> HIDE DEF head
    <3>2. ValuesOf(head \o B, name) = ValuesOf(head, name) \cup ValuesOf(B, name)
      BY <1>2, ValuesJoined
    <3>. QED BY <1>1, <3>1, <3>2 DEF head
  <2>3. ValuesOf(rest, name) = ValuesOf(A, name) \cup ValuesOf(B, name)
    <3>1. ValuesOf(A \o B, name) = ValuesOf(A, name) \cup ValuesOf(B, name)
      BY ValuesJoined
    <3>. QED BY <1>1, <3>1
  <2>4. ValuesOf(rest, name) = IF name \in {pair.name} THEN {} ELSE ValuesOf(parts, name)
    BY ValuesLeft
  <2>. QED BY <2>1, <2>2, <2>3, <2>4
<1>6. ASSUME NEW names, pair.name \in names PROVE Without(Replaced(parts, pair), names) = Without(parts, names)
  <2>1. Without(fresh, names) = <<>>
    <3>1. CASE pair.value = Expired
      BY <3>1, WithoutNone DEF fresh, Added
    <3>2. CASE pair.value # Expired
      <4>1. fresh = Append(<<>>, pair) /\ <<>> \in Seq(All)
        BY <3>2 DEF fresh, Added
      <4>2. Without(fresh, names) = Keeping(names, Without(<<>>, names), pair)
        BY <4>1, WithoutMore
      <4>. QED BY <1>6, <4>2, WithoutNone DEF Keeping
    <3>. QED BY <3>1, <3>2
  <2> DEFINE wa == Without(A, names)
             wb == Without(B, names)
  <2>2. wa \in Seq(All) /\ wb \in Seq(All)
    BY WithoutIsASeq
  <2>3. Without(Replaced(parts, pair), names) = (wa \o Without(fresh, names)) \o wb
    <3>1. Without(A \o fresh, names) = Without(A, names) \o Without(fresh, names)
      BY <1>2, WithoutJoined
    <3>0. head \in Seq(All) /\ B \in Seq(All)
      BY <1>2
    <3> HIDE DEF head, wa, wb, rest
    <3>2. Without(head \o B, names) = Without(head, names) \o Without(B, names)
      BY <3>0, WithoutJoined
    <3>. QED BY <1>1, <3>1, <3>2 DEF head, wa, wb
  <2>4. Without(rest, names) = wa \o wb
    <3>1. Without(A \o B, names) = Without(A, names) \o Without(B, names)
      BY WithoutJoined
    <3>. QED BY <1>1, <3>1
  <2>5. Without(rest, names) = Without(parts, {pair.name} \cup names)
    BY WithoutTwice
  <2>6. {pair.name} \cup names = names
    BY <1>6
  <2> HIDE DEF wa, wb, rest
  <2>7. wa \o <<>> = wa
    BY <2>2, ConcatEmptySeq
  <2>. QED BY <2>1, <2>3, <2>4, <2>5, <2>6, <2>7
<1>. QED BY <1>3, <1>5, <1>6 DEF TakesIt

-----------------------------------------------------------------------------
(* All the cookies taken, one after the other.                              *)
IsTaking(header, pairs, g) ==
    g = [T \in SUBSET DOMAIN pairs |->
            IF T = {} THEN header ELSE Replaced(g[T \ {Max(T)}], pairs[Max(T)])]

IsTaken(header, pairs, F) ==
    /\ F[0] = header /\ F[Len(pairs)] = FreshCookieHeader(header, pairs)
    /\ \A k \in 1 .. Len(pairs) : F[k] = Replaced(F[k - 1], pairs[k])

LEMMA JarRow ==
  ASSUME NEW All, NEW header \in Seq(All), NEW pairs \in Seq(All)
  PROVE  \E F \in [0 .. Len(pairs) -> Seq(All)] : IsTaken(header, pairs, F)
<1> DEFINE n == Len(pairs)
           step == [q \in Seq(All) \X All |-> Replaced(q[1], q[2])]
           G == CHOOSE g : IsTaking(header, pairs, g)
<1>0. n \in Nat /\ pairs \in [1 .. n -> All] /\ DOMAIN pairs = 1 .. n
  BY LenProperties
<1>1. ASSUME NEW parts \in Seq(All), NEW p \in All
      PROVE  Replaced(parts, p) \in Seq(All) /\ step[<<parts, p>>] = Replaced(parts, p)
  BY ReplacedIs
<1>2. Foldable(Seq(All), All, step, header, pairs)
  <2>1. step \in [Seq(All) \X All -> Seq(All)]
    BY <1>1
  <2>. QED BY <1>0, <2>1 DEF Foldable
<1> HIDE DEF step
<1>3. FreshCookieHeader(header, pairs) = G[DOMAIN pairs]
  BY Zenon DEF FreshCookieHeader, FoldLeft, MapThenFoldSet, IsTaking
<1>4. IsTaking(header, pairs, G)
  <2>1. PICK g \in [SUBSET (1 .. n) -> Seq(All)] : Folds(g, n, step, header, pairs)
    BY <1>2, FoldsExist
  <2>2. ASSUME NEW T \in SUBSET DOMAIN pairs
        PROVE  g[T] = IF T = {} THEN header ELSE Replaced(g[T \ {Max(T)}], pairs[Max(T)])
    <3>1. CASE T = {}
      BY <1>0, <2>1, <3>1 DEF Folds
    <3>2. CASE T # {}
      <4>1. T \in SUBSET (1 .. n) /\ T \ {Max(T)} \in SUBSET (1 .. n)
        BY <1>0
      <4>2. Max(T) \in T
        BY <1>0, <3>2, GreatestUpTo
      <4>3. g[T \ {Max(T)}] \in Seq(All) /\ pairs[Max(T)] \in All
        BY <1>0, <2>1, <4>1, <4>2
      <4>4. g[T] = step[<<g[T \ {Max(T)}], pairs[Max(T)]>>]
        BY <2>1, <3>2, <4>1 DEF Folds
      <4>. QED BY <1>1, <3>2, <4>3, <4>4
    <3>. QED BY <3>1, <3>2
  <2>3. IsTaking(header, pairs, g)
    BY <1>0, <2>1, <2>2 DEF IsTaking
  <2>. QED BY <2>3
<1>5. Follows(G, n, Seq(All), step, header, pairs)
  <2>1. ASSUME NEW T \in SUBSET (1 .. n)
        PROVE  G[T] = IF T = {} THEN header ELSE Replaced(G[T \ {Max(T)}], pairs[Max(T)])
    BY <1>0, <1>4, Zenon DEF IsTaking
  <2>2. ASSUME NEW T \in (SUBSET (1 .. n)) \ {{}}, G[T \ {Max(T)}] \in Seq(All)
        PROVE  G[T] = step[<<G[T \ {Max(T)}], pairs[Max(T)]>>]
    <3>1. Max(T) \in T
      BY <1>0, GreatestUpTo
    <3>2. pairs[Max(T)] \in All
      BY <1>0, <3>1
    <3>. QED BY <1>1, <2>1, <2>2, <3>2
  <2>3. G[{}] = header
    BY <2>1
  <2>. QED BY <2>2, <2>3 DEF Follows
<1> HIDE DEF G
<1> DEFINE F == Row(G, n)
<1>6. /\ F \in [0 .. n -> Seq(All)] /\ F[0] = header /\ F[n] = G[DOMAIN pairs]
      /\ \A k \in 1 .. n : F[k] = step[<<F[k - 1], pairs[k]>>]
  BY <1>2, <1>5, RowOfAFold DEF IsRow
<1> HIDE DEF F
<1>7. ASSUME NEW k \in 1 .. n PROVE F[k] = Replaced(F[k - 1], pairs[k])
  <2>1. k - 1 \in 0 .. n
    BY <1>0
  <2>2. F[k - 1] \in Seq(All) /\ pairs[k] \in All
    BY <1>0, <1>6, <2>1
  <2>. QED BY <1>1, <1>6, <2>2
<1>8. IsTaken(header, pairs, F)
  BY <1>3, <1>6, <1>7 DEF IsTaken
<1>. QED BY <1>6, <1>8

\* the names of the first k, and whether i is the last of its name among them
NamesTo(pairs, k) == {pairs[i].name : i \in 1 .. k}
IsNewest(pairs, k, i) == \A j \in 1 .. k : pairs[j].name = pairs[i].name => j <= i

\* what a jar has taken of the first k
HasTaken(header, pairs, k, parts) ==
    /\ \A i \in 1 .. k : IsNewest(pairs, k, i) => ValuesOf(parts, pairs[i].name) = {pairs[i].value} \ {Expired}
    /\ Without(parts, NamesTo(pairs, k)) = Without(header, NamesTo(pairs, k))

LEMMA TakesOneMore ==
  ASSUME NEW All, NEW header \in Seq(All), NEW pairs \in Seq(All), NEW k \in 0 .. Len(pairs) - 1,
         NEW parts \in Seq(All), HasTaken(header, pairs, k, parts)
  PROVE  HasTaken(header, pairs, k + 1, Replaced(parts, pairs[k + 1]))
<1> DEFINE pair == pairs[k + 1]
           next == Replaced(parts, pair)
           names == NamesTo(pairs, k)
           more == NamesTo(pairs, k + 1)
<1>0. k \in Nat /\ k + 1 \in 1 .. Len(pairs) /\ pair \in All
  <2>1. Len(pairs) \in Nat
    BY LenProperties
  <2>2. k \in Nat /\ k + 1 \in 1 .. Len(pairs)
    BY <2>1
  <2>. QED BY <2>2, ElementOfSeq
<1>1. \A i \in 1 .. k + 1 : i = k + 1 \/ i \in 1 .. k
  BY <1>0
<1>2. (\A i \in 1 .. k : i \in 1 .. k + 1 /\ ~(k + 1 <= i)) /\ k + 1 \in 1 .. k + 1
  BY <1>0
<1>3. /\ next \in Seq(All)
      /\ \A name : ValuesOf(next, name) =
            IF name = pair.name THEN {pair.value} \ {Expired} ELSE ValuesOf(parts, name)
      /\ \A set : pair.name \in set => Without(next, set) = Without(parts, set)
  <2> HIDE DEF pair
  <2>1. Replaced(parts, pair) \in Seq(All) /\ TakesIt(parts, pair, Replaced(parts, pair))
    BY <1>0, ReplacedIs
  <2>. QED BY <2>1 DEF TakesIt
<1>4. pair.name \in more /\ names \cup more = more
  BY <1>1, <1>2 DEF NamesTo
<1> HIDE DEF next
<1>5. ASSUME NEW i \in 1 .. k + 1, IsNewest(pairs, k + 1, i)
      PROVE  ValuesOf(next, pairs[i].name) = {pairs[i].value} \ {Expired}
  <2>1. CASE i = k + 1
    BY <1>3, <2>1
  <2>2. CASE i \in 1 .. k
    <3>1. pairs[i].name # pair.name
      BY <1>2, <1>5, <2>2 DEF IsNewest
    <3>2. IsNewest(pairs, k, i)
      BY <1>2, <1>5 DEF IsNewest
    <3>3. ValuesOf(parts, pairs[i].name) = {pairs[i].value} \ {Expired}
      BY <2>2, <3>2 DEF HasTaken
    <3>. QED BY <1>3, <3>1, <3>3
  <2>. QED BY <1>1, <2>1, <2>2
<1> HIDE DEF names, more, pair
<1>6. Without(next, more) = Without(header, more)
  <2>1. Without(next, more) = Without(parts, more)
    BY <1>3, <1>4
  <2>2. Without(parts, more) = Without(Without(parts, names), more)
    BY <1>4, WithoutTwice
  <2>3. Without(header, more) = Without(Without(header, names), more)
    BY <1>4, WithoutTwice
  <2>4. Without(parts, names) = Without(header, names)
    BY DEF HasTaken, names
  <2>. QED BY <2>1, <2>2, <2>3, <2>4
<1>. QED BY <1>5, <1>6 DEF HasTaken, more, next, pair

LEMMA JarHasTaken ==
  ASSUME NEW All, NEW header \in Seq(All), NEW pairs \in Seq(All)
  PROVE  HasTaken(header, pairs, Len(pairs), FreshCookieHeader(header, pairs))
<1> DEFINE n == Len(pairs)
<1>0. n \in Nat
  BY LenProperties
<1>1. PICK F \in [0 .. Len(pairs) -> Seq(All)] : IsTaken(header, pairs, F)
  BY JarRow
<1> DEFINE Good == {k \in 0 .. n : HasTaken(header, pairs, k, F[k])}
<1>2. 0 \in Good
  <2>1. 1 .. 0 = {} /\ 0 \in 0 .. n
    BY <1>0
  <2>2. F[0] = header
    BY <1>1 DEF IsTaken
  <2>. QED BY <2>1, <2>2 DEF HasTaken
<1>3. ASSUME NEW k \in 0 .. n - 1, k \in Good PROVE k + 1 \in Good
  <2>1. k + 1 \in 1 .. n /\ (k + 1) - 1 = k /\ k + 1 \in 0 .. n /\ k \in 0 .. n
    BY <1>0
  <2>2. F[k + 1] = Replaced(F[k], pairs[k + 1]) /\ F[k] \in Seq(All)
    BY <1>1, <2>1 DEF IsTaken
  <2>3. HasTaken(header, pairs, k, F[k])
    BY <1>3
  <2>4. HasTaken(header, pairs, k + 1, Replaced(F[k], pairs[k + 1]))
    BY <2>2, <2>3, TakesOneMore
  <2>. QED BY <2>1, <2>2, <2>4
<1> HIDE DEF Good
<1>4. n \in Good
  <2>1. \A k \in 0 .. n : k \in Good
    BY <1>0, <1>2, <1>3, InductionUpTo
  <2>. QED BY <1>0, <2>1
<1>. QED BY <1>1, <1>4 DEF IsTaken, Good

\* What the promise is about is what was taken.
LEMMA TakenAgrees ==
  ASSUME NEW All, cookie \in Seq(All), arrived \in Seq(All), jar = FreshCookieHeader(cookie, arrived)
  PROVE  JarsAgree
<1> DEFINE n == Len(arrived)
<1>0. n \in Nat /\ DOMAIN arrived = 1 .. n /\ Range(arrived) = {arrived[i] : i \in 1 .. n}
  BY LenProperties DEF Range
<1>1. HasTaken(cookie, arrived, n, jar)
  BY JarHasTaken
<1> HIDE DEF n
<1>2. ASSUME NEW name \in {p.name : p \in Range(arrived)}
      PROVE  LET newest == arrived[CHOOSE i \in SetBy(arrived, name) : \A j \in SetBy(arrived, name) : j <= i].value
             IN  ValuesOf(jar, name) = {newest} \ {Expired}
  <2> DEFINE set == SetBy(arrived, name)
             last == CHOOSE i \in set : \A j \in set : j <= i
  <2>1. \A i : i \in set <=> i \in 1 .. n /\ arrived[i].name = name
    BY <1>0 DEF SetBy
  <2>2. set \in SUBSET (1 .. n) /\ set # {}
    BY <1>0, <2>1
  <2>3. last \in set /\ \A j \in set : j <= last
    <3> HIDE DEF set
    <3>1. Max(set) \in set /\ \A j \in set : j <= Max(set)
      BY <1>0, <2>2, GreatestUpTo
    <3>. QED BY <3>1, Zenon
  <2> HIDE DEF set, last
  <2>4. last \in 1 .. n /\ arrived[last].name = name /\ IsNewest(arrived, n, last)
    BY <2>1, <2>3 DEF IsNewest
  <2>5. ValuesOf(jar, name) = {arrived[last].value} \ {Expired}
    BY <1>1, <2>4 DEF HasTaken
  <2>. QED BY <2>5 DEF last, set
<1>3. {p.name : p \in Range(arrived)} = NamesTo(arrived, n)
  BY <1>0 DEF NamesTo
<1>4. Untouched(jar, arrived) = Untouched(cookie, arrived)
  BY <1>1, <1>3 DEF HasTaken, Untouched
<1>. QED BY <1>2, <1>4 DEF JarsAgree

-----------------------------------------------------------------------------
Cookies == UNION {Range(sent) : sent \in Headers \cup Answers}

\* The jar is of every cookie that arrived, in the order of the answers.
JarInv ==
    /\ cookie \in Seq(Cookies) /\ arrived \in Seq(Cookies)
    /\ collected = arrived /\ jar = FreshCookieHeader(cookie, arrived)

LEMMA HeadersAreCookies ==
  ASSUME NEW s \in Headers \cup Answers PROVE s \in Seq(Cookies)
<1>1. s \in Seq(Range(s)) /\ Range(s) \subseteq Cookies
  BY CallAssumption DEF Cookies
<1>2. \A i \in 1 .. Len(s) : s[i] \in Cookies
  BY <1>1, ElementOfSeq
<1>3. Len(s) \in Nat /\ s \in [1 .. Len(s) -> Range(s)]
  BY <1>1, LenProperties
<1>4. s \in [1 .. Len(s) -> Cookies]
  BY <1>2, <1>3
<1>. QED BY <1>3, <1>4

LEMMA JarStarts == CallInit => JarInv
<1> SUFFICES ASSUME CallInit PROVE JarInv
  OBVIOUS
<1>1. cookie \in Seq(Cookies) /\ <<>> \in Seq(Cookies)
  BY HeadersAreCookies DEF CallInit
<1>2. PICK F : IsTaken(cookie, <<>>, F)
  BY <1>1, JarRow
<1>3. FreshCookieHeader(cookie, <<>>) = cookie
  BY <1>2 DEF IsTaken
<1>. QED BY <1>1, <1>3 DEF CallInit, JarInv

LEMMA JarStep == ASSUME JarInv, [CallNext]_callVars PROVE JarInv'
<1>1. ASSUME UNCHANGED jars PROVE JarInv'
  BY <1>1 DEF jars, JarInv
<1>2. ASSUME NEW c \in Calls, Answered(c) PROVE JarInv'
  <2>1. PICK pairs \in Answers :
           /\ \E status \in {"ok", "empty", "failing"} : collected' = collected \o Collected(c, status, pairs)
           /\ arrived' = IF Kinds[c] = "export" THEN arrived ELSE arrived \o pairs
    BY <1>2 DEF Answered
  <2>2. pairs \in Seq(Cookies)
    BY HeadersAreCookies
  <2>3. collected' = arrived' /\ arrived' \in Seq(Cookies)
    <3>1. arrived \o <<>> = arrived /\ arrived \o pairs \in Seq(Cookies)
      BY <2>2, ConcatEmptySeq, ConcatProperties DEF JarInv
    <3>. QED BY <2>1, <3>1 DEF JarInv, Collected
  <2>4. jar' = FreshCookieHeader(cookie, collected') /\ cookie' = cookie
    BY <1>2 DEF Answered
  <2>. QED BY <2>3, <2>4 DEF JarInv
<1>3. ASSUME NEW c \in Calls, CallStep(c), ~Answered(c) PROVE JarInv'
  <2>1. UNCHANGED jars
    BY <1>3 DEF CallStep, Misused, Begins, Refused, DialsAgain, Reaches, Reset, Reads, DeadlinePasses, GivesUp
  <2>. QED BY <1>1, <2>1
<1>4. CASE UNCHANGED callVars
  BY <1>1, <1>4 DEF callVars, jars
<1>. QED BY <1>2, <1>3, <1>4 DEF CallNext

\* The next call of a request is who the browser will be, for any headers, any
\* answers in any order and any number of calls.
THEOREM JarsFollow == CallSpec => []JarsAgree
<1>1. JarInv => JarsAgree
  BY TakenAgrees DEF JarInv
<1>. QED BY <1>1, JarStarts, JarStep, PTL DEF CallSpec

\* A cookie that go set reaches the loader that follows and the browser, and
\* the calls that follow carry it (util.ts 170, 1207).
THEOREM LoginsReach == PagesSpec => []LoginsReachTheReader
<1>1. PagesInit => RenderInv /\ JarInv
  BY RenderStarts, JarStarts DEF PagesInit
<1>2. RenderInv /\ [PagesNext]_<<part, pageVars>> => RenderInv'
  <2>1. [PagesNext]_<<part, pageVars>> => [RenderNext]_renderVars
    BY DEF PagesNext, pageVars
  <2>. QED BY <2>1, RenderStep
<1>3. JarInv /\ [PagesNext]_<<part, pageVars>> => JarInv'
  <2>1. [PagesNext]_<<part, pageVars>> => [CallNext]_callVars
    BY DEF PagesNext, pageVars
  <2>. QED BY <2>1, JarStep
<1>4. RenderInv /\ JarInv => LoginsReachTheReader
  BY TakenAgrees DEF RenderInv, JarInv, LoginsReachTheReader
<1>. QED BY <1>1, <1>2, <1>3, <1>4, PTL DEF PagesSpec

-----------------------------------------------------------------------------
(* Client-side navigation.  While the page that back or forward went to is *)
(* on its way the address is ahead of the screen; at any other time the    *)
(* two, and the key of the entry, go together, or a link that will have an *)
(* entry of its own is on its way.                                         *)

\* Every entry has a key, none has another's, and all were handed out.
EntriesHaveKeys ==
  \A i \in DOMAIN entries :
    /\ entries[i].key \in 1 .. keys
    /\ \A j \in DOMAIN entries : entries[i].key = entries[j].key => i = j

\* A submission pushes; who keeps no position and pushes nothing has the key of
\* an entry to arrive at.
NavigationsAreTold ==
  \A n \in 1 .. MaxNavs : nav[n].stage # "none" =>
    /\ nav[n].stage = "loading" /\ nav[n].form # NoForm => nav[n].push = "push"
    /\ nav[n].push = "none" /\ nav[n].arriving = NoKey => nav[n].keep

Together == shown = Location /\ entryKey = entries[place].key

\* a link that pushes an entry brings address, screen and key together by itself
Departing == Loading /\ nav[navSeq].push = "push" /\ nav[navSeq].form = NoForm

\* The address, the page on screen and the key go together but while back,
\* forward or a refresh is on its way, which is for the address and its key, or
\* a link followed since.
ScreenFollowsAddress ==
  ~left =>
    IF Arriving
    THEN /\ nav[navSeq].to = Location
         /\ entries[place].key = IF nav[navSeq].arriving # NoKey THEN nav[navSeq].arriving ELSE entryKey
    ELSE Together \/ Departing

NavTold == NavTypeOK /\ NavigationsAreTold

NavInv == NavTold /\ EntriesHaveKeys /\ ScreenFollowsAddress

LEMMA HistoryFacts ==
  ASSUME NavTypeOK
  PROVE  /\ entries \in Seq(Entry) /\ Len(entries) \in Nat /\ DOMAIN entries = 1 .. Len(entries)
         /\ place \in 1 .. Len(entries) /\ place \in Nat
         /\ \A i \in 1 .. Len(entries) :
              entries[i] \in Entry /\ entries[i].page \in Pages /\ entries[i].key \in Keys \cup {NoKey}
         /\ Location \in Pages
         /\ keys \in Nat /\ MaxKeys \in Nat /\ navSeq \in Nat /\ MaxNavs \in Nat
  <1>1. entries \in Seq(Entry) /\ place \in DOMAIN entries
    BY DEF NavTypeOK
  <1>2. /\ Len(entries) \in Nat /\ DOMAIN entries = 1 .. Len(entries)
        /\ \A i \in 1 .. Len(entries) : entries[i] \in Entry
    BY <1>1, LenProperties, ElementOfSeq
  <1>3. \A e \in Entry : e.page \in Pages /\ e.key \in Keys \cup {NoKey}
    BY DEF Entry
  <1>4. keys \in Nat /\ MaxKeys \in Nat /\ navSeq \in Nat /\ MaxNavs \in Nat
    BY NavigationBounds DEF NavTypeOK, Keys
  <1>. QED BY <1>1, <1>2, <1>3, <1>4 DEF Location

\* pushState, as far as the entry it adds.
LEMMA PushedFacts ==
  ASSUME NavTypeOK, NEW page \in Pages, NEW k \in Keys \cup {NoKey}
  PROVE  /\ Pushed(page, k) \in Seq(Entry) /\ Len(Pushed(page, k)) = place + 1
         /\ DOMAIN Pushed(page, k) = 1 .. place + 1
         /\ Pushed(page, k)[place + 1] = [page |-> page, key |-> k]
         /\ \A i \in 1 .. place : Pushed(page, k)[i] = entries[i]
  <1>1. /\ SubSeq(entries, 1, place) \in Seq(Entry) /\ Len(SubSeq(entries, 1, place)) = place
        /\ \A i \in 1 .. place : SubSeq(entries, 1, place)[i] = entries[i]
    BY HistoryFacts, SubSeqProperties
  <1>2. [page |-> page, key |-> k] \in Entry
    BY DEF Entry
  <1>3. place \in Nat
    BY HistoryFacts
  <1> DEFINE s == SubSeq(entries, 1, place)
             e == [page |-> page, key |-> k]
  <1>4. /\ Append(s, e) \in Seq(Entry) /\ Len(Append(s, e)) = Len(s) + 1
        /\ \A i \in 1 .. Len(s) : Append(s, e)[i] = s[i]
        /\ Append(s, e)[Len(s) + 1] = e
    BY <1>1, <1>2, AppendProperties
  <1>5. Pushed(page, k) = Append(s, e)
    BY DEF Pushed
  <1>. HIDE DEF s, e
  <1>6. DOMAIN Append(s, e) = 1 .. Len(Append(s, e))
    BY <1>4, LenProperties
  <1>. QED BY <1>1, <1>3, <1>4, <1>5, <1>6 DEF s, e

\* An entry is rewritten where it stands.
LEMMA RewrittenFacts ==
  ASSUME NEW es \in Seq(Entry), NEW i \in DOMAIN es, NEW e \in Entry
  PROVE  /\ [es EXCEPT ![i] = e] \in Seq(Entry) /\ Len([es EXCEPT ![i] = e]) = Len(es)
         /\ DOMAIN [es EXCEPT ![i] = e] = DOMAIN es
         /\ [es EXCEPT ![i] = e][i] = e
         /\ \A j \in DOMAIN es \ {i} : [es EXCEPT ![i] = e][j] = es[j]
  BY ExceptSeq, LenProperties

\* A navigation gets on with its own stage only.
LEMMA StageFacts ==
  ASSUME NavTypeOK, NEW n \in 1 .. MaxNavs, NEW stage \in {"none", "loading", "painting", "over"},
         nav' = [nav EXCEPT ![n].stage = stage]
  PROVE  /\ nav' \in [1 .. MaxNavs -> NavState] /\ nav'[n].stage = stage
         /\ nav'[n].to = nav[n].to /\ nav'[n].push = nav[n].push /\ nav'[n].keep = nav[n].keep
         /\ nav'[n].arriving = nav[n].arriving /\ nav'[n].form = nav[n].form
         /\ \A m \in 1 .. MaxNavs \ {n} : nav'[m] = nav[m]
  BY DEF NavTypeOK, NavState

LEMMA NavStarts == NavInit => NavInv
  <1> SUFFICES ASSUME NavInit PROVE NavInv
    OBVIOUS
  <1> DEFINE first == [page |-> Home, key |-> 1]
  <1>1. 1 \in Keys /\ NoKey \notin Keys
    BY NavigationBounds DEF Keys, NoKey
  <1>2. first \in Entry /\ first.key = 1 /\ first.page = Home
    BY <1>1, PagesAssumption DEF Entry
  <1>3. /\ entries = <<first>> /\ place = 1 /\ entryKey = 1 /\ keys = 1 /\ shown = Home
        /\ navSeq = 0 /\ nav = [n \in 1 .. MaxNavs |-> NoNav] /\ left = FALSE
    BY DEF NavInit
  <1>. HIDE DEF first
  <1>4. /\ entries \in Seq(Entry) /\ Len(entries) = 1 /\ DOMAIN entries = 1 .. 1 /\ entries[1] = first
    BY <1>2, <1>3
  <1>5. NoNav \in NavState /\ NoNav.stage = "none"
    BY PagesAssumption DEF NoNav, NavState
  <1>6. NavTypeOK
    <2>1. /\ pos = Top /\ saved = [k \in Keys |-> Top] /\ timer = FALSE /\ claiming = FALSE /\ crossed = FALSE
      BY DEF NavInit
    <2>2. entries \in Seq(Entry) /\ place \in DOMAIN entries
      BY <1>3, <1>4
    <2>3. nav \in [1 .. MaxNavs -> NavState] /\ navSeq \in 0 .. MaxNavs
      BY <1>3, <1>5, NavigationBounds
    <2>4. pos \in Pages \cup {Top} /\ saved \in [Keys -> Pages \cup {Top}]
      BY <2>1
    <2>5. timer \in BOOLEAN /\ claiming \in BOOLEAN /\ left \in BOOLEAN /\ crossed \in BOOLEAN
      BY <2>1, <1>3, Zenon
    <2>6. entryKey \in Keys /\ keys \in Keys /\ shown \in Pages
      BY <1>1, <1>3, PagesAssumption
    <2>. QED BY <2>2, <2>3, <2>4, <2>5, <2>6, Zenon DEF NavTypeOK
  <1>7. EntriesHaveKeys
    BY <1>2, <1>3, <1>4 DEF EntriesHaveKeys
  <1>8. NavigationsAreTold
    BY <1>3, <1>5 DEF NavigationsAreTold
  <1>9. ScreenFollowsAddress
    BY <1>2, <1>3, <1>4 DEF ScreenFollowsAddress, Together, Arriving, Loading, Location
  <1>. QED BY <1>6, <1>7, <1>8, <1>9 DEF NavInv, NavTold

\* What becomes of scroll positions is nobody's business but theirs.
LEMMA ScrollKeepsNavInv ==
  ASSUME NavInv, UNCHANGED <<entries, place, entryKey, shown, navSeq, nav, keys, left>>,
         pos' \in Pages \cup {Top}, saved' \in [Keys -> Pages \cup {Top}],
         timer' \in BOOLEAN, claiming' \in BOOLEAN, crossed' \in BOOLEAN
  PROVE  NavInv'
  <1>1. NavTypeOK'
    BY DEF NavInv, NavTold, NavTypeOK
  <1>2. EntriesHaveKeys' /\ NavigationsAreTold'
    BY DEF NavInv, NavTold, EntriesHaveKeys, NavigationsAreTold
  <1>3. /\ Arriving' = Arriving /\ Location' = Location
        /\ Together' = Together /\ Departing' = Departing
    BY DEF Arriving, Departing, Together, Loading, Location
  <1>4. ScreenFollowsAddress'
    BY <1>3 DEF NavInv, NavTold, ScreenFollowsAddress
  <1>. QED BY <1>1, <1>2, <1>4 DEF NavInv, NavTold

\* A position is saved under a key, and only ever a page or the top.
LEMMA SavedUnderType ==
  ASSUME NavTypeOK, NEW k PROVE SavedUnder(k) \in [Keys -> Pages \cup {Top}]
  BY DEF NavTypeOK, SavedUnder

\* Navigations that end, or begin to paint, without being the newest that loads.
LEMMA OtherStagesKeepNavInv ==
  ASSUME NavInv, NEW n \in 1 .. MaxNavs, nav[n].stage # "none",
         NEW stage \in {"painting", "over"},
         nav' = [nav EXCEPT ![n].stage = stage],
         n # navSeq \/ nav[n].stage = "painting" \/ (~Arriving /\ Together) \/ left',
         UNCHANGED <<entries, place, entryKey, shown, navSeq, keys, claiming>>,
         left' \in BOOLEAN, left => left',
         pos' \in Pages \cup {Top}, saved' \in [Keys -> Pages \cup {Top}], timer' \in BOOLEAN,
         crossed' \in BOOLEAN
  PROVE  NavInv'
  <1>0. NavTypeOK
    BY DEF NavInv, NavTold
  <1>1. /\ nav' \in [1 .. MaxNavs -> NavState] /\ nav'[n].stage = stage
        /\ nav'[n].to = nav[n].to /\ nav'[n].push = nav[n].push /\ nav'[n].keep = nav[n].keep
        /\ nav'[n].arriving = nav[n].arriving /\ nav'[n].form = nav[n].form
        /\ \A m \in 1 .. MaxNavs \ {n} : nav'[m] = nav[m]
    BY <1>0, StageFacts
  <1>2. NavTypeOK'
    BY <1>0, <1>1 DEF NavTypeOK
  <1>3. EntriesHaveKeys'
    BY DEF NavInv, NavTold, EntriesHaveKeys
  <1>4. NavigationsAreTold'
    BY <1>1 DEF NavInv, NavTold, NavigationsAreTold
  <1>5. navSeq > 0 => navSeq \in 1 .. MaxNavs
    BY <1>0, NavigationBounds DEF NavTypeOK
  <1>6. ~left' => Arriving' = Arriving /\ (Arriving => navSeq # n)
    BY <1>1, <1>5 DEF Arriving, Loading
  <1>7. Location' = Location /\ Together' = Together
    BY DEF Location, Together
  <1>9. n # navSeq => Departing' = Departing
    BY <1>1, <1>5 DEF Departing, Loading
  <1>10. n = navSeq /\ nav[n].stage = "painting" => ~Arriving /\ ~Departing
    BY DEF Arriving, Departing, Loading
  <1>8. ScreenFollowsAddress'
    <2> SUFFICES ASSUME ~left' PROVE ScreenFollowsAddress'
      BY Zenon DEF ScreenFollowsAddress
    <2>1. CASE Arriving
      BY <1>1, <1>5, <1>6, <1>7, <2>1 DEF NavInv, NavTold, ScreenFollowsAddress, Arriving, Loading
    <2>2. CASE ~Arriving
      <3>1. ~Arriving' /\ (Together \/ Departing) /\ ~left
        BY <1>6, <2>2 DEF NavInv, NavTold, ScreenFollowsAddress
      <3>2. Together' \/ Departing'
        BY <1>7, <1>9, <1>10, <3>1
      <3>. QED BY <3>1, <3>2 DEF ScreenFollowsAddress
    <2>. QED BY <2>1, <2>2
  <1>. QED BY <1>2, <1>3, <1>4, <1>8 DEF NavInv, NavTold

\* The others as they are when a navigation begins: no further than their end.
Others(base) ==
  \A n \in 1 .. MaxNavs :
    /\ base[n].stage # "none" => nav[n].stage # "none"
    /\ base[n].stage = "loading" => nav[n].stage = "loading"
    /\ base[n].push = nav[n].push /\ base[n].form = nav[n].form
    /\ base[n].arriving = nav[n].arriving /\ base[n].keep = nav[n].keep

\* The address is already at what is fetched, or it stays for now.
AddressAhead(r) ==
  IF r.push = "none"
  THEN /\ r.to = entries'[place'].page
       /\ entries'[place'].key = IF r.arriving # NoKey THEN r.arriving ELSE entryKey
  ELSE ~left /\ UNCHANGED history /\ (Together \/ (r.push = "push" /\ r.form = NoForm))

\* A navigation as the code begins one.
IsBegun(r) ==
  /\ r \in NavState /\ r.stage = "loading"
  /\ r.form # NoForm => r.push = "push"
  /\ r.push = "none" /\ r.arriving = NoKey => r.keep

\* A navigation begins beside the others.
LEMMA NavigationBegins ==
  ASSUME NavTold, NEW base, base \in [1 .. MaxNavs -> NavState], Others(base),
         NEW r, IsBegun(r),
         navSeq < MaxNavs, navSeq' = navSeq + 1, nav' = [base EXCEPT ![navSeq + 1] = r]
  PROVE  /\ navSeq' \in 1 .. MaxNavs /\ navSeq' \in 0 .. MaxNavs
         /\ nav' \in [1 .. MaxNavs -> NavState] /\ nav'[navSeq'] = r
         /\ NavigationsAreTold'
  <1>0. NavTypeOK
    BY DEF NavTold
  <1>1. /\ navSeq' \in 1 .. MaxNavs /\ navSeq' \in 0 .. MaxNavs
        /\ nav' \in [1 .. MaxNavs -> NavState] /\ nav'[navSeq'] = r
        /\ \A n \in 1 .. MaxNavs \ {navSeq'} : nav'[n] = base[n]
    <2>1. navSeq + 1 \in 1 .. MaxNavs /\ navSeq + 1 \in 0 .. MaxNavs
      BY <1>0, HistoryFacts
    <2>. QED BY <2>1 DEF IsBegun
  <1>3. NavigationsAreTold'
    <2> SUFFICES ASSUME NEW n \in 1 .. MaxNavs, nav'[n].stage # "none"
                 PROVE  /\ nav'[n].stage = "loading" /\ nav'[n].form # NoForm => nav'[n].push = "push"
                        /\ nav'[n].push = "none" /\ nav'[n].arriving = NoKey => nav'[n].keep
      BY DEF NavigationsAreTold
    <2>1. CASE n = navSeq'
      BY <1>1, <2>1 DEF IsBegun
    <2>2. CASE n # navSeq'
      <3>1. nav'[n] = base[n]
        BY <1>1, <2>2
      <3>2. nav[n].stage # "none" =>
              /\ nav[n].stage = "loading" /\ nav[n].form # NoForm => nav[n].push = "push"
              /\ nav[n].push = "none" /\ nav[n].arriving = NoKey => nav[n].keep
        BY DEF NavTold, NavigationsAreTold
      <3>. QED BY <3>1, <3>2 DEF Others
    <2>. QED BY <2>1, <2>2
  <1>. QED BY <1>1, <1>3

LEMMA NavigateKeepsNavInv ==
  ASSUME NavInv, NEW base, base \in [1 .. MaxNavs -> NavState], Others(base),
         NEW r, IsBegun(r),
         navSeq < MaxNavs, navSeq' = navSeq + 1, nav' = [base EXCEPT ![navSeq + 1] = r],
         entries' \in Seq(Entry), place' \in DOMAIN entries', EntriesHaveKeys',
         AddressAhead(r),
         keys' \in Keys, UNCHANGED <<entryKey, shown, left>>,
         pos' \in Pages \cup {Top}, saved' \in [Keys -> Pages \cup {Top}],
         timer' \in BOOLEAN, claiming' \in BOOLEAN, crossed' \in BOOLEAN
  PROVE  NavInv'
  <1>0. NavTold /\ NavTypeOK
    BY DEF NavInv, NavTold
  <1>1. /\ navSeq' \in 1 .. MaxNavs /\ navSeq' \in 0 .. MaxNavs
        /\ nav' \in [1 .. MaxNavs -> NavState] /\ nav'[navSeq'] = r /\ NavigationsAreTold'
    BY <1>0, NavigationBegins
  <1>2. NavTypeOK'
    BY <1>0, <1>1 DEF NavTypeOK
  <1>3. /\ Arriving' <=> r.push = "none"
        /\ Departing' <=> r.push = "push" /\ r.form = NoForm
    BY <1>1 DEF Arriving, Departing, Loading, IsBegun
  <1>4. ScreenFollowsAddress'
    <2>1. CASE r.push = "none"
      BY <1>1, <1>3, <2>1 DEF ScreenFollowsAddress, Location, AddressAhead
    <2>2. CASE r.push # "none"
      <3>1. /\ UNCHANGED <<entries, place, shown, entryKey>>
            /\ Together \/ (r.push = "push" /\ r.form = NoForm)
        BY <2>2 DEF history, AddressAhead
      <3>2. Together' = Together
        BY <3>1 DEF Together, Location
      <3>. QED BY <1>3, <2>2, <3>1, <3>2 DEF ScreenFollowsAddress
    <2>. QED BY <2>1, <2>2
  <1>. QED BY <1>1, <1>2, <1>4 DEF NavInv, NavTold

\* A new entry under a key that was just handed out.
LEMMA PushKeepsKeys ==
  ASSUME NavInv, NEW page \in Pages, NEW k \in Keys, Fresh(k), entries' = Pushed(page, k)
  PROVE  EntriesHaveKeys' /\ keys' = k
  <1>0. NavTypeOK /\ EntriesHaveKeys
    BY DEF NavInv, NavTold
  <1>1. /\ DOMAIN entries' = 1 .. place + 1
        /\ entries'[place + 1] = [page |-> page, key |-> k]
        /\ \A i \in 1 .. place : entries'[i] = entries[i]
    BY <1>0, PushedFacts
  <1>2. keys \in Nat /\ k = keys + 1 /\ keys' = keys + 1 /\ place \in 1 .. Len(entries)
        /\ DOMAIN entries = 1 .. Len(entries) /\ Len(entries) \in Nat
    BY <1>0, HistoryFacts DEF Fresh
  <1>3. \A i \in 1 .. place : /\ entries[i].key \in 1 .. keys
                             /\ \A j \in 1 .. place : entries[i].key = entries[j].key => i = j
    BY <1>0, <1>2 DEF EntriesHaveKeys
  <1>4. entries'[place + 1].key = keys + 1
    BY <1>1, <1>2
  <1>5. \A i \in 1 .. place + 1 : i \in 1 .. place \/ i = place + 1
    BY <1>2
  <1>6. \A i \in 1 .. place + 1 : entries'[i].key \in 1 .. keys + 1
    BY <1>1, <1>2, <1>3, <1>4, <1>5
  <1>7. ASSUME NEW i \in 1 .. place + 1, NEW j \in 1 .. place + 1, entries'[i].key = entries'[j].key
        PROVE  i = j
    <2>1. CASE i \in 1 .. place /\ j \in 1 .. place
      <3>1. entries'[i] = entries[i] /\ entries'[j] = entries[j]
        BY <1>1, <2>1
      <3>. QED BY <1>3, <1>7, <2>1, <3>1
    <2>2. CASE i = place + 1 /\ j \in 1 .. place
      <3>1. entries'[j].key \in 1 .. keys /\ entries'[i].key = keys + 1
        BY <1>1, <1>3, <1>4, <2>2
      <3>. QED BY <1>2, <1>7, <3>1
    <2>3. CASE j = place + 1 /\ i \in 1 .. place
      <3>1. entries'[i].key \in 1 .. keys /\ entries'[j].key = keys + 1
        BY <1>1, <1>3, <1>4, <2>3
      <3>. QED BY <1>2, <1>7, <3>1
    <2>. QED BY <1>5, <2>1, <2>2, <2>3
  <1>. QED BY <1>1, <1>2, <1>6, <1>7 DEF EntriesHaveKeys

\* An entry that keeps its key may change its page.
LEMMA ReplaceKeepsKeys ==
  ASSUME NavInv, NEW page \in Pages, NEW k \in Keys, k = entries[place].key,
         entries' = [entries EXCEPT ![place] = [page |-> page, key |-> k]], UNCHANGED <<place, keys>>
  PROVE  /\ EntriesHaveKeys' /\ entries' \in Seq(Entry) /\ place' \in DOMAIN entries'
         /\ entries'[place'] = [page |-> page, key |-> k]
  <1> DEFINE e == [page |-> page, key |-> k]
  <1>0. NavTypeOK /\ EntriesHaveKeys
    BY DEF NavInv, NavTold
  <1>1. e \in Entry /\ e.key = k
    BY DEF Entry
  <1>2. entries \in Seq(Entry) /\ place \in DOMAIN entries
    BY <1>0 DEF NavTypeOK
  <1>3. entries' = [entries EXCEPT ![place] = e]
    OBVIOUS
  <1>. HIDE DEF e
  <1>4. /\ entries' \in Seq(Entry) /\ DOMAIN entries' = DOMAIN entries
        /\ entries'[place] = e /\ \A j \in DOMAIN entries \ {place} : entries'[j] = entries[j]
    BY <1>1, <1>2, <1>3, RewrittenFacts
  <1>5. \A i \in DOMAIN entries : entries'[i].key = entries[i].key
    BY <1>1, <1>4
  <1>6. EntriesHaveKeys'
    BY <1>0, <1>4, <1>5 DEF EntriesHaveKeys
  <1>. QED BY <1>2, <1>4, <1>6 DEF e

\* A page comes on screen: the newest navigation paints.
LEMMA PaintingKeepsNavInv ==
  ASSUME NavInv, NEW n \in 1 .. MaxNavs, n = navSeq, nav[n].stage = "loading",
         nav' \in [1 .. MaxNavs -> NavState], nav'[n].stage = "painting",
         nav'[n].push = nav[n].push, nav'[n].arriving = nav[n].arriving,
         nav[n].push = "none" /\ nav[n].keep => nav'[n].keep,
         \A m \in 1 .. MaxNavs \ {n} : nav'[m] = nav[m],
         UNCHANGED <<navSeq, pos, timer, claiming, left>>,
         entries' \in Seq(Entry), place' \in DOMAIN entries', EntriesHaveKeys',
         keys' \in Keys, entryKey' \in Keys, shown' \in Pages, saved' \in [Keys -> Pages \cup {Top}],
         crossed' \in BOOLEAN,
         shown' = entries'[place'].page, entryKey' = entries'[place'].key
  PROVE  NavInv'
  <1>1. NavTypeOK'
    BY DEF NavInv, NavTold, NavTypeOK
  <1>2. NavigationsAreTold'
    BY DEF NavInv, NavTold, NavigationsAreTold
  <1>3. ~Arriving'
    BY DEF Arriving, Loading
  <1>4. ScreenFollowsAddress'
    BY <1>3 DEF ScreenFollowsAddress, Together, Location
  <1>. QED BY <1>1, <1>2, <1>4 DEF NavInv, NavTold

\* pushEntry: the page gets an entry and a key of its own.
LEMMA PushEntryFacts ==
  ASSUME NavInv, NEW page \in Pages, PushEntry(page)
  PROVE  /\ saved' \in [Keys -> Pages \cup {Top}]
         /\ entries' \in Seq(Entry) /\ place' \in DOMAIN entries' /\ EntriesHaveKeys'
         /\ keys' \in Keys /\ entryKey' \in Keys
         /\ entries'[place'].page = page /\ entries'[place'].key = entryKey'
  <1>0. NavTypeOK
    BY DEF NavInv, NavTold
  <1>1. PICK k \in Keys : Fresh(k) /\ entryKey' = k /\ PushState(page, k)
    BY DEF PushEntry
  <1>2. entries' = Pushed(page, k) /\ place' = place + 1
    BY <1>1 DEF PushState
  <1>3. EntriesHaveKeys' /\ keys' = k
    BY <1>1, <1>2, PushKeepsKeys
  <1>4. k \in Keys \cup {NoKey}
    OBVIOUS
  <1>5. /\ entries' \in Seq(Entry) /\ DOMAIN entries' = 1 .. place + 1
        /\ entries'[place + 1] = [page |-> page, key |-> k]
    BY <1>0, <1>2, <1>4, PushedFacts
  <1>6. place + 1 \in 1 .. place + 1
    BY <1>0, HistoryFacts
  <1>7. saved' \in [Keys -> Pages \cup {Top}]
    BY <1>0, SavedUnderType DEF PushEntry
  <1>. QED BY <1>1, <1>2, <1>3, <1>5, <1>6, <1>7

\* What the browser does when back, forward or a fragment lands on an entry with
\* a key, of the page on screen or of another.
LEMMA PopstateKeepsNavInv ==
  ASSUME NavInv, ~left, NEW i \in DOMAIN entries, place' = i,
         entries[i].page = shown => ~Misses(shown),
         Popstate(entries, i), UNCHANGED <<shown, claiming, left>>, crossed' \in BOOLEAN
  PROVE  NavInv'
  <1>0. NavTypeOK /\ EntriesHaveKeys
    BY DEF NavInv, NavTold
  <1>1. PICK arriving \in Keys :
          /\ IF entries[i].key = NoKey THEN Fresh(arriving) ELSE arriving = entries[i].key /\ UNCHANGED keys
          /\ saved' = SavedUnder(entryKey)
          /\ IF entries[i].page = shown
             THEN /\ entryKey' = arriving
                  /\ entries' = [entries EXCEPT ![i].key = arriving]
                  /\ pos' \in {SavedUnder(entryKey)[arriving], shown}
                  /\ timer' = (pos' # pos)
                  /\ UNCHANGED <<navSeq, nav>>
             ELSE /\ Navigate(nav, entries[i].page, "none", FALSE, arriving, NoForm)
                  /\ entries' = entries /\ timer' = FALSE
                  /\ UNCHANGED <<entryKey, pos>>
    BY DEF Popstate
  <1>2. entries[i].key # NoKey /\ keys \in Nat
    BY <1>0, HistoryFacts DEF EntriesHaveKeys, NoKey
  <1>3. arriving = entries[i].key /\ keys' = keys
    BY <1>1, <1>2
  <1>4. saved' \in [Keys -> Pages \cup {Top}] /\ SavedUnder(entryKey)[arriving] \in Pages \cup {Top}
    BY <1>0, <1>1, SavedUnderType
  <1>5. /\ entries \in Seq(Entry) /\ entries[i] \in Entry /\ entries[i].page \in Pages
        /\ keys \in Keys /\ entryKey \in Keys /\ shown \in Pages /\ pos \in Pages \cup {Top}
        /\ nav \in [1 .. MaxNavs -> NavState]
    BY <1>0, HistoryFacts DEF NavTypeOK
  <1>6. CASE entries[i].page = shown
    <2>1. [entries[i] EXCEPT !.key = arriving] = entries[i]
      BY <1>3, <1>5 DEF Entry
    <2>2. entries' = entries
      <3>1. entries' = [entries EXCEPT ![i] = [entries[i] EXCEPT !.key = arriving]]
        BY <1>1, <1>6
      <3>2. entries' = [entries EXCEPT ![i] = entries[i]]
        BY <2>1, <3>1
      <3>. QED BY <1>5, <3>2, LenProperties
    <2>3. timer' \in BOOLEAN /\ pos' \in Pages \cup {Top} /\ entryKey' = arriving /\ UNCHANGED <<navSeq, nav>>
      BY <1>1, <1>4, <1>5, <1>6
    <2>4. NavTypeOK'
      BY <1>0, <1>3, <1>4, <2>2, <2>3 DEF NavTypeOK
    <2>5. EntriesHaveKeys' /\ NavigationsAreTold'
      BY <1>0, <1>3, <2>2, <2>3 DEF NavInv, NavTold, EntriesHaveKeys, NavigationsAreTold
    <2>6. /\ Arriving' = Arriving /\ nav' = nav /\ navSeq' = navSeq
          /\ Arriving => nav[navSeq].arriving = NoKey /\ nav[navSeq].to = shown
      BY <1>6, <2>3 DEF Arriving, Loading, Misses
    <2>7. Together'
      BY <1>3, <1>6, <2>2, <2>3 DEF Together, Location
    <2>8. ScreenFollowsAddress'
      BY <2>6, <2>7 DEF ScreenFollowsAddress, Together
    <2>. QED BY <2>4, <2>5, <2>8 DEF NavInv, NavTold
  <1>7. CASE entries[i].page # shown
    <2> DEFINE r == [stage |-> "loading", to |-> entries[i].page, push |-> "none", keep |-> FALSE,
                     arriving |-> arriving, form |-> NoForm]
    <2>1. /\ r \in NavState /\ r.stage = "loading" /\ r.to = entries[i].page /\ r.push = "none"
          /\ r.arriving = arriving /\ r.form = NoForm
      BY <1>5 DEF NavState
    <2>2. navSeq < MaxNavs /\ navSeq' = navSeq + 1 /\ nav' = [nav EXCEPT ![navSeq + 1] = r]
      BY <1>1, <1>7 DEF Navigate
    <2>. HIDE DEF r
    <2>3. Others(nav)
      BY DEF Others
    <2>4. IsBegun(r)
      BY <1>1, <2>1 DEF IsBegun, Keys, NoKey
    <2>5. /\ entries' = entries /\ timer' \in BOOLEAN /\ UNCHANGED <<entryKey, pos>>
      BY <1>1, <1>7
    <2>6. EntriesHaveKeys'
      BY <1>0, <1>3, <2>5 DEF EntriesHaveKeys
    <2>7. AddressAhead(r)
      <3>1. entries'[place'] = entries[i] /\ arriving # NoKey
        BY <1>2, <1>3, <2>5
      <3>2. r.to = entries'[place'].page /\ entries'[place'].key = arriving
        BY <1>3, <2>1, <3>1
      <3>. QED BY <2>1, <3>1, <3>2 DEF AddressAhead
    <2>8. claiming' \in BOOLEAN
      BY <1>0 DEF NavTypeOK
    <2>. QED BY <1>3, <1>4, <1>5, <2>2, <2>3, <2>4, <2>5, <2>6, <2>7, <2>8, NavigateKeepsNavInv
  <1>. QED BY <1>6, <1>7

\* A fragment is of the page on screen: its entry is claimed at once.
LEMMA FragmentKeepsNavInv == ASSUME NavInv, FragmentLink, ~crossed' PROVE NavInv'
  <1>a. crossed' \in BOOLEAN
    BY DEF FragmentLink, CrossedIf
  <1>0. /\ NavTypeOK /\ EntriesHaveKeys /\ ~left /\ shown = Location
        /\ Arriving => nav[navSeq].arriving = NoKey /\ nav[navSeq].to = shown
    BY DEF NavInv, NavTold, FragmentLink, CrossedIf, Behind, Misses
  <1> DEFINE es == Pushed(Location, NoKey)
             i == place + 1
  <1>1. /\ es \in Seq(Entry) /\ Len(es) = i /\ DOMAIN es = 1 .. i
        /\ es[i] = [page |-> Location, key |-> NoKey]
        /\ \A j \in 1 .. place : es[j] = entries[j]
        /\ i \in DOMAIN es /\ Location \in Pages
    BY <1>0, HistoryFacts, PushedFacts
  <1>2. Popstate(es, i) /\ place' = i /\ UNCHANGED <<shown, left>> /\ claiming' = TRUE
    BY DEF FragmentLink
  <1>. HIDE DEF es
  <1>3. es[i].page = shown /\ es[i].key = NoKey
    BY <1>0, <1>1
  <1>4. PICK arriving \in Keys :
          /\ Fresh(arriving) /\ saved' = SavedUnder(entryKey) /\ entryKey' = arriving
          /\ entries' = [es EXCEPT ![i].key = arriving]
          /\ pos' \in {SavedUnder(entryKey)[arriving], shown} /\ timer' = (pos' # pos)
          /\ UNCHANGED <<navSeq, nav>>
    BY <1>2, <1>3 DEF Popstate
  <1>5. entries' = Pushed(Location, arriving)
    <2>1. [es[i] EXCEPT !.key = arriving] = [page |-> Location, key |-> arriving]
      BY <1>1
    <2>2. entries' = [es EXCEPT ![i] = [page |-> Location, key |-> arriving]]
      BY <1>4, <2>1
    <2>3. [page |-> Location, key |-> arriving] \in Entry
      BY <1>1 DEF Entry
    <2> DEFINE e == [page |-> Location, key |-> arriving]
    <2>. HIDE DEF e
    <2>4. /\ [es EXCEPT ![i] = e] \in Seq(Entry) /\ Len([es EXCEPT ![i] = e]) = i
          /\ [es EXCEPT ![i] = e][i] = e
          /\ \A j \in DOMAIN es \ {i} : [es EXCEPT ![i] = e][j] = es[j]
      BY <1>1, <2>3, RewrittenFacts DEF e
    <2>5. arriving \in Keys \cup {NoKey}
      OBVIOUS
    <2>6. /\ Pushed(Location, arriving) \in Seq(Entry) /\ Len(Pushed(Location, arriving)) = i
          /\ Pushed(Location, arriving)[i] = e
          /\ \A j \in 1 .. place : Pushed(Location, arriving)[j] = entries[j]
      BY <1>0, <1>1, <2>5, PushedFacts DEF e
    <2>7. \A j \in 1 .. i : j \in 1 .. place \/ j = i
      BY <1>0, HistoryFacts
    <2>8. \A j \in 1 .. i : [es EXCEPT ![i] = e][j] = Pushed(Location, arriving)[j]
      <3>1. i \notin 1 .. place /\ \A j \in 1 .. place : j \in 1 .. i
        BY <1>0, HistoryFacts
      <3>. QED BY <1>1, <2>4, <2>6, <2>7, <3>1
    <2>9. [es EXCEPT ![i] = e] = Pushed(Location, arriving)
      BY <2>4, <2>6, <2>8, SeqEqual
    <2>. QED BY <2>2, <2>9 DEF e
  <1>6. EntriesHaveKeys' /\ keys' = arriving
    BY <1>1, <1>4, <1>5, PushKeepsKeys
  <1>7. /\ entries' \in Seq(Entry) /\ DOMAIN entries' = 1 .. i
        /\ entries'[i] = [page |-> Location, key |-> arriving]
    <2>1. arriving \in Keys \cup {NoKey}
      OBVIOUS
    <2>. QED BY <1>0, <1>1, <1>5, <2>1, PushedFacts
  <1>8. saved' \in [Keys -> Pages \cup {Top}] /\ SavedUnder(entryKey)[arriving] \in Pages \cup {Top}
    BY <1>0, <1>4, SavedUnderType
  <1>9. NavTypeOK'
    <2>1. place' \in DOMAIN entries' /\ keys' \in Keys /\ entryKey' \in Keys
      BY <1>1, <1>2, <1>4, <1>6, <1>7
    <2>2. pos' \in Pages \cup {Top} /\ timer' \in BOOLEAN /\ claiming' \in BOOLEAN /\ crossed' \in BOOLEAN
      BY <1>0, <1>a, <1>2, <1>4, <1>8 DEF NavTypeOK
    <2>. QED BY <1>0, <1>2, <1>4, <1>7, <1>8, <2>1, <2>2 DEF NavTypeOK
  <1>10. NavigationsAreTold'
    BY <1>4 DEF NavInv, NavTold, NavigationsAreTold
  <1>11. Arriving' = Arriving /\ nav' = nav /\ navSeq' = navSeq
    BY <1>4 DEF Arriving, Loading
  <1>13. Together'
    BY <1>0, <1>2, <1>4, <1>7 DEF Together, Location
  <1>12. ScreenFollowsAddress'
    BY <1>0, <1>2, <1>11, <1>13 DEF ScreenFollowsAddress, Together
  <1>. QED BY <1>6, <1>9, <1>10, <1>12 DEF NavInv, NavTold

\* What a navigation under way is, and the entry the address is at.
LEMMA UnderWay ==
  ASSUME NavInv, ~left, NEW n \in 1 .. MaxNavs, nav[n].stage = "loading", n = navSeq
  PROVE  /\ nav[n] \in NavState /\ nav[n].to \in Pages
         /\ nav[n].form # NoForm => nav[n].push = "push"
         /\ nav[n].push = "none" /\ nav[n].arriving = NoKey => nav[n].keep
         /\ Arriving <=> nav[n].push = "none"
         /\ entries[place].key \in Keys
         /\ nav[n].push = "none" =>
              /\ nav[n].to = Location
              /\ entries[place].key = IF nav[n].arriving # NoKey THEN nav[n].arriving ELSE entryKey
         /\ nav[n].push = "replace" \/ nav[n].form # NoForm =>
              /\ Together /\ shown = Location /\ entryKey = entries[place].key
  <1>0. NavTypeOK /\ EntriesHaveKeys
    BY DEF NavInv, NavTold
  <1>1. nav[n] \in NavState
    BY <1>0 DEF NavTypeOK
  <1>2. nav[n].to \in Pages
    BY <1>1 DEF NavState
  <1>3. Arriving <=> nav[n].push = "none"
    BY <1>0, HistoryFacts DEF Arriving, Loading
  <1>4. entries[place].key \in Keys
    <2>1. entries[place].key \in 1 .. keys /\ keys \in 1 .. MaxKeys
      BY <1>0 DEF EntriesHaveKeys, NavTypeOK, Keys
    <2>. QED BY <2>1, <1>0, HistoryFacts DEF Keys
  <1>5. nav[n].form # NoForm => nav[n].push = "push"
    BY DEF NavInv, NavTold, NavigationsAreTold
  <1>6. nav[n].push = "replace" \/ nav[n].form # NoForm => Together
    BY <1>3, <1>5 DEF NavInv, ScreenFollowsAddress, Departing
  <1>. QED BY <1>1, <1>2, <1>3, <1>4, <1>5, <1>6
           DEF NavInv, NavTold, NavigationsAreTold, ScreenFollowsAddress, Together

\* A record of a navigation, as the code begins one.
LEMMA BegunFacts ==
  ASSUME NEW to \in Pages, NEW push \in {"push", "replace", "none"}, NEW keep, keep \in BOOLEAN,
         NEW arriving \in Keys \cup {NoKey}, NEW form \in PostForms \cup {NoForm},
         form # NoForm => push = "push", push = "none" /\ arriving = NoKey => keep
  PROVE  IsBegun([stage |-> "loading", to |-> to, push |-> push, keep |-> keep,
                  arriving |-> arriving, form |-> form])
  BY DEF IsBegun, NavState

LEMMA ClicksKeepsNavInv == ASSUME NavInv, NEW to \in Pages, Clicks(to), ~crossed' PROVE NavInv'
  <1>a. crossed' \in BOOLEAN
    BY DEF Clicks, CrossedIf
  <1>0. NavTypeOK /\ EntriesHaveKeys /\ ~left /\ crossed' \in BOOLEAN
    BY <1>a DEF NavInv, NavTold, Clicks
  <1>1. PICK push \in {"push", "replace"} :
          /\ Navigate(nav, to, push, FALSE, NoKey, NoForm)
          /\ push = "replace" => to = Location
    BY DEF Clicks
  <1>9. push = "replace" => Together
    BY <1>1 DEF Clicks, CrossedIf, Behind, Together
  <1> DEFINE r == [stage |-> "loading", to |-> to, push |-> push, keep |-> FALSE,
                   arriving |-> NoKey, form |-> NoForm]
  <1>2. IsBegun(r) /\ r.push = push /\ r.push # "none" /\ r.form = NoForm
    <2>1. FALSE \in BOOLEAN /\ NoKey \in Keys \cup {NoKey} /\ NoForm \in PostForms \cup {NoForm}
      OBVIOUS
    <2>2. push \in {"push", "replace", "none"} /\ push # "none"
      OBVIOUS
    <2>3. r.push = push
      OBVIOUS
    <2>. QED BY <2>1, <2>2, <2>3, BegunFacts
  <1>3. navSeq < MaxNavs /\ navSeq' = navSeq + 1 /\ nav' = [nav EXCEPT ![navSeq + 1] = r]
    BY <1>1 DEF Navigate
  <1>4. UNCHANGED <<entries, place, entryKey, shown, pos, saved, timer, keys, claiming, left>>
    BY DEF Clicks, history, scroll
  <1>. HIDE DEF r
  <1>5. AddressAhead(r)
    BY <1>0, <1>2, <1>4, <1>9 DEF AddressAhead, history
  <1>6. Others(nav)
    BY DEF Others
  <1>7. /\ nav \in [1 .. MaxNavs -> NavState] /\ entries' \in Seq(Entry) /\ place' \in DOMAIN entries'
        /\ keys' \in Keys /\ pos' \in Pages \cup {Top} /\ saved' \in [Keys -> Pages \cup {Top}]
        /\ timer' \in BOOLEAN /\ claiming' \in BOOLEAN
    BY <1>0, <1>4 DEF NavTypeOK
  <1>8. EntriesHaveKeys'
    BY <1>0, <1>4 DEF EntriesHaveKeys
  <1>. QED BY <1>0, <1>2, <1>3, <1>4, <1>5, <1>6, <1>7, <1>8, NavigateKeepsNavInv

LEMMA SubmitsKeepsNavInv ==
  ASSUME NavInv, NEW to \in Pages, NEW f \in PostForms, Submits(f, to), ~crossed' PROVE NavInv'
  <1>a. crossed' \in BOOLEAN
    BY DEF Submits, CrossedIf
  <1>0. NavTypeOK /\ EntriesHaveKeys /\ ~left /\ Together /\ crossed' \in BOOLEAN
    BY <1>a DEF NavInv, NavTold, Submits, CrossedIf, Behind, Together
  <1> DEFINE r == [stage |-> "loading", to |-> to, push |-> "push", keep |-> FALSE,
                   arriving |-> NoKey, form |-> f]
  <1>2. IsBegun(r) /\ r.push # "none"
    <2>1. FALSE \in BOOLEAN /\ NoKey \in Keys \cup {NoKey} /\ f \in PostForms \cup {NoForm}
      OBVIOUS
    <2>. QED BY <2>1, BegunFacts
  <1>3. navSeq < MaxNavs /\ navSeq' = navSeq + 1 /\ nav' = [nav EXCEPT ![navSeq + 1] = r]
    BY DEF Submits, Navigate
  <1>4. UNCHANGED <<entries, place, entryKey, shown, pos, saved, timer, keys, claiming, left>>
    BY DEF Submits, history, scroll
  <1>. HIDE DEF r
  <1>5. AddressAhead(r)
    BY <1>0, <1>2, <1>4 DEF AddressAhead, history
  <1>6. Others(nav)
    BY DEF Others
  <1>7. /\ nav \in [1 .. MaxNavs -> NavState] /\ entries' \in Seq(Entry) /\ place' \in DOMAIN entries'
        /\ keys' \in Keys /\ pos' \in Pages \cup {Top} /\ saved' \in [Keys -> Pages \cup {Top}]
        /\ timer' \in BOOLEAN /\ claiming' \in BOOLEAN
    BY <1>0, <1>4 DEF NavTypeOK
  <1>8. EntriesHaveKeys'
    BY <1>0, <1>4 DEF EntriesHaveKeys
  <1>. QED BY <1>0, <1>2, <1>3, <1>4, <1>5, <1>6, <1>7, <1>8, NavigateKeepsNavInv

LEMMA RedirectsKeepsNavInv ==
  ASSUME NavInv, NEW n \in 1 .. MaxNavs, NEW dest \in Pages, Redirects(n, dest) PROVE NavInv'
  <1>0. NavTypeOK /\ EntriesHaveKeys /\ ~left /\ nav[n].stage = "loading" /\ n = navSeq
    BY DEF NavInv, NavTold, Redirects, Newest
  <1>1. /\ nav[n] \in NavState
        /\ nav[n].form # NoForm => nav[n].push = "push"
        /\ nav[n].push = "none" /\ nav[n].arriving = NoKey => nav[n].keep
        /\ Arriving <=> nav[n].push = "none"
        /\ entries[place].key \in Keys
        /\ nav[n].push = "none" =>
             entries[place].key = IF nav[n].arriving # NoKey THEN nav[n].arriving ELSE entryKey
        /\ nav[n].push = "replace" \/ nav[n].form # NoForm =>
             Together /\ shown = Location /\ entryKey = entries[place].key
    BY <1>0, UnderWay
  <1>2. /\ nav[n].push \in {"push", "replace", "none"} /\ nav[n].keep \in BOOLEAN
        /\ nav[n].arriving \in Keys \cup {NoKey}
    BY <1>1 DEF NavState
  <1>3. Ended(n) \in [1 .. MaxNavs -> NavState] /\ Others(Ended(n))
    BY <1>0 DEF Ended, Others, NavTypeOK, NavState
  <1>4. UNCHANGED <<entryKey, shown, pos, saved, timer, keys, claiming, left, crossed>>
    BY DEF Redirects, scroll
  <1>5. /\ crossed' \in BOOLEAN /\ keys' \in Keys /\ pos' \in Pages \cup {Top} /\ saved' \in [Keys -> Pages \cup {Top}]
        /\ timer' \in BOOLEAN /\ claiming' \in BOOLEAN
        /\ entries \in Seq(Entry) /\ place \in DOMAIN entries
    BY <1>0, <1>4 DEF NavTypeOK
  <1>6. CASE nav[n].form # NoForm
    <2>1. PICK push \in {"push", "none"}, keep \in BOOLEAN :
            /\ Navigate(Ended(n), dest, push, keep, NoKey, NoForm)
            /\ push = "none" => dest = Location /\ keep
      <3>1. CASE dest = Location
        <4>1. Navigate(Ended(n), dest, "none", TRUE, NoKey, NoForm)
          BY <1>6, <3>1 DEF Redirects
        <4>. QED BY <3>1, <4>1
      <3>2. CASE dest # Location
        <4>1. Navigate(Ended(n), dest, "push", FALSE, NoKey, NoForm)
          BY <1>6, <3>2 DEF Redirects
        <4>. QED BY <4>1
      <3>. QED BY <3>1, <3>2
    <2>2. UNCHANGED <<entries, place>>
      BY <1>6 DEF Redirects, history
    <2> DEFINE r == [stage |-> "loading", to |-> dest, push |-> push, keep |-> keep,
                     arriving |-> NoKey, form |-> NoForm]
    <2>3. IsBegun(r) /\ r.to = dest /\ r.push = push /\ r.arriving = NoKey /\ r.form = NoForm
      <3>1. NoKey \in Keys \cup {NoKey} /\ NoForm \in PostForms \cup {NoForm}
        OBVIOUS
      <3>2. push \in {"push", "replace", "none"}
        OBVIOUS
      <3>3. push = "none" /\ NoKey = NoKey => keep
        BY <2>1
      <3>. QED BY <3>1, <3>2, <3>3, BegunFacts
    <2>4. navSeq < MaxNavs /\ navSeq' = navSeq + 1 /\ nav' = [Ended(n) EXCEPT ![navSeq + 1] = r]
      BY <2>1 DEF Navigate
    <2>. HIDE DEF r
    <2>5. AddressAhead(r)
      <3>1. CASE push = "none"
        BY <1>1, <1>6, <2>1, <2>2, <2>3, <3>1 DEF AddressAhead, Location
      <3>2. CASE push # "none"
        BY <1>0, <1>1, <1>6, <2>2, <2>3, <3>2 DEF AddressAhead, history
      <3>. QED BY <3>1, <3>2
    <2>6. EntriesHaveKeys' /\ entries' \in Seq(Entry) /\ place' \in DOMAIN entries'
      BY <1>0, <1>4, <1>5, <2>2 DEF EntriesHaveKeys
    <2>. QED BY <1>3, <1>4, <1>5, <2>3, <2>4, <2>5, <2>6, NavigateKeepsNavInv
  <1>7. CASE nav[n].form = NoForm
    <2>1. /\ Navigate(Ended(n), dest, nav[n].push, nav[n].keep, nav[n].arriving, NoForm)
          /\ nav[n].push = "none" =>
               ReplaceState(dest, IF nav[n].arriving # NoKey THEN nav[n].arriving ELSE entryKey)
          /\ nav[n].push # "none" => UNCHANGED history
      BY <1>7 DEF Redirects
    <2> DEFINE r == [stage |-> "loading", to |-> dest, push |-> nav[n].push, keep |-> nav[n].keep,
                     arriving |-> nav[n].arriving, form |-> NoForm]
    <2>3. /\ IsBegun(r) /\ r.to = dest /\ r.push = nav[n].push /\ r.arriving = nav[n].arriving
          /\ r.form = NoForm
      <3>1. NoForm \in PostForms \cup {NoForm}
        OBVIOUS
      <3>. QED BY <1>1, <1>2, <3>1, BegunFacts
    <2>4. navSeq < MaxNavs /\ navSeq' = navSeq + 1 /\ nav' = [Ended(n) EXCEPT ![navSeq + 1] = r]
      BY <2>1 DEF Navigate
    <2>. HIDE DEF r
    <2>5. CASE nav[n].push = "none"
      <3> DEFINE k == entries[place].key
      <3>1. entries' = [entries EXCEPT ![place] = [page |-> dest, key |-> k]] /\ UNCHANGED <<place, keys>>
        BY <1>1, <1>4, <2>1, <2>5 DEF ReplaceState
      <3>2. /\ EntriesHaveKeys' /\ entries' \in Seq(Entry) /\ place' \in DOMAIN entries'
            /\ entries'[place'] = [page |-> dest, key |-> k]
        BY <1>1, <3>1, ReplaceKeepsKeys
      <3>3. AddressAhead(r)
        BY <1>1, <2>3, <2>5, <3>2 DEF AddressAhead
      <3>. QED BY <1>3, <1>4, <1>5, <2>3, <2>4, <3>2, <3>3, NavigateKeepsNavInv
    <2>6. CASE nav[n].push # "none"
      <3>1. UNCHANGED <<entries, place>>
        BY <2>1, <2>6 DEF history
      <3>2. EntriesHaveKeys' /\ entries' \in Seq(Entry) /\ place' \in DOMAIN entries'
        BY <1>0, <1>4, <1>5, <3>1 DEF EntriesHaveKeys
      <3>3. AddressAhead(r)
        BY <1>0, <1>1, <1>2, <2>3, <2>6, <3>1 DEF AddressAhead, history
      <3>. QED BY <1>3, <1>4, <1>5, <2>3, <2>4, <3>2, <3>3, NavigateKeepsNavInv
    <2>. QED BY <2>5, <2>6
  <1>. QED BY <1>6, <1>7

LEMMA ShowsKeepsNavInv ==
  ASSUME NavInv, NEW n \in 1 .. MaxNavs, Shows(n) PROVE NavInv'
  <1>0. NavTypeOK /\ EntriesHaveKeys /\ ~left /\ nav[n].stage = "loading" /\ n = navSeq
    BY DEF NavInv, NavTold, Shows, Newest
  <1>1. /\ nav[n].to \in Pages /\ nav[n].push \in {"push", "replace", "none"}
        /\ entries[place].key \in Keys
        /\ nav[n].push = "none" =>
             /\ nav[n].to = Location
             /\ entries[place].key = IF nav[n].arriving # NoKey THEN nav[n].arriving ELSE entryKey
        /\ nav[n].push = "replace" => entryKey = entries[place].key
    BY <1>0, UnderWay DEF NavState
  <1>2. /\ nav' \in [1 .. MaxNavs -> NavState] /\ nav'[n].stage = "painting"
        /\ nav'[n].push = nav[n].push /\ nav'[n].keep = nav[n].keep
        /\ nav'[n].arriving = nav[n].arriving
        /\ \A m \in 1 .. MaxNavs \ {n} : nav'[m] = nav[m]
    <2>1. nav' = [nav EXCEPT ![n].stage = "painting"]
      BY DEF Shows
    <2>. QED BY <1>0, <2>1, StageFacts
  <1>3. UNCHANGED <<navSeq, pos, timer, claiming, left>> /\ shown' = nav[n].to /\ shown' \in Pages
        /\ crossed' \in BOOLEAN
    BY <1>0, <1>1 DEF Shows, NavTypeOK
  <1>4. /\ entries' \in Seq(Entry) /\ place' \in DOMAIN entries' /\ EntriesHaveKeys'
        /\ keys' \in Keys /\ entryKey' \in Keys /\ saved' \in [Keys -> Pages \cup {Top}]
        /\ nav[n].to = entries'[place'].page /\ entryKey' = entries'[place'].key
    <2>1. CASE nav[n].push = "push"
      <3>1. PushEntry(nav[n].to)
        BY <2>1 DEF Shows, Addressed
      <3>. QED BY <1>1, <3>1, PushEntryFacts
    <2>2. CASE nav[n].push = "replace"
      <3>1. ReplaceState(nav[n].to, entryKey) /\ UNCHANGED <<entryKey, keys, saved>>
        BY <2>2 DEF Shows, Addressed
      <3>2. entryKey = entries[place].key /\ entryKey \in Keys
        BY <1>1, <2>2
      <3>3. entries' = [entries EXCEPT ![place] = [page |-> nav[n].to, key |-> entryKey]] /\ UNCHANGED <<place, keys>>
        BY <3>1 DEF ReplaceState
      <3>4. /\ EntriesHaveKeys' /\ entries' \in Seq(Entry) /\ place' \in DOMAIN entries'
            /\ entries'[place'] = [page |-> nav[n].to, key |-> entryKey]
        BY <1>1, <3>2, <3>3, ReplaceKeepsKeys
      <3>. QED BY <1>0, <3>1, <3>2, <3>4 DEF NavTypeOK
    <2>3. CASE nav[n].push = "none"
      <3>1. UNCHANGED <<entries, place, keys, saved>>
        BY <2>3 DEF Shows, Addressed, history
      <3>2. entryKey' = entries[place].key
        BY <1>1, <2>3 DEF Shows, Addressed, ArrivesUnder
      <3>3. EntriesHaveKeys'
        BY <1>0, <3>1 DEF EntriesHaveKeys
      <3>. QED BY <1>0, <1>1, <2>3, <3>1, <3>2, <3>3 DEF NavTypeOK, Location
    <2>. QED BY <1>1, <2>1, <2>2, <2>3
  <1>. QED BY <1>0, <1>2, <1>3, <1>4, PaintingKeepsNavInv

LEMMA ActionRendersKeepsNavInv ==
  ASSUME NavInv, NEW n \in 1 .. MaxNavs, ActionRenders(n) PROVE NavInv'
  <1>0. /\ NavTypeOK /\ EntriesHaveKeys /\ ~left /\ nav[n].stage = "loading" /\ n = navSeq
        /\ nav[n].form # NoForm
    BY DEF NavInv, NavTold, ActionRenders, Newest
  <1>1. /\ nav[n] \in NavState /\ nav[n].to \in Pages /\ nav[n].push = "push"
        /\ entries[place].key \in Keys /\ shown = Location /\ entryKey = entries[place].key
    BY <1>0, UnderWay
  <1>2. PICK keep \in BOOLEAN :
          /\ nav' = [nav EXCEPT ![n].stage = "painting", ![n].keep = keep]
    BY DEF ActionRenders
  <1>3. /\ nav' \in [1 .. MaxNavs -> NavState] /\ nav'[n].stage = "painting"
        /\ nav'[n].push = nav[n].push /\ nav'[n].arriving = nav[n].arriving
        /\ \A m \in 1 .. MaxNavs \ {n} : nav'[m] = nav[m]
    BY <1>0, <1>1, <1>2 DEF NavState, NavTypeOK
  <1>4. UNCHANGED <<navSeq, pos, timer, claiming, left>> /\ shown' = nav[n].to /\ shown' \in Pages
        /\ crossed' \in BOOLEAN
    BY <1>0, <1>1 DEF ActionRenders, NavTypeOK
  <1>5. /\ entries' \in Seq(Entry) /\ place' \in DOMAIN entries' /\ EntriesHaveKeys'
        /\ keys' \in Keys /\ entryKey' \in Keys /\ saved' \in [Keys -> Pages \cup {Top}]
        /\ nav[n].to = entries'[place'].page /\ entryKey' = entries'[place'].key
    <2>1. CASE nav[n].to = Location
      <3>1. UNCHANGED <<entries, place, entryKey, keys, saved>>
        BY <2>1 DEF ActionRenders, history
      <3>2. EntriesHaveKeys'
        BY <1>0, <3>1 DEF EntriesHaveKeys
      <3>. QED BY <1>0, <1>1, <2>1, <3>1, <3>2 DEF NavTypeOK, Location
    <2>2. CASE nav[n].to # Location
      <3>1. PushEntry(nav[n].to)
        BY <2>2 DEF ActionRenders
      <3>. QED BY <1>1, <3>1, PushEntryFacts
    <2>. QED BY <2>1, <2>2
  <1>. QED BY <1>0, <1>1, <1>3, <1>4, <1>5, PaintingKeepsNavInv

\* What is painted is a page or the top.
LEMMA PaintedPosition ==
  ASSUME NavTold, NEW n \in 1 .. MaxNavs, Paints(n) PROVE pos' \in Pages \cup {Top}
  <1>0. NavTypeOK /\ nav[n].stage # "none"
    BY DEF NavTold, Paints
  <1>1. /\ nav[n] \in NavState
        /\ nav[n].push = "none" /\ nav[n].arriving = NoKey => nav[n].keep
    BY <1>0 DEF NavTold, NavTypeOK, NavigationsAreTold
  <1>2. \A k \in Keys : saved[k] \in Pages \cup {Top}
    BY <1>0 DEF NavTypeOK
  <1>3. pos \in Pages \cup {Top} /\ nav[n].arriving \in Keys \cup {NoKey}
    BY <1>0, <1>1 DEF NavTypeOK, NavState
  <1>4. CASE nav[n].keep
    BY <1>3, <1>4 DEF Paints
  <1>5. CASE ~nav[n].keep /\ nav[n].push = "none"
    <2>1. nav[n].arriving \in Keys
      BY <1>1, <1>3, <1>5
    <2>. QED BY <1>2, <1>3, <1>5, <2>1 DEF Paints
  <1>6. CASE ~nav[n].keep /\ nav[n].push # "none"
    BY <1>3, <1>6 DEF Paints
  <1>. QED BY <1>4, <1>5, <1>6

\* The ends of navigations, and what happens to scroll positions.
LEMMA EndsKeepNavInv ==
  ASSUME NavInv, NEW n \in 1 .. MaxNavs, Superseded(n) \/ Leaves(n) \/ TooLarge(n) \/ Paints(n)
  PROVE  NavInv'
  <1>0. NavTypeOK
    BY DEF NavInv, NavTold
  <1>1. nav[n].stage # "none" /\ ~left
    BY DEF Superseded, Leaves, TooLarge, Paints
  <1>2. nav' = [nav EXCEPT ![n].stage = "over"] /\ UNCHANGED <<entries, place, entryKey, shown, navSeq, keys, claiming>>
    BY DEF Superseded, Leaves, TooLarge, Paints, Ended, history
  <1>8. crossed' \in BOOLEAN
    BY <1>0 DEF Superseded, Leaves, TooLarge, Paints, NavTypeOK
  <1>3. n # navSeq \/ nav[n].stage = "painting" \/ (~Arriving /\ Together) \/ left'
    <2>1. CASE TooLarge(n)
      <3>1. nav[n].stage = "loading" /\ n = navSeq /\ nav[n].form # NoForm
        BY <2>1 DEF TooLarge, Newest
      <3>. QED BY <1>1, <3>1, UnderWay
    <2>2. CASE ~TooLarge(n)
      BY <2>2 DEF Superseded, Leaves, Paints, Newest
    <2>. QED BY <2>1, <2>2
  <1>4. left' \in BOOLEAN /\ (left => left')
    BY <1>1, <1>0 DEF Superseded, Leaves, TooLarge, Paints, NavTypeOK
  <1>5. saved' \in [Keys -> Pages \cup {Top}]
    <2>1. CASE Leaves(n)
      BY <1>0, <2>1, SavedUnderType DEF Leaves
    <2>2. CASE ~Leaves(n)
      BY <1>0, <2>2 DEF Superseded, TooLarge, Paints, scroll, NavTypeOK
    <2>. QED BY <2>1, <2>2
  <1>6. pos' \in Pages \cup {Top}
    BY <1>0, PaintedPosition DEF NavInv, NavTold, Superseded, Leaves, TooLarge, scroll, NavTypeOK
  <1>7. timer' \in BOOLEAN
    <2>1. timer \in BOOLEAN
      BY <1>0 DEF NavTypeOK
    <2>. QED BY <2>1 DEF Superseded, Leaves, TooLarge, Paints, scroll
  <1>. QED BY <1>1, <1>2, <1>3, <1>4, <1>5, <1>6, <1>7, <1>8, OtherStagesKeepNavInv

LEMMA ScrollsKeepNavInv ==
  ASSUME NavInv, Scrolls \/ TimerFires \/ Hashchange \/ UNCHANGED navVars
  PROVE  NavInv'
  <1>0. NavTypeOK /\ EntriesHaveKeys
    BY DEF NavInv, NavTold
  <1>1. entries[place].key # NoKey
    BY <1>0, HistoryFacts DEF EntriesHaveKeys, NoKey
  <1>2. UNCHANGED <<entries, place, entryKey, shown, navSeq, nav, keys, left>>
    BY <1>1 DEF Scrolls, TimerFires, Hashchange, navVars, history
  <1>3. saved' \in [Keys -> Pages \cup {Top}]
    <2>1. CASE TimerFires
      BY <1>0, <2>1, SavedUnderType DEF TimerFires
    <2>2. CASE ~TimerFires
      BY <1>0, <2>2 DEF Scrolls, Hashchange, navVars, scroll, NavTypeOK
    <2>. QED BY <2>1, <2>2
  <1>4. pos' \in Pages \cup {Top}
    BY <1>0 DEF Scrolls, TimerFires, Hashchange, navVars, scroll, NavTypeOK
  <1>5. timer' \in BOOLEAN /\ claiming' \in BOOLEAN /\ crossed' \in BOOLEAN
    BY <1>0 DEF Scrolls, TimerFires, Hashchange, navVars, scroll, NavTypeOK
  <1>. QED BY <1>2, <1>3, <1>4, <1>5, ScrollKeepsNavInv

LEMMA NavStepKeepsNavInv == ASSUME NavInv, [NavNext]_navVars, ~crossed' PROVE NavInv'
  <1>1. CASE Scrolls \/ TimerFires \/ Hashchange \/ UNCHANGED navVars
    BY <1>1, ScrollsKeepNavInv
  <1>2. CASE FragmentLink
    BY <1>2, FragmentKeepsNavInv
  <1>3. ASSUME NEW to \in Pages, Clicks(to) PROVE NavInv'
    BY <1>3, ClicksKeepsNavInv
  <1>4. ASSUME NEW to \in Pages, NEW f \in PostForms, Submits(f, to) PROVE NavInv'
    BY <1>4, SubmitsKeepsNavInv
  <1>5. ASSUME NEW i \in 1 .. MaxEntries, Traverses(i) PROVE NavInv'
    <2>1. /\ ~left /\ i \in DOMAIN entries /\ place' = i /\ Popstate(entries, i)
          /\ UNCHANGED <<shown, claiming, left>> /\ crossed' \in BOOLEAN
          /\ entries[i].page = shown => ~Misses(shown)
      BY <1>5 DEF Traverses, CrossedIf
    <2>. QED BY <2>1, PopstateKeepsNavInv
  <1>6. ASSUME NEW n \in 1 .. MaxNavs, Superseded(n) \/ Leaves(n) \/ TooLarge(n) \/ Paints(n) PROVE NavInv'
    BY <1>6, EndsKeepNavInv
  <1>7. ASSUME NEW n \in 1 .. MaxNavs, Shows(n) PROVE NavInv'
    BY <1>7, ShowsKeepsNavInv
  <1>8. ASSUME NEW n \in 1 .. MaxNavs, ActionRenders(n) PROVE NavInv'
    BY <1>8, ActionRendersKeepsNavInv
  <1>9. ASSUME NEW n \in 1 .. MaxNavs, NEW dest \in Pages, Redirects(n, dest) PROVE NavInv'
    BY <1>9, RedirectsKeepsNavInv
  <1>. QED BY <1>1, <1>2, <1>3, <1>4, <1>5, <1>6, <1>7, <1>8, <1>9 DEF NavNext

\* With or without a crossing: the types, and what navigations are told.
NavKept == NavTold /\ (crossed \/ NavInv)

\* What was crossed stays so.
LEMMA CrossedStays ==
  ASSUME NavTypeOK, [NavNext]_navVars PROVE crossed => crossed'
  BY DEF NavNext, Scrolls, TimerFires, FragmentLink, Hashchange, Clicks, Submits, Traverses,
         Superseded, Leaves, TooLarge, Shows, ActionRenders, Paints, Redirects, CrossedIf, navVars

\* The session history stays one as the code rewrites or adds an entry.
LEMMA HistoryTyped ==
  ASSUME NavTypeOK, NEW page \in Pages, NEW k \in Keys,
         ReplaceState(page, k) \/ PushState(page, k)
  PROVE  entries' \in Seq(Entry) /\ place' \in DOMAIN entries'
  <1>1. CASE PushState(page, k)
    <2>1. entries' = Pushed(page, k) /\ place' = place + 1
      BY <1>1 DEF PushState
    <2>2. k \in Keys \cup {NoKey} /\ place + 1 \in 1 .. place + 1
      BY HistoryFacts
    <2>. QED BY <2>1, <2>2, PushedFacts
  <1>2. CASE ReplaceState(page, k)
    <2> DEFINE e == [page |-> page, key |-> k]
    <2>1. e \in Entry
      BY DEF Entry
    <2>2. entries' = [entries EXCEPT ![place] = e] /\ place' = place
      BY <1>2 DEF ReplaceState
    <2>. HIDE DEF e
    <2>3. entries \in Seq(Entry) /\ place \in DOMAIN entries
      BY DEF NavTypeOK
    <2>. QED BY <2>1, <2>2, <2>3, RewrittenFacts
  <1>. QED BY <1>1, <1>2

LEMMA PopstateTyped ==
  ASSUME NavTold, NEW es \in Seq(Entry), NEW i \in DOMAIN es, place' = i, Popstate(es, i),
         UNCHANGED <<shown, left>>, claiming' \in BOOLEAN, crossed' \in BOOLEAN
  PROVE  NavTold'
  <1>0. NavTypeOK
    BY DEF NavTold
  <1>1. PICK arriving \in Keys :
          /\ IF es[i].key = NoKey THEN Fresh(arriving) ELSE arriving = es[i].key /\ UNCHANGED keys
          /\ saved' = SavedUnder(entryKey)
          /\ IF es[i].page = shown
             THEN /\ entryKey' = arriving
                  /\ entries' = [es EXCEPT ![i].key = arriving]
                  /\ pos' \in {SavedUnder(entryKey)[arriving], shown}
                  /\ timer' = (pos' # pos)
                  /\ UNCHANGED <<navSeq, nav>>
             ELSE /\ Navigate(nav, es[i].page, "none", FALSE, arriving, NoForm)
                  /\ entries' = es /\ timer' = FALSE
                  /\ UNCHANGED <<entryKey, pos>>
    BY DEF Popstate
  <1>2. saved' \in [Keys -> Pages \cup {Top}] /\ SavedUnder(entryKey)[arriving] \in Pages \cup {Top}
    BY <1>0, <1>1, SavedUnderType
  <1>3. keys' \in Keys
    BY <1>0, <1>1 DEF Fresh, NavTypeOK
  <1>4. es[i] \in Entry /\ es[i].page \in Pages
    <2>1. i \in 1 .. Len(es)
      BY LenProperties
    <2>2. es[i] \in Entry
      BY <2>1, ElementOfSeq
    <2>. QED BY <2>2 DEF Entry
  <1>5. CASE es[i].page = shown
    <2> DEFINE e == [es[i] EXCEPT !.key = arriving]
    <2>1. e \in Entry
      BY <1>4 DEF Entry
    <2>2. entries' = [es EXCEPT ![i] = e]
      BY <1>1, <1>5
    <2>. HIDE DEF e
    <2>3. entries' \in Seq(Entry) /\ place' \in DOMAIN entries'
      BY <2>1, <2>2, RewrittenFacts
    <2>4. /\ pos' \in Pages \cup {Top} /\ timer' \in BOOLEAN /\ entryKey' \in Keys
          /\ UNCHANGED <<navSeq, nav>>
      BY <1>0, <1>1, <1>2, <1>5 DEF NavTypeOK
    <2>. QED BY <1>0, <1>2, <1>3, <2>3, <2>4 DEF NavTold, NavTypeOK, NavigationsAreTold
  <1>6. CASE es[i].page # shown
    <2> DEFINE r == [stage |-> "loading", to |-> es[i].page, push |-> "none", keep |-> FALSE,
                     arriving |-> arriving, form |-> NoForm]
    <2>1. IsBegun(r)
      BY <1>4 DEF IsBegun, NavState, Keys, NoKey
    <2>2. navSeq < MaxNavs /\ navSeq' = navSeq + 1 /\ nav' = [nav EXCEPT ![navSeq + 1] = r]
      BY <1>1, <1>6 DEF Navigate
    <2>. HIDE DEF r
    <2>3. Others(nav) /\ nav \in [1 .. MaxNavs -> NavState]
      BY <1>0 DEF Others, NavTypeOK
    <2>4. navSeq' \in 0 .. MaxNavs /\ nav' \in [1 .. MaxNavs -> NavState] /\ NavigationsAreTold'
      BY <2>1, <2>2, <2>3, NavigationBegins
    <2>5. entries' = es /\ timer' = FALSE /\ UNCHANGED <<entryKey, pos>>
      BY <1>1, <1>6
    <2>. QED BY <1>0, <1>2, <1>3, <2>4, <2>5 DEF NavTold, NavTypeOK
  <1>. QED BY <1>5, <1>6

\* A navigation begins, and nothing that shows changes.
LEMMA BeginningTyped ==
  ASSUME NavTold, NEW base, base \in [1 .. MaxNavs -> NavState], Others(base),
         NEW to \in Pages, NEW push \in {"push", "replace", "none"}, NEW keep, keep \in BOOLEAN,
         NEW arriving \in Keys \cup {NoKey}, NEW form \in PostForms \cup {NoForm},
         form # NoForm => push = "push", push = "none" /\ arriving = NoKey => keep,
         Navigate(base, to, push, keep, arriving, form),
         entries' \in Seq(Entry), place' \in DOMAIN entries',
         UNCHANGED <<entryKey, shown, scroll, keys, claiming, left>>, crossed' \in BOOLEAN
  PROVE  NavTold'
  <1>0. NavTypeOK
    BY DEF NavTold
  <1> DEFINE r == [stage |-> "loading", to |-> to, push |-> push, keep |-> keep,
                   arriving |-> arriving, form |-> form]
  <1>1. IsBegun(r)
    BY BegunFacts
  <1>2. navSeq < MaxNavs /\ navSeq' = navSeq + 1 /\ nav' = [base EXCEPT ![navSeq + 1] = r]
    BY DEF Navigate
  <1>. HIDE DEF r
  <1>3. navSeq' \in 0 .. MaxNavs /\ nav' \in [1 .. MaxNavs -> NavState] /\ NavigationsAreTold'
    BY <1>1, <1>2, NavigationBegins
  <1>. QED BY <1>0, <1>3 DEF NavTold, NavTypeOK, scroll

\* A navigation gets on, and stays what it was told to be.
LEMMA StagesAreTold ==
  ASSUME NavTold, NEW n \in 1 .. MaxNavs, nav[n].stage # "none",
         NEW stage \in {"painting", "over"}, nav' = [nav EXCEPT ![n].stage = stage]
  PROVE  nav' \in [1 .. MaxNavs -> NavState] /\ NavigationsAreTold'
  <1>1. /\ nav' \in [1 .. MaxNavs -> NavState] /\ nav'[n].stage = stage
        /\ nav'[n].push = nav[n].push /\ nav'[n].keep = nav[n].keep
        /\ nav'[n].arriving = nav[n].arriving /\ nav'[n].form = nav[n].form
        /\ \A m \in 1 .. MaxNavs \ {n} : nav'[m] = nav[m]
    BY StageFacts DEF NavTold
  <1>2. ASSUME NEW m \in 1 .. MaxNavs, nav'[m].stage # "none"
        PROVE  /\ nav'[m].stage = "loading" /\ nav'[m].form # NoForm => nav'[m].push = "push"
               /\ nav'[m].push = "none" /\ nav'[m].arriving = NoKey => nav'[m].keep
    BY <1>1, <1>2 DEF NavTold, NavigationsAreTold
  <1>. QED BY <1>1, <1>2 DEF NavigationsAreTold

LEMMA EndsTyped ==
  ASSUME NavTold, NEW n \in 1 .. MaxNavs, Superseded(n) \/ Leaves(n) \/ TooLarge(n) \/ Paints(n)
  PROVE  NavTold'
  <1>0. NavTypeOK
    BY DEF NavTold
  <1>1. nav[n].stage # "none"
    BY DEF Superseded, Leaves, TooLarge, Paints
  <1>2. /\ nav' = [nav EXCEPT ![n].stage = "over"]
        /\ UNCHANGED <<entries, place, entryKey, shown, navSeq, keys, claiming, crossed>>
    BY DEF Superseded, Leaves, TooLarge, Paints, Ended, history
  <1>3. nav' \in [1 .. MaxNavs -> NavState] /\ NavigationsAreTold'
    BY <1>1, <1>2, StagesAreTold
  <1>4. saved' \in [Keys -> Pages \cup {Top}]
    <2>1. CASE Leaves(n)
      BY <1>0, <2>1, SavedUnderType DEF Leaves
    <2>2. CASE ~Leaves(n)
      BY <1>0, <2>2 DEF Superseded, TooLarge, Paints, scroll, NavTypeOK
    <2>. QED BY <2>1, <2>2
  <1>5. pos' \in Pages \cup {Top}
    BY <1>0, PaintedPosition DEF Superseded, Leaves, TooLarge, scroll, NavTypeOK
  <1>6. timer' \in BOOLEAN /\ left' \in BOOLEAN
    <2>1. timer \in BOOLEAN /\ left \in BOOLEAN
      BY <1>0 DEF NavTypeOK
    <2>. QED BY <2>1 DEF Superseded, Leaves, TooLarge, Paints, scroll
  <1>. QED BY <1>0, <1>2, <1>3, <1>4, <1>5, <1>6 DEF NavTold, NavTypeOK

LEMMA RedirectsTyped ==
  ASSUME NavTold, NEW n \in 1 .. MaxNavs, NEW dest \in Pages, Redirects(n, dest) PROVE NavTold'
  <1>0. NavTypeOK /\ nav[n].stage = "loading"
    BY DEF NavTold, Redirects
  <1>1. Ended(n) \in [1 .. MaxNavs -> NavState] /\ Others(Ended(n))
    BY <1>0 DEF Ended, Others, NavTypeOK, NavState
  <1>2. /\ UNCHANGED <<entryKey, shown, scroll, keys, claiming, left>> /\ crossed' \in BOOLEAN
        /\ entries \in Seq(Entry) /\ place \in DOMAIN entries /\ entryKey \in Keys
    BY <1>0 DEF Redirects, NavTypeOK
  <1>3. /\ nav[n] \in NavState /\ nav[n].push \in {"push", "replace", "none"}
        /\ nav[n].keep \in BOOLEAN /\ nav[n].arriving \in Keys \cup {NoKey}
        /\ nav[n].push = "none" /\ nav[n].arriving = NoKey => nav[n].keep
    BY <1>0 DEF NavTypeOK, NavState, NavTold, NavigationsAreTold
  <1>4. NoKey \in Keys \cup {NoKey} /\ NoForm \in PostForms \cup {NoForm}
    OBVIOUS
  <1>5. CASE nav[n].form # NoForm
    <2>1. UNCHANGED <<entries, place>>
      BY <1>5 DEF Redirects, history
    <2>2. CASE dest = Location
      <3>1. Navigate(Ended(n), dest, "none", TRUE, NoKey, NoForm)
        BY <1>5, <2>2 DEF Redirects
      <3>2. "none" \in {"push", "replace", "none"} /\ TRUE \in BOOLEAN
        OBVIOUS
      <3>. QED BY <1>1, <1>2, <1>4, <2>1, <3>1, <3>2, BeginningTyped
    <2>3. CASE dest # Location
      <3>1. Navigate(Ended(n), dest, "push", FALSE, NoKey, NoForm)
        BY <1>5, <2>3 DEF Redirects
      <3>2. "push" \in {"push", "replace", "none"} /\ FALSE \in BOOLEAN /\ "push" # "none"
        OBVIOUS
      <3>. QED BY <1>1, <1>2, <1>4, <2>1, <3>1, <3>2, BeginningTyped
    <2>. QED BY <2>2, <2>3
  <1>6. CASE nav[n].form = NoForm
    <2>1. Navigate(Ended(n), dest, nav[n].push, nav[n].keep, nav[n].arriving, NoForm)
      BY <1>6 DEF Redirects
    <2>2. entries' \in Seq(Entry) /\ place' \in DOMAIN entries'
      <3>1. CASE nav[n].push = "none"
        <4>1. ReplaceState(dest, IF nav[n].arriving # NoKey THEN nav[n].arriving ELSE entryKey)
          BY <1>6, <3>1 DEF Redirects
        <4>2. (IF nav[n].arriving # NoKey THEN nav[n].arriving ELSE entryKey) \in Keys
          BY <1>2, <1>3
        <4>. QED BY <1>0, <4>1, <4>2, HistoryTyped
      <3>2. CASE nav[n].push # "none"
        BY <1>2, <1>6, <3>2 DEF Redirects, history
      <3>. QED BY <3>1, <3>2
    <2>. QED BY <1>1, <1>2, <1>3, <1>4, <2>1, <2>2, BeginningTyped
  <1>. QED BY <1>5, <1>6

LEMMA PushEntryTyped ==
  ASSUME NavTypeOK, NEW page \in Pages, PushEntry(page)
  PROVE  /\ entries' \in Seq(Entry) /\ place' \in DOMAIN entries'
         /\ entryKey' \in Keys /\ keys' \in Keys /\ saved' \in [Keys -> Pages \cup {Top}]
  <1>1. PICK k \in Keys : Fresh(k) /\ entryKey' = k /\ PushState(page, k)
    BY DEF PushEntry
  <1>2. saved' \in [Keys -> Pages \cup {Top}]
    BY SavedUnderType DEF PushEntry
  <1>. QED BY <1>1, <1>2, HistoryTyped DEF Fresh

LEMMA RendersTyped ==
  ASSUME NavTold, NEW n \in 1 .. MaxNavs, Shows(n) \/ ActionRenders(n) PROVE NavTold'
  <1>0. NavTypeOK /\ nav[n].stage = "loading"
    BY DEF NavTold, Shows, ActionRenders
  <1>1. /\ nav[n] \in NavState /\ nav[n].to \in Pages /\ nav[n].push \in {"push", "replace", "none"}
        /\ nav[n].arriving \in Keys \cup {NoKey} /\ entryKey \in Keys
    BY <1>0 DEF NavTypeOK, NavState
  <1>2. UNCHANGED <<pos, timer, navSeq, claiming, left, crossed>> /\ shown' \in Pages
    BY <1>1 DEF Shows, ActionRenders
  <1>3. /\ entries' \in Seq(Entry) /\ place' \in DOMAIN entries'
        /\ entryKey' \in Keys /\ keys' \in Keys /\ saved' \in [Keys -> Pages \cup {Top}]
    <2>1. CASE PushEntry(nav[n].to)
      BY <1>0, <1>1, <2>1, PushEntryTyped
    <2>2. CASE UNCHANGED <<history, keys, saved>> /\ entryKey' \in Keys
      BY <1>0, <2>2 DEF NavTypeOK, history
    <2>3. CASE ReplaceState(nav[n].to, entryKey) /\ UNCHANGED <<entryKey, keys, saved>>
      <3>1. entries' \in Seq(Entry) /\ place' \in DOMAIN entries'
        BY <1>0, <1>1, <2>3, HistoryTyped
      <3>. QED BY <1>0, <2>3, <3>1 DEF NavTypeOK
    <2>4. CASE Shows(n)
      <3>1. Addressed(n)
        BY <2>4 DEF Shows
      <3>. QED BY <1>1, <2>1, <2>2, <2>3, <3>1 DEF Addressed, ArrivesUnder
    <2>5. CASE ActionRenders(n)
      BY <1>1, <2>1, <2>2, <2>5 DEF ActionRenders
    <2>. QED BY <2>4, <2>5
  <1>4. nav' \in [1 .. MaxNavs -> NavState] /\ NavigationsAreTold'
    <2>1. CASE Shows(n)
      BY <1>0, <2>1, StagesAreTold DEF Shows
    <2>2. CASE ActionRenders(n)
      <3>1. nav[n].form # NoForm /\ nav[n].push = "push"
        BY <1>0, <2>2 DEF ActionRenders, NavTold, NavigationsAreTold
      <3>2. PICK keep \in BOOLEAN : nav' = [nav EXCEPT ![n].stage = "painting", ![n].keep = keep]
        BY <2>2 DEF ActionRenders
      <3>3. /\ nav' \in [1 .. MaxNavs -> NavState] /\ nav'[n].stage = "painting"
            /\ nav'[n].push = nav[n].push
            /\ \A m \in 1 .. MaxNavs \ {n} : nav'[m] = nav[m]
        BY <1>0, <1>1, <3>2 DEF NavState, NavTypeOK
      <3>. QED BY <3>1, <3>3 DEF NavTold, NavigationsAreTold
    <2>. QED BY <2>1, <2>2
  <1>. QED BY <1>0, <1>2, <1>3, <1>4 DEF NavTold, NavTypeOK

LEMMA NavStepKeepsNavTold == ASSUME NavTold, [NavNext]_navVars PROVE NavTold'
  <1>0. NavTypeOK
    BY DEF NavTold
  <1>1. CASE Scrolls \/ TimerFires \/ UNCHANGED navVars
    <2>1. /\ UNCHANGED <<entries, place, entryKey, shown, navSeq, nav, keys, claiming, left, crossed>>
          /\ pos' \in Pages \cup {Top} /\ timer' \in BOOLEAN
      BY <1>0, <1>1 DEF Scrolls, TimerFires, navVars, history, scroll, NavTypeOK
    <2>2. saved' \in [Keys -> Pages \cup {Top}]
      BY <1>0, <1>1, SavedUnderType DEF Scrolls, TimerFires, navVars, scroll, NavTypeOK
    <2>. QED BY <1>0, <2>1, <2>2 DEF NavTold, NavTypeOK, NavigationsAreTold
  <1>2. CASE Hashchange
    <2>1. /\ UNCHANGED <<shown, pos, saved, timer, navSeq, nav, left, crossed>> /\ claiming' = FALSE
      BY <1>2 DEF Hashchange, scroll
    <2>2. CASE UNCHANGED <<entries, place, entryKey, keys>>
      BY <1>0, <2>1, <2>2 DEF NavTold, NavTypeOK, NavigationsAreTold
    <2>3. ASSUME NEW k \in Keys, Fresh(k), entryKey' = k, ReplaceState(Location, k) PROVE NavTold'
      <3>1. entries' \in Seq(Entry) /\ place' \in DOMAIN entries' /\ keys' \in Keys
        BY <1>0, <2>3, HistoryFacts, HistoryTyped DEF Fresh
      <3>. QED BY <1>0, <2>1, <2>3, <3>1 DEF NavTold, NavTypeOK, NavigationsAreTold
    <2>. QED BY <1>2, <2>2, <2>3 DEF Hashchange, history
  <1>3. CASE FragmentLink
    <2> DEFINE es == Pushed(Location, NoKey)
    <2>1. /\ Popstate(es, place + 1) /\ place' = place + 1 /\ UNCHANGED <<shown, left>>
          /\ claiming' \in BOOLEAN /\ crossed' \in BOOLEAN
      BY <1>0, <1>3 DEF FragmentLink, CrossedIf, NavTypeOK
    <2>2. es \in Seq(Entry) /\ place + 1 \in DOMAIN es
      <3>1. NoKey \in Keys \cup {NoKey} /\ Location \in Pages /\ place + 1 \in 1 .. place + 1
        BY <1>0, HistoryFacts
      <3>. QED BY <1>0, <3>1, PushedFacts
    <2>. HIDE DEF es
    <2>. QED BY <2>1, <2>2, PopstateTyped
  <1>4. ASSUME NEW i \in 1 .. MaxEntries, Traverses(i) PROVE NavTold'
    <2>1. /\ i \in DOMAIN entries /\ place' = i /\ Popstate(entries, i) /\ UNCHANGED <<shown, left>>
          /\ claiming' \in BOOLEAN /\ crossed' \in BOOLEAN /\ entries \in Seq(Entry)
      BY <1>0, <1>4 DEF Traverses, CrossedIf, NavTypeOK
    <2>. QED BY <2>1, PopstateTyped
  <1>5. /\ nav \in [1 .. MaxNavs -> NavState] /\ Others(nav)
        /\ entries \in Seq(Entry) /\ place \in DOMAIN entries
        /\ NoKey \in Keys \cup {NoKey} /\ FALSE \in BOOLEAN
    BY <1>0 DEF NavTypeOK, Others
  <1>6. ASSUME NEW to \in Pages, Clicks(to) PROVE NavTold'
    <2>1. PICK push \in {"push", "replace"} : Navigate(nav, to, push, FALSE, NoKey, NoForm)
      BY <1>6 DEF Clicks
    <2>2. /\ UNCHANGED <<entries, place>> /\ crossed' \in BOOLEAN
          /\ UNCHANGED <<entryKey, shown, scroll, keys, claiming, left>>
      BY <1>6 DEF Clicks, history, CrossedIf
    <2>3. push \in {"push", "replace", "none"} /\ push # "none" /\ NoForm \in PostForms \cup {NoForm}
      OBVIOUS
    <2>. QED BY <1>5, <2>1, <2>2, <2>3, BeginningTyped
  <1>7. ASSUME NEW to \in Pages, NEW f \in PostForms, Submits(f, to) PROVE NavTold'
    <2>1. /\ Navigate(nav, to, "push", FALSE, NoKey, f)
          /\ UNCHANGED <<entries, place>> /\ crossed' \in BOOLEAN
          /\ UNCHANGED <<entryKey, shown, scroll, keys, claiming, left>>
      BY <1>7 DEF Submits, history, CrossedIf
    <2>2. "push" \in {"push", "replace", "none"} /\ "push" # "none" /\ f \in PostForms \cup {NoForm}
      OBVIOUS
    <2>. QED BY <1>5, <2>1, <2>2, BeginningTyped
  <1>8. ASSUME NEW n \in 1 .. MaxNavs, Superseded(n) \/ Leaves(n) \/ TooLarge(n) \/ Paints(n) PROVE NavTold'
    BY <1>8, EndsTyped
  <1>9. ASSUME NEW n \in 1 .. MaxNavs, Shows(n) \/ ActionRenders(n) PROVE NavTold'
    BY <1>9, RendersTyped
  <1>10. ASSUME NEW n \in 1 .. MaxNavs, NEW dest \in Pages, Redirects(n, dest) PROVE NavTold'
    BY <1>10, RedirectsTyped
  <1>. QED BY <1>1, <1>2, <1>3, <1>4, <1>6, <1>7, <1>8, <1>9, <1>10 DEF NavNext

\* Whenever nothing is on its way the page on screen, the address, the history
\* entry and the key that positions are saved under belong together, for any
\* pages, forms and number of navigations: what was overtaken leaves none
\* without the others (navigate, submitForm and the popstate handler of
\* runtime.ts).  It holds up to the moments the code does not provide for: back
\* or forward to the page on screen with another on its way, and a refresh, a
\* submission or a fragment from a screen that is behind the address.
THEOREM ScreenAndHistoryAgree == NavSpec => []ScreenMatchesHistory
  <1>1. NavInit => NavKept
    BY NavStarts DEF NavKept, NavInv
  <1>2. NavKept /\ [NavNext]_navVars => NavKept'
    <2> SUFFICES ASSUME NavKept, [NavNext]_navVars PROVE NavKept'
      OBVIOUS
    <2>1. NavTold'
      BY NavStepKeepsNavTold DEF NavKept
    <2>2. CASE crossed'
      BY <2>1, <2>2 DEF NavKept
    <2>3. CASE ~crossed'
      <3>1. ~crossed
        BY <2>3, CrossedStays DEF NavKept, NavTold
      <3>. QED BY <2>1, <2>3, <3>1, NavStepKeepsNavInv DEF NavKept
    <2>. QED BY <2>2, <2>3
  <1>3. NavInv => ShownIsLocated /\ KeysAreTheirOwn /\ KeyIsCurrent
    <2> SUFFICES ASSUME NavInv PROVE ShownIsLocated /\ KeysAreTheirOwn /\ KeyIsCurrent
      OBVIOUS
    <2>1. NavTypeOK /\ EntriesHaveKeys /\ ScreenFollowsAddress
      BY DEF NavInv, NavTold
    <2>2. KeysAreTheirOwn
      BY <2>1 DEF EntriesHaveKeys, KeysAreTheirOwn
    <2>3. AtRest => ~left /\ ~Arriving /\ ~Departing
      <3>1. navSeq > 0 => navSeq \in 1 .. MaxNavs
        BY <2>1, HistoryFacts DEF NavTypeOK
      <3>. QED BY <3>1 DEF AtRest, Arriving, Departing, Loading
    <2>4. ShownIsLocated /\ KeyIsCurrent
      BY <2>1, <2>3 DEF ShownIsLocated, KeyIsCurrent, ScreenFollowsAddress, Together
    <2>. QED BY <2>2, <2>4
  <1>4. NavKept => ScreenMatchesHistory
    BY <1>3 DEF NavKept, NavTold, ScreenMatchesHistory
  <1>. QED BY <1>1, <1>2, <1>4, PTL DEF NavSpec
=============================================================================
