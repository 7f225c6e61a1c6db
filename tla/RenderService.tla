--------------------------- MODULE RenderService ---------------------------
(***************************************************************************)
(* One request in the render service: the doors of serve() in server.ts,   *)
(* the decision of middleware.ts in front of them (page-middleware.ts),    *)
(* and the documents, props and actions of util.ts. The service keeps      *)
(* nothing between requests, so one at a time shows all of it; the page's  *)
(* own code answers, throws or redirects as it pleases, the api sets       *)
(* cookies on the way, and the client may hang up at any step.             *)
(***************************************************************************)
EXTENDS PagePaths, FiniteSets

CONSTANTS
    Apps,          \* [patterns: the pages in the order of the manifest, matcher: the entries
                   \*  of middleware.ts, acts: the pages with an action]
    Paths,         \* what a browser may ask for
    Targets,       \* what middleware.ts may rewrite to
    Modes,         \* [dev, page404, page500]: a dev server or not, and the error pages of the app
    None

ASSUME RenderAssumption ==
    /\ \A a \in Apps :
          /\ a.patterns \in Seq(Seq(STRING)) /\ a.acts \subseteq DOMAIN a.patterns
          /\ \A entry \in a.matcher : entry \in Seq(STRING) /\ IsEntry(entry)
    /\ \A p \in Paths : p \in Seq(Segment)

VARIABLES
    app,         \* the pages, the matcher and the actions of the app
    mode,        \* how it is served
    req,         \* the request, or None
    at,          \* where its handler is
    path,        \* the path it is served for: rewrite() changes it
    guard,       \* what middleware.ts said: "unasked", "passed" or "answered"
    work,        \* whom the loader or the render in progress is for
    ran,         \* the page's own code that ran
    cookies,     \* those the api set, by whom it was called
    kept,        \* those the handler still holds
    saw,         \* the cookies in the jar a loader was given
    gone,        \* the client hung up
    answer       \* the response, or None

renderVars == <<app, mode, req, at, path, guard, work, ran, cookies, kept, saw, gone, answer>>
asked == <<app, mode, req>>
memory == <<cookies, kept, saw>>

\* A post of the runtime asks for json; the front asks for shared copies.
Doors == {"stranger", "routes", "document", "props", "shared", "post", "enhanced", "put"}
Posts == {"post", "enhanced"}
Requests == [door : Doors, path : Paths, token : BOOLEAN, fits : BOOLEAN]

Page == MatchRoute(path, app.patterns)
Policies == Shared(app.patterns, DOMAIN app.patterns, app.matcher)

RenderInit ==
    /\ app \in Apps
    /\ mode \in Modes
    /\ req = None /\ at = "idle" /\ path = <<>>
    /\ guard = "unasked" /\ work = "nothing" /\ ran = {}
    /\ cookies = {} /\ kept = {} /\ saw = {}
    /\ gone = FALSE /\ answer = None

\* The front asks for a copy of a page it may share, and of nothing else.
FrontAsks(r) ==
    /\ r.door = "shared" => MatchRoute(r.path, app.patterns) \in Policies
    /\ r.door \notin Posts => r.token /\ r.fits

Arrive ==
    /\ at = "idle"
    /\ \E r \in Requests : FrontAsks(r) /\ req' = r /\ path' = r.path
    /\ at' = "key"
    /\ UNCHANGED <<app, mode, guard, work, ran, memory, gone, answer>>

HangUp ==
    /\ req # None /\ at # "answered" /\ ~gone
    /\ gone' = TRUE
    /\ UNCHANGED <<asked, at, path, guard, work, ran, memory, answer>>

-----------------------------------------------------------------------------
\* How a handler ends: a response, and the cookies that ride out on it.

Response(status, as, mark, rides) ==
    [status |-> status, as |-> as, mark |-> mark, cookies |-> rides]
Redirect == "redirect"
Json == "json"

Sends(response) == at' = "answered" /\ answer' = response
GoesTo(step, whom) == at' = step /\ work' = whom /\ UNCHANGED answer

Enhanced == req.door = "enhanced"
Marked(mark) == IF Enhanced THEN mark ELSE "none"

\* A response of the app's own, as it is. A Location the runtime has to read
\* travels as json.
Own == {Redirect, "own"}
StatusOf(own) == IF own = Redirect THEN 303 ELSE 200
AsData(own, mark, rides) ==
    IF own = Redirect THEN Response(200, Json, mark, rides)
                      ELSE Response(StatusOf(own), own, "none", rides)

\* What serve() makes of an error that reached it, with no cookie in hand.
Errors ==
    IF gone THEN Sends(Response(499, "nothing", "none", {})) /\ UNCHANGED work
    ELSE IF mode.dev THEN Sends(Response(500, "overlay", "none", {})) /\ UNCHANGED work
    ELSE IF mode.page500 THEN GoesTo("render", "500")
    ELSE Sends(Response(500, "text", "none", {})) /\ UNCHANGED work

\* slip: the enhanced answer is the document alone.
RidesOnDocument(held) == IF Enhanced THEN {} ELSE held
Rides(held) == held

\* What runAction makes of one of its own: a client that is gone, and a native
\* post that has no cookie to lose, are serve()'s.
ActionErrors(held) ==
    IF gone \/ (~Enhanced /\ held = {}) THEN Errors
    ELSE IF mode.dev THEN Sends(Response(500, "overlay", Marked("raw"), Rides(held))) /\ UNCHANGED work
    ELSE IF mode.page500 THEN GoesTo("render", "action 500")
    ELSE Sends(Response(500, "text", Marked("raw"), Rides(held))) /\ UNCHANGED work

\* The same of whoever asked for the loader or the render that threw: an error
\* page that throws is answered in plain text.
Thrown(held) ==
    CASE work \in {"envelope", "native"} -> ActionErrors(held)
      [] work = "action 500"             -> Sends(Response(500, "text", Marked("raw"), Rides(held))) /\ UNCHANGED work
      [] work = "500"                    -> Sends(Response(500, "text", "none", {})) /\ UNCHANGED work
      [] OTHER                           -> Errors

-----------------------------------------------------------------------------
\* fetch(): the key, one spelling per path, what the front asks for itself.

Forbidden ==
    /\ at = "key" /\ req.door = "stranger"
    /\ Sends(Response(403, "text", "none", {}))
    /\ UNCHANGED <<asked, path, guard, work, ran, memory, gone>>

Respelled ==
    /\ at = "key" /\ req.door # "stranger"
    /\ CanonicalPath(path) # path
    /\ Sends(Response(308, "location", "none", {}))
    /\ UNCHANGED <<asked, path, guard, work, ran, memory, gone>>

Declares ==
    /\ at = "key" /\ req.door = "routes" /\ CanonicalPath(path) = path
    /\ Sends(Response(200, "policies", "none", {}))
    /\ UNCHANGED <<asked, path, guard, work, ran, memory, gone>>

Admits ==
    /\ at = "key" /\ req.door \notin {"stranger", "routes"} /\ CanonicalPath(path) = path
    /\ at' = "guard"
    /\ UNCHANGED <<asked, path, guard, work, ran, memory, gone, answer>>

\* middleware.ts, in front of every door of a page.
\* slip: in front of the documents.
CoveredDocuments == req.door # "props" /\ Covers(app.matcher, path)
Covered == Covers(app.matcher, path)

GuardSkips ==
    /\ at = "guard" /\ ~Covered
    /\ at' = "door"
    /\ UNCHANGED <<asked, path, guard, work, ran, memory, gone, answer>>

\* next(), or rewrite() to another page of this app, which is not asked about
\* again.
GuardPasses ==
    /\ at = "guard" /\ Covered
    /\ at' = "door"
    /\ guard' = "passed"
    /\ path' \in {path} \cup Targets      \* rewriting a page to itself is next() here
    /\ UNCHANGED <<asked, work, ran, memory, gone, answer>>

AnsweredForDoor(own) ==
    CASE req.door = "props" -> AsData(own, "none", {})
      [] Enhanced           -> AsData(own, "action", {})
      [] OTHER              -> Response(StatusOf(own), own, "none", {})

GuardAnswers ==
    /\ at = "guard" /\ Covered
    /\ guard' = "answered"
    /\ \E own \in Own : Sends(AnsweredForDoor(own))
    /\ UNCHANGED <<asked, path, work, ran, memory, gone>>

GuardThrows ==
    /\ at = "guard" /\ Covered
    /\ guard' = "answered"
    /\ Errors
    /\ UNCHANGED <<asked, path, ran, memory, gone>>

-----------------------------------------------------------------------------
\* The doors.

Post ==
    /\ at = "door" /\ req.door \in Posts
    /\ IF Page \in app.acts THEN GoesTo("body", "action")
       ELSE Sends(IF Enhanced /\ Page # 0 THEN Response(405, Json, "action", {})
                                          ELSE Response(405, "text", "none", {})) /\ UNCHANGED work
    /\ UNCHANGED <<asked, path, guard, ran, memory, gone>>

NotAllowed ==
    /\ at = "door" /\ req.door = "put"
    /\ Sends(Response(405, "text", "none", {}))
    /\ UNCHANGED <<asked, path, guard, work, ran, memory, gone>>

ReadDoors == {"document", "props", "shared"}

NotFound ==
    /\ at = "door" /\ req.door \in ReadDoors /\ Page = 0
    /\ CASE req.door = "props" -> Sends(Response(404, Json, "none", {})) /\ UNCHANGED work
         [] req.door # "props" /\ mode.page404 -> GoesTo("render", "404")
         [] OTHER -> Sends(Response(404, "text", "none", {})) /\ UNCHANGED work
    /\ UNCHANGED <<asked, path, guard, ran, memory, gone>>

Read ==
    /\ at = "door" /\ req.door \in ReadDoors /\ Page # 0
    /\ GoesTo("loader", req.door)
    /\ UNCHANGED <<asked, path, guard, ran, memory, gone>>

\* The body is measured before the token in it is looked for.
BodyTooLarge ==
    /\ at = "body" /\ ~req.fits
    /\ Sends(Response(413, "text", "none", {}))
    /\ UNCHANGED <<asked, path, guard, work, ran, memory, gone>>

CsrfRejects ==
    /\ at = "body" /\ req.fits
    /\ ~req.token /\ ~mode.dev
    /\ Sends(Response(403, IF Enhanced THEN Json ELSE "text", Marked("action"), {}))
    /\ UNCHANGED <<asked, path, guard, work, ran, memory, gone>>

ActionStarts ==
    /\ at = "body" /\ req.fits
    /\ req.token \/ mode.dev
    /\ at' = "action"
    /\ UNCHANGED <<asked, path, guard, work, ran, memory, gone, answer>>

-----------------------------------------------------------------------------
\* Page code: it may have the api set cookies, whatever becomes of it then.

CallsGo(who) == cookies' \in {cookies, cookies \cup {who}}

\* freshCookieRequest: the loader after an action has the jar the action left.
FreshJar == kept

ActionResponds ==
    /\ at = "action"
    /\ CallsGo("action") /\ kept' = cookies'
    /\ ran' = ran \cup {"action"}
    /\ \E own \in {Redirect, "html", "own"} :
         Sends(CASE Enhanced /\ own = Redirect -> Response(200, Json, "action", cookies')
                 [] Enhanced /\ own = "html"   -> Response(200, own, "raw", cookies')
                 [] OTHER                      -> Response(StatusOf(own), own, "none", cookies'))
    /\ UNCHANGED <<asked, path, guard, work, saw, gone>>

ActionReturns ==
    /\ at = "action"
    /\ CallsGo("action") /\ kept' = cookies'
    /\ ran' = ran \cup {"action"}
    /\ GoesTo("loader", IF Enhanced THEN "envelope" ELSE "native")
    /\ UNCHANGED <<asked, path, guard, saw, gone>>

ActionThrows ==
    /\ at = "action"
    /\ CallsGo("action") /\ kept' = cookies'
    /\ ran' = ran \cup {"action"}
    /\ ActionErrors(kept')
    /\ UNCHANGED <<asked, path, guard, saw, gone>>

\* A loader's cookies are held by who called it: renderPage has a list of its
\* own, which an error does not bring back.
LoaderCalled ==
    /\ at = "loader"
    /\ CallsGo("loader")
    /\ ran' = ran \cup {"loader"}
    /\ saw' = FreshJar

Data == {"props", "envelope"}

LoaderReturns ==
    /\ LoaderCalled
    /\ kept' = cookies'
    /\ IF work \in Data
       THEN Sends(Response(200, Json, Marked("action"), cookies')) /\ UNCHANGED work
       ELSE GoesTo("render", work)
    /\ UNCHANGED <<asked, path, guard, gone>>

LoaderResponds ==
    /\ LoaderCalled
    /\ kept' = cookies'
    /\ \E own \in Own :
         Sends(IF work \in Data THEN AsData(own, Marked("action"), cookies')
                                ELSE Response(StatusOf(own), own, "none", cookies'))
    /\ UNCHANGED <<asked, path, guard, work, gone>>

LoaderThrows ==
    /\ LoaderCalled
    /\ kept' = IF work = "envelope" THEN cookies' ELSE kept
    /\ Thrown(kept')
    /\ UNCHANGED <<asked, path, guard, gone>>

-----------------------------------------------------------------------------
\* renderPage, from the props on.
DocumentStatus == CASE work = "404" -> 404 [] work \in {"500", "action 500"} -> 500 [] OTHER -> 200

\* Only the caller that knows of them hands its cookies to the render.
Held == IF work = "500" THEN {} ELSE Rides(kept)

Document == Response(DocumentStatus, "html", IF work = "action 500" THEN Marked("raw") ELSE "none", Held)

\* The stream goes out.
Renders ==
    /\ at = "render"
    /\ ran' = IF work \in {"500", "action 500"} THEN ran ELSE ran \cup {"render"}
    /\ Sends(Document)
    /\ UNCHANGED <<asked, path, guard, work, memory, gone>>

\* Props that do not serialize, a component that throws. The cookies of the
\* render's own loader go with it.
RenderThrows ==
    /\ at = "render"
    /\ kept' = IF work = "native" THEN kept \ {"loader"} ELSE kept
    /\ ran' = IF work \in {"500", "action 500"} THEN ran ELSE ran \cup {"render"}
    /\ Thrown(kept')
    /\ UNCHANGED <<asked, path, guard, cookies, saw, gone>>

-----------------------------------------------------------------------------
Enters == Arrive \/ Forbidden \/ Respelled \/ Declares \/ Admits
Guards == GuardSkips \/ GuardPasses \/ GuardAnswers \/ GuardThrows
Door == Post \/ NotAllowed \/ NotFound \/ Read \/ BodyTooLarge \/ CsrfRejects \/ ActionStarts
PageCode ==
    \/ ActionResponds \/ ActionReturns \/ ActionThrows
    \/ LoaderReturns \/ LoaderResponds \/ LoaderThrows
    \/ Renders \/ RenderThrows

RenderNext == Enters \/ Guards \/ Door \/ PageCode \/ HangUp

RenderSpec == RenderInit /\ [][RenderNext]_renderVars

-----------------------------------------------------------------------------
\* No code of a page that the matcher covers runs before middleware.ts let the
\* request through, on whichever door (server.ts 580: "a guard on two doors of
\* three is not a guard").
GuardedDoors == ran # {} /\ Covers(app.matcher, req.path) => guard = "passed"

\* The front answers a copy without asking: no page that has copies answers a
\* path under the guard, and when the page of the unknown is taken for free, no
\* unknown path is under it either (what export writes to a file).
CopiesPassNoGuard ==
    /\ \A p \in Paths : MatchRoute(CanonicalPath(p), app.patterns) \in Policies =>
            ~Covers(app.matcher, CanonicalPath(p))
    /\ ~GuardsUnknown(app.matcher, app.patterns) =>
            \A p \in Paths : MatchRoute(CanonicalPath(p), app.patterns) = 0 => ~Covers(app.matcher, CanonicalPath(p))

\* Who logged in by an action is logged in: the loader that follows sees it, and
\* the cookie reaches the browser on whatever is answered, an error included
\* (util.ts 1207: "an action that logged in through go and then threw must not
\* drop the session cookie").
LoginsAreKept ==
    /\ work \in {"envelope", "native"} /\ "loader" \in ran /\ "action" \in cookies => "action" \in saw
    /\ at = "answered" /\ ~gone /\ "action" \in cookies => "action" \in answer.cookies

\* util.ts 786: "set-cookies collected from the api ride out on whatever
\* response ends the request". It does not hold of a loader that throws: the
\* cookies it had been given are lost with its error.
CookiesRideOut == at = "answered" /\ ~gone => cookies \subseteq answer.cookies

\* The runtime never meets a redirect it did not ask for by name: it reads props
\* and enhanced answers as data, whoever redirected.
RuntimeReadsRedirects ==
    at = "answered" /\ req.door \in {"props", "enhanced"} => answer.as # Redirect

\* A guard stands before every door: the render service's three, the front's
\* copies, and what the runtime reads in place of a redirect.
DoorsHold == GuardedDoors /\ CopiesPassNoGuard /\ RuntimeReadsRedirects
==============================================================================
