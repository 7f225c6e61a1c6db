---------------------------- MODULE StaticExport ----------------------------
(***************************************************************************)
(* borgo export, from its plan to dist/site (packages/borgo/src/export.ts): *)
(* which pages may be files, the api it boots for their loaders, the paths  *)
(* a dynamic page lists, each page fetched from the render service and      *)
(* written under its stage, the stage put in the place of the last site.    *)
(* Anything may fail on the way. Another command in the same directory, and *)
(* a command that is killed, are Workspace's; public/ is AssetServing's.    *)
(***************************************************************************)
EXTENDS PagePaths, FiniteSets, FiniteSetsExt

CONSTANTS
    ExportApps,     \* what may be exported, see ExportAssumption
    Coded,          \* the names encodeURIComponent changes
    Unsafe,         \* the values unsafeParamReason refuses
    Begins,         \* pairs of names: the second begins with the first
    LocalPorts, ShellPort,
    EarlierSites    \* what an earlier export of the app may have left

\* pages: in the order of the manifest, their patterns made of the names of
\* directories; lists: what prerenderPaths returns, a sequence of parameter
\* sets, in a set which is empty when there is none.
\* matcher: of middleware.ts. guard: of api/middleware.go.
ASSUME ExportAssumption ==
    /\ ShellPort \notin LocalPorts
    /\ {"", ".", ".."} \subseteq Unsafe
    /\ \A a \in ExportApps :
          /\ a.page404 \in {"none", "plain", "loads", "prerendered"}
          /\ a.guard.present \in BOOLEAN
          /\ \A e \in a.guard.entries : e.form \in {"exact", "below", "prefix"}
          /\ \A entry \in a.matcher : entry \in Seq(STRING)
          /\ a.pages \in Seq(Range(a.pages))
          /\ \A page \in Range(a.pages) :
                /\ page.pattern \in Seq(STRING \ {"", ".", ".."})
                /\ Cardinality(page.lists) <= 1
                /\ \A sets \in page.lists : sets \in Seq(Range(sets))

VARIABLES
    exported,       \* the app
    exportStep,           \* where the command is
    unlisted,       \* the planned pages whose paths are still to be listed
    listed,         \* the paths prerenderPaths gave so far
    queue,          \* the paths to render
    stage, site,    \* the files: the page rendered into each, 0 for the 404 page
    failures,
    api,            \* none, booting, up or exited
    bin,            \* the binary of the api is on disk
    ports,          \* what was picked for the api, for nobody, and for the renders
    pushed,         \* the ports a loader's push has reached
    before,         \* the site when the command began
    trouble,        \* something failed that is not the export's doing
    exportCode            \* how the command ended

exportVars == <<exported, exportStep, unlisted, listed, queue, stage, site, failures, api, bin, ports,
                pushed, before, trouble, exportCode>>
plan == <<unlisted, listed, queue>>
processes == <<api, bin, ports, pushed>>
fixed == <<exported, before>>

NoFiles == <<>>
NoPorts == [api |-> ShellPort, front |-> ShellPort, render |-> ShellPort]

ExportInit ==
    /\ exported \in ExportApps
    /\ exportStep = "plans" /\ unlisted = {} /\ listed = {} /\ queue = <<>>
    /\ stage = NoFiles /\ site \in EarlierSites /\ before = site
    /\ failures = 0 /\ api = "none" /\ bin = FALSE /\ ports = NoPorts /\ pushed = {}
    /\ trouble = FALSE /\ exportCode = 0

-----------------------------------------------------------------------------
\* goGuard: the Matcher of api/middleware.go covers all when it is empty, and
\* when borgogen could not read it.

GoMatches(entry, names) ==
    LET n == Len(entry.path)
        top == SubSeq(names, 1, n)
    IN CASE entry.form = "exact"  -> names = entry.path
         [] entry.form = "below"  -> Len(names) >= n /\ top = entry.path
         [] entry.form = "prefix" -> /\ Len(names) >= n /\ Front(top) = Front(entry.path)
                                     /\ <<Last(entry.path), Last(top)>> \in Begins

GoGuard(names) ==
    /\ exported.guard.present
    /\ exported.guard.entries = {} \/ \E e \in exported.guard.entries : GoMatches(e, names)

-----------------------------------------------------------------------------
\* Paths.

Page(i) == exported.pages[i]
PagePatterns == [i \in DOMAIN exported.pages |-> Page(i).pattern]
Params(pattern) == {i \in DOMAIN pattern : pattern[i] = Param}
Dynamic(i) == Params(Page(i).pattern) # {}

AsIs(names) == [i \in DOMAIN names |-> [name |-> names[i], form |-> "plain"]]
Encoded(name) == [name |-> name, form |-> IF name \in Coded THEN "coded" ELSE "plain"]

\* One segment deeper than the deepest page.
NotFoundProbe ==
    [i \in 1 .. 1 + Max({Len(Page(j).pattern) : j \in DOMAIN exported.pages}) |-> "probe"]

\* fillPattern throws on a value that is missing or that no directory can have.
CanFill(pattern, values) ==
    Params(pattern) \subseteq DOMAIN values /\ \A i \in Params(pattern) : values[i] \notin Unsafe
FillPattern(pattern, values) ==
    [i \in DOMAIN pattern |-> IF pattern[i] = Param THEN Encoded(values[i]) ELSE AsIs(pattern)[i]]

\* Segments decode on disk: a static host decodes a path before it looks.
OutputPath(p) == Names(p)

\* What a url, and a file system, make of dot segments and of empty ones.
Located(names) ==
    FoldLeft(LAMBDA dir, n : CASE n \in {"", "."} -> dir
                               [] n = ".." -> IF dir = <<>> THEN dir ELSE Front(dir)
                               [] OTHER -> Append(dir, n), <<>>, names)

Answers(p) == MatchRoute(AsIs(Located(Names(p))), PagePatterns)

-----------------------------------------------------------------------------
\* planExport, then what api/middleware.go guards.

Plannable(i) ==
    /\ ~GuardsRoute(exported.matcher, Page(i).pattern) /\ ~Page(i).revalidate
    /\ Page(i).loader => Page(i).prerender
    /\ Dynamic(i) => Page(i).lists # {}
Plans == {i \in DOMAIN exported.pages :
              Plannable(i) /\ (Dynamic(i) \/ ~GoGuard(Page(i).pattern))}
Plannable404 ==
    exported.page404 \in {"plain", "prerendered"} /\ ~GuardsUnknown(exported.matcher, PagePatterns)
Export404 == Plannable404 /\ ~GoGuard(NotFoundProbe)
NeedApi ==
    \/ \E i \in DOMAIN exported.pages : Plannable(i) /\ (Page(i).loader \/ Page(i).lists # {})
    \/ Plannable404 /\ exported.page404 = "prerendered"

\* Bound together before any is let go, so they are three; PORT is the one
\* that nobody will listen on.
FreePorts(free) == {q \in [{"api", "front", "render"} -> free] :
    Cardinality({q["api"], q["front"], q["render"]}) = 3}

NothingExportable ==
    /\ exportStep = "plans" /\ Plans = {} /\ ~Export404
    /\ exportStep' = "done" /\ exportCode' = 1 /\ trouble' = TRUE
    /\ UNCHANGED <<fixed, plan, stage, site, failures, processes>>

Plan ==
    /\ exportStep = "plans" /\ (Plans # {} \/ Export404)
    /\ unlisted' = Plans /\ listed' = {} /\ queue' = <<>>
    /\ \E q \in FreePorts(LocalPorts) :
          ports' = [api |-> q["api"], front |-> q["front"], render |-> q["render"]]
    /\ exportStep' = IF NeedApi THEN "builds" ELSE "lists"
    /\ UNCHANGED <<fixed, stage, site, failures, api, bin, pushed, trouble, exportCode>>

-----------------------------------------------------------------------------
\* Leaving the try, by a return or by a throw: what was started is ended.

Cleans == TRUE

\* Windows lets a binary go some time after its process: tried again.
RemovesBin == bin' = FALSE
Finally ==
    IF Cleans THEN /\ api' = "none" /\ RemovesBin /\ stage' = NoFiles
              ELSE UNCHANGED <<api, bin, stage>>

GivesUp ==
    /\ exportStep' = "done" /\ exportCode' = 1 /\ trouble' = TRUE /\ Finally
    /\ UNCHANGED <<fixed, plan, site, failures, ports, pushed>>

\* A build that dies may have left its file.
BuildFails == exportStep = "builds" /\ GivesUp
BuildsApi ==
    /\ exportStep = "builds" /\ exportStep' = "boots" /\ bin' = TRUE /\ api' = "booting"
    /\ UNCHANGED <<fixed, plan, stage, site, failures, ports, pushed, trouble, exportCode>>

ApiAnswers ==
    /\ exportStep = "boots" /\ api = "booting" /\ api' = "up" /\ exportStep' = "lists"
    /\ UNCHANGED <<fixed, plan, stage, site, failures, bin, ports, pushed, trouble, exportCode>>
\* At its boot, or at any time after it.
ApiExits ==
    /\ api \in {"booting", "up"} /\ api' = "exited" /\ trouble' = TRUE
    /\ UNCHANGED <<fixed, exportStep, plan, stage, site, failures, bin, ports, pushed, exportCode>>
\* It has exited, or thirty seconds went by.
ApiNeverAnswered == exportStep = "boots" /\ GivesUp

-----------------------------------------------------------------------------
\* prerenderPaths, one page after the other in the order of the manifest.

\* slip: the guard is asked about the path as it is fetched.
GuardAsFetched(p) == GoGuard([i \in DOMAIN p |-> IF p[i].form = "coded" THEN "coded" ELSE p[i].name])
GuardOfPath(p) == GoGuard(Names(p))

PathsOf(i) ==
    LET sets == CHOOSE s \in Page(i).lists : TRUE
    IN [k \in DOMAIN sets |-> FillPattern(Page(i).pattern, sets[k])]
Fillable(i) == \A s \in Page(i).lists : \A k \in DOMAIN s : CanFill(Page(i).pattern, s[k])

\* The same parameters twice are one page.
ListsPath(paths, p) ==
    IF p \in paths.seen THEN paths
    ELSE [seen |-> paths.seen \cup {p},
          open |-> IF GuardOfPath(p) THEN paths.open ELSE Append(paths.open, p)]

Listing(i) == exportStep = "lists" /\ i \in unlisted /\ \A j \in unlisted : i <= j

ListsPage ==
    /\ \E i \in unlisted :
        /\ Listing(i) /\ unlisted' = unlisted \ {i}
        /\ IF ~Dynamic(i)
           THEN queue' = Append(queue, AsIs(Page(i).pattern)) /\ UNCHANGED listed
           ELSE LET paths == FoldLeft(ListsPath, [seen |-> listed, open |-> queue], PathsOf(i))
                IN Fillable(i) /\ queue' = paths.open /\ listed' = paths.seen
    /\ UNCHANGED <<fixed, exportStep, stage, site, failures, processes, trouble, exportCode>>

\* It throws, or it gives a value no path can have.
ListFails == (\E i \in unlisted : Listing(i) /\ Dynamic(i)) /\ GivesUp

Stages ==
    /\ exportStep = "lists" /\ unlisted = {} /\ exportStep' = "renders" /\ stage' = NoFiles
    /\ UNCHANGED <<fixed, plan, site, failures, processes, trouble, exportCode>>

-----------------------------------------------------------------------------
\* The renders, one at a time.

File(p) == Located(OutputPath(p))
WithFile(file, i) == [f \in DOMAIN stage \cup {file} |-> IF f = file THEN i ELSE stage[f]]

\* Whether a loader that pushes finds somebody: the export's own processes,
\* or whoever has the port of the shell.
Pushes == pushed' = pushed \cup ({ports.front} \cap {ports.api, ports.render, ShellPort})
Runs(i) == i # 0 /\ Page(i).loader

Rendered ==
    /\ exportStep = "renders" /\ queue # <<>> /\ queue' = Tail(queue)
    /\ LET p == Head(queue)
           i == Answers(p)
       IN /\ i # 0 /\ (Runs(i) => api = "up")
          /\ stage' = WithFile(File(p), i)
          /\ IF Runs(i) THEN Pushes ELSE UNCHANGED pushed
    /\ UNCHANGED <<fixed, exportStep, unlisted, listed, site, failures, api, bin, ports, trouble, exportCode>>

\* No page answers; or the page did not render; a guard sent it elsewhere; or
\* it carries a token or a nonce of the request it was rendered for.
NotRendered ==
    /\ exportStep = "renders" /\ queue # <<>> /\ queue' = Tail(queue)
    /\ failures' = failures + 1 /\ trouble' = (trouble \/ Answers(Head(queue)) # 0)
    /\ UNCHANGED <<fixed, exportStep, unlisted, listed, stage, site, processes, exportCode>>

Asks404 == exportStep = "renders" /\ queue = <<>> /\ Export404 /\ exportStep' = "copies"
Probed == Answers(AsIs(NotFoundProbe))
Rendered404 ==
    /\ Asks404 /\ Probed = 0 /\ (exported.page404 = "prerendered" => api = "up")
    /\ stage' = WithFile(<<"404.html">>, 0)
    /\ UNCHANGED <<fixed, plan, site, failures, processes, trouble, exportCode>>
NotRendered404 ==
    /\ Asks404 /\ failures' = failures + 1 /\ trouble' = (trouble \/ Probed = 0)
    /\ UNCHANGED <<fixed, plan, stage, site, processes, exportCode>>
No404 ==
    /\ exportStep = "renders" /\ queue = <<>> /\ ~Export404 /\ exportStep' = "copies"
    /\ UNCHANGED <<fixed, plan, stage, site, failures, processes, trouble, exportCode>>

Publishes == failures = 0

EndsExport ==
    /\ exportStep = "copies" /\ exportStep' = "done"
    /\ site' = IF Publishes THEN stage ELSE site
    /\ exportCode' = IF failures = 0 THEN 0 ELSE 1
    /\ Finally
    /\ UNCHANGED <<fixed, plan, failures, ports, pushed, trouble>>

ExportNext ==
    \/ NothingExportable \/ Plan \/ BuildFails \/ BuildsApi
    \/ ApiAnswers \/ ApiExits \/ ApiNeverAnswered
    \/ ListsPage \/ ListFails \/ Stages
    \/ Rendered \/ NotRendered \/ Rendered404 \/ NotRendered404 \/ No404 \/ EndsExport

ExportSpec == ExportInit /\ [][ExportNext]_exportVars

-----------------------------------------------------------------------------
\* The paths an author asked for: the pages that may be files, and of a
\* dynamic one every set it lists, but for what api/middleware.go guards.
AskedFor ==
    {Page(i).pattern : i \in {j \in Plans : ~Dynamic(j)}} \cup
    UNION {{d \in {Names(PathsOf(i)[k]) : k \in DOMAIN PathsOf(i)} : ~GoGuard(d)} :
               i \in {j \in Plans : Dynamic(j)}}

\* dist/site is the last export that rendered whole (export.ts 407 and 548):
\* a command that ended well published a file for each page asked for, where
\* a static host finds it, and none that a guard covers; one that did not
\* left the site as it was, and something outside the export failed.
SiteIsTheLastWholeExport ==
    exportStep = "done" =>
        IF exportCode = 0
        THEN /\ DOMAIN site = AskedFor \cup (IF Export404 THEN {<<"404.html">>} ELSE {})
             /\ \A f \in DOMAIN site \ {<<"404.html">>} :
                   /\ site[f] = MatchRoute(AsIs(f), PagePatterns)
                   /\ ~GoGuard(f) /\ ~Covers(exported.matcher, AsIs(f))
        ELSE site = before /\ trouble

\* A command leaves nothing running and nothing behind, however it ends, and
\* no loader it ran has pushed to anybody (export.ts 380, 591).
KeepsToItself ==
    /\ pushed = {}
    /\ exportStep = "done" => api = "none" /\ ~bin /\ stage = NoFiles

\* An export that ends leaves a whole site or the one before, and nothing else.
ExportsAreWhole == SiteIsTheLastWholeExport /\ KeepsToItself
=============================================================================
