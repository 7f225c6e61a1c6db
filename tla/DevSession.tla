------------------------------ MODULE DevSession ------------------------------
(***************************************************************************)
(* `borgo dev` (dev.ts): a watcher that hears the saves of a developer,    *)
(* the rebuilds it queues, the two processes it keeps running (the go      *)
(* front and the render service, with what serve-entry.ts serves of a      *)
(* build that failed) and the tabs that are told (attachDevChannel in      *)
(* runtime.ts). Processes may die on their own at any moment, and a build  *)
(* may read a file before the watcher has heard of its save.               *)
(***************************************************************************)
EXTENDS Naturals, Sequences, FiniteSets

CONSTANTS
    Sources,      \* the files the developer edits
    Kind,         \* [Sources -> {"go", "page", "env", "style"}]
    Absent,
    MaxSaves,
    MaxTroubles   \* processes that die, boots that take too long, changes told twice

PageFiles == {f \in Sources : Kind[f] = "page"}
Styles == {f \in Sources : Kind[f] = "style"}
GoFiles == {f \in Sources : Kind[f] = "go"}
EnvFiles == {f \in Sources : Kind[f] = "env"}
GoSources == {f \in Sources : Kind[f] \in {"go", "env"}}

ASSUME DevAssumption ==
    /\ Kind \in [Sources -> {"go", "page", "env", "style"}]
    /\ Absent \notin Sources
    /\ MaxSaves \in Nat /\ MaxTroubles \in Nat

VARIABLES
    content,     \* what each file holds
    events,      \* files whose change the watcher has yet to hear of
    seen,        \* createContentDedup: the content each file was last heard with
    pending,     \* createChangeBatcher: the files of each side whose timer runs
    jobs,        \* the chain of rebuilds, the running one first
    stage,          \* where the running one is
    generated,   \* the text of env.ts that the go env package was last generated from
    built,       \* the sources the last go build compiled
    liveHash,    \* the hash of the binary that runs: the sources it is made of
    goProc,      \* the go front this session started, or None
    frontProc,   \* the render service it started, or None
    screen,      \* what a tab open on each page shows
    said,        \* what the terminal last said of each process that died, and what was saved since
    ahead,       \* history: files that the last build of a half read before their save was heard
    untold,      \* history: files whose change may have missed the tabs
    saves, troubles

devVars == <<content, events, seen, pending, jobs, stage, generated, built, liveHash, goProc, frontProc,
             screen, said, ahead, untold, saves, troubles>>
edited == <<content, events, seen, pending>>
procs == <<goProc, frontProc>>
words == <<ahead, untold>>
counters == <<saves, troubles>>

Texts == {"a", "b", "bad"}
Sides == {"api", "app", "css"}

Good(fs) == \A f \in fs : content[f] # "bad"
GoText == [f \in GoSources |-> content[f]]
\* the render service builds everything but the go sources, env.ts included
FrontSources == {f \in Sources : Kind[f] # "go"}
FrontText == [f \in FrontSources |-> content[f]]

\* None of what a file, a hash or a process may be is its absence.
ASSUME DevAbsentAssumption ==
    /\ Absent \notin Texts /\ Absent \notin [GoSources -> Texts]
    /\ Absent \notin [up : BOOLEAN, of : [GoSources -> Texts]]
    /\ Absent \notin [up : BOOLEAN, is : {"booting", "serving", "fallback"}, of : [FrontSources -> Texts],
                      changed : SUBSET Sources]

Up(proc) == proc # Absent /\ proc.up
Serving == Up(frontProc) /\ frontProc.is = "serving"
Booting == frontProc # Absent /\ frontProc.is = "booting"

\* A tab shows a page with its style, the overlay of an error, or the 503 of a
\* front whose render service is down.
Shows(p, text) == [is |-> "page", of |-> [f \in FrontSources \ (PageFiles \ {p}) |-> text[f]]]
Overlay == [is |-> "overlay"]
Unavailable == [is |-> "503"]

FrontOf(text, is, changed) == [up |-> TRUE, is |-> is, of |-> text, changed |-> changed]

DevInit ==
    /\ content = [f \in Sources |-> "a"]
    /\ events = {}
    /\ seen = [f \in Sources |-> Absent]
    /\ pending = [s \in Sides |-> {}]
    /\ jobs = <<>> /\ stage = "idle"
    /\ built = GoText /\ liveHash = GoText /\ generated = [f \in EnvFiles |-> content[f]]
    /\ goProc = [up |-> TRUE, of |-> GoText]
    /\ frontProc = FrontOf(FrontText, "serving", {})
    /\ screen = [p \in PageFiles |-> Shows(p, FrontText)]
    /\ said = [s \in {"api", "app"} |-> "nothing"]
    /\ ahead = [s \in {"api", "app"} |-> {}] /\ untold = {}
    /\ saves = 0 /\ troubles = 0

-----------------------------------------------------------------------------
\* Saves and what the watcher makes of them.

WatchedSide(f) == CASE Kind[f] = "go" -> "api" [] Kind[f] = "style" -> "css" [] OTHER -> "app"

\* slip: env.ts is the pages' environment and nothing else.
RebuildSidesOne(f) == {WatchedSide(f)}
RebuildSides(f) == {WatchedSide(f)} \cup (IF Kind[f] = "env" THEN {"api"} ELSE {})

\* A save after the terminal said what is down: of a file it names, or a style.
Answered(f) ==
    [s \in {"api", "app"} |->
        IF said[s] = "nothing" THEN "nothing"
        ELSE IF s \in RebuildSides(f) THEN "saved"
        ELSE IF s = "app" /\ Kind[f] = "style" /\ said[s] # "saved" THEN "styled"
        ELSE said[s]]

Save(f) ==
    /\ saves < MaxSaves
    /\ saves' = saves + 1
    /\ \E c \in Texts : content' = [content EXCEPT ![f] = c]
    /\ events' = events \cup {f}
    /\ said' = Answered(f)
    /\ UNCHANGED <<seen, pending, jobs, stage, generated, built, liveHash, procs, screen, words, troubles>>

Trouble == troubles < MaxTroubles /\ troubles' = troubles + 1 /\ UNCHANGED saves

\* Windows tells twice of one write.
Straggler(f) ==
    /\ Trouble /\ seen[f] # Absent
    /\ events' = events \cup {f}
    /\ UNCHANGED <<content, seen, pending, jobs, stage, generated, built, liveHash, procs, screen, said, words>>

Deduplicated(f) == Kind[f] # "style"
IsUnchanged(f) == Deduplicated(f) /\ seen[f] = content[f]

InWindow(side, f) == pending[side] \cup {f}

Hear(f) ==
    /\ f \in events
    /\ events' = events \ {f}
    /\ IF IsUnchanged(f) THEN UNCHANGED <<seen, pending>>
       ELSE /\ seen' = IF Deduplicated(f) THEN [seen EXCEPT ![f] = content[f]] ELSE seen
            /\ pending' = [s \in Sides |-> IF s \in RebuildSides(f) THEN InWindow(s, f) ELSE pending[s]]
    /\ UNCHANGED <<content, jobs, stage, generated, built, liveHash, procs, screen, said, words, counters>>

\* 100 ms without another file of this side.
Flush(side) ==
    /\ pending[side] # {}
    /\ jobs' = Append(jobs, [side |-> side, changed |-> pending[side]])
    /\ pending' = [pending EXCEPT ![side] = {}]
    /\ UNCHANGED <<content, events, seen, stage, generated, built, liveHash, procs, screen, said, words, counters>>

-----------------------------------------------------------------------------
\* The chain: one rebuild at a time.

Step(from, to) == jobs # <<>> /\ stage = from /\ stage' = to
JobEnds == stage' = "idle" /\ jobs' = Tail(jobs)

First(side) == CASE side = "api" -> "go build" [] side = "app" -> "front stops" [] OTHER -> "css poke"

Take ==
    /\ jobs # <<>> /\ stage = "idle"
    /\ stage' = First(Head(jobs).side)
    /\ UNCHANGED <<edited, jobs, generated, built, liveHash, procs, screen, said, words, counters>>

\* Files that are not as the watcher last heard them, when a build reads them.
\* Undone before it is heard, such a save is an echo to the dedup.
Early(fs) == {f \in fs : seen[f] \notin {content[f], Absent}}
Reads(half, fs) == ahead' = [ahead EXCEPT ![half] = Early(fs)]

\* borgogen, and go build whatever it met: an env.ts that is refused leaves the
\* go env package as it was.
Generates == generated' = [f \in EnvFiles |-> IF content[f] = "bad" THEN generated[f] ELSE content[f]]

\* The build goes to a scratch name while the old binary serves.
GoBuilds ==
    /\ Good(GoFiles)
    /\ Step("go build", "go swap")
    /\ Generates
    /\ built' = [f \in GoSources |-> IF f \in EnvFiles THEN generated'[f] ELSE content[f]]
    /\ Reads("api", GoSources)
    /\ UNCHANGED <<edited, jobs, liveHash, procs, screen, said, untold, counters>>

GoBuildFails ==
    /\ stage = "go build" /\ ~Good(GoFiles)
    /\ JobEnds
    /\ Generates
    /\ Reads("api", GoSources)
    /\ UNCHANGED <<edited, built, liveHash, procs, screen, said, untold, counters>>

SameBinary == built = liveHash /\ Up(goProc)

GoUnchanged ==
    /\ stage = "go swap" /\ SameBinary
    /\ JobEnds
    /\ UNCHANGED <<edited, generated, built, liveHash, procs, screen, said, words, counters>>

\* Detached, then killed: this exit is ours.
GoStops ==
    /\ ~SameBinary
    /\ Step("go swap", "go rename")
    /\ liveHash' = built
    /\ goProc' = Absent
    /\ UNCHANGED <<edited, jobs, generated, built, frontProc, screen, said, words, counters>>

Forget(fs) == [f \in fs |-> Absent]

\* The message names what brings the process back, an editor's save of the same
\* bytes among it.
Says(side) == said' = [said EXCEPT ![side] = "down"] /\ seen' = Forget(Sources)

\* Twenty attempts: something holds the file.
GoRenameFails ==
    /\ stage = "go rename"
    /\ JobEnds
    /\ liveHash' = Absent
    /\ Says("api")
    /\ UNCHANGED <<content, events, pending, generated, built, procs, screen, words, counters>>

GoSpawns ==
    /\ Step("go rename", "go ready")
    /\ goProc' = [up |-> TRUE, of |-> built]
    /\ said' = [said EXCEPT !["api"] = "nothing"]
    /\ UNCHANGED <<edited, jobs, generated, built, liveHash, frontProc, screen, words, counters>>

\* What a tab gets of a page it loads now.
Loads(p) ==
    CASE Serving            -> Shows(p, frontProc.of)
      [] Up(frontProc) /\ frontProc.is = "fallback" -> Overlay
      [] OTHER              -> Unavailable

\* The api answers, and every tab is told to reload; or it exited first.
GoReady ==
    /\ stage = "go ready"
    /\ JobEnds
    /\ screen' = IF Up(goProc) THEN [p \in PageFiles |-> Loads(p)] ELSE screen
    /\ untold' = IF Up(goProc) THEN ahead["app"] ELSE untold
    /\ UNCHANGED <<edited, generated, built, liveHash, procs, said, ahead, counters>>

-----------------------------------------------------------------------------
\* A tab fetches all of its stylesheet or none: the word of one is of each.
Word(changed) == changed \cup (IF changed \cap Styles = {} THEN {} ELSE Styles)

\* A service that goes before it was up never tells what it was started for.
WordIsLost == untold' = untold \cup (IF Booting THEN Word(frontProc.changed) ELSE {})

FrontStops ==
    /\ Step("front stops", "front starts")
    /\ frontProc' = Absent
    /\ WordIsLost
    /\ UNCHANGED <<edited, jobs, generated, built, liveHash, goProc, screen, said, ahead, counters>>

FrontSpawns ==
    /\ Step("front starts", "front ready")
    /\ frontProc' = FrontOf(FrontText, "booting", Head(jobs).changed)
    /\ said' = [said EXCEPT !["app"] = "nothing"]
    /\ UNCHANGED <<edited, jobs, generated, built, liveHash, goProc, screen, words, counters>>

\* devUpdatePlan: reload for what is no module, skip what another page is made
\* of. A tab on an overlay reloads for any.
Applies(p, changed) ==
    \/ screen[p] = Overlay
    \/ \E f \in changed : Kind[f] # "page" \/ f = p

\* A module applied in place keeps the stylesheet that is linked.
Applied(p, changed, front) ==
    IF front.is = "fallback" THEN Overlay
    ELSE IF screen[p].is = "page" /\ changed \cap Styles = {}
    THEN [is |-> "page", of |-> [f \in DOMAIN screen[p].of |->
             IF f \in Styles THEN screen[p].of[f] ELSE front.of[f]]]
    ELSE Shows(p, front.of)

\* A build that fails serves its error on the same port; either boot tells the
\* tabs which files it is of, once.
FrontBoots ==
    /\ Up(frontProc) /\ Booting
    /\ LET front == FrontOf(FrontText, IF Good(FrontSources) THEN "serving" ELSE "fallback",
                            frontProc.changed)
       IN /\ frontProc' = front
          /\ screen' = [p \in PageFiles |->
                IF Up(goProc) /\ screen[p] # Unavailable /\ Applies(p, front.changed)
                THEN Applied(p, front.changed, front) ELSE screen[p]]
    /\ Reads("app", FrontSources)
    /\ untold' = (IF Up(goProc) THEN untold \ Word(frontProc.changed) ELSE untold) \cup Early(FrontSources)
    /\ UNCHANGED <<edited, jobs, stage, generated, built, liveHash, goProc, said, counters>>

\* The healthz that answers, whatever it answers, the exit of the process, or
\* thirty seconds of a boot that goes on.
FrontAnswers ==
    /\ stage = "front ready"
    /\ IF Up(frontProc) /\ Booting THEN Trouble ELSE UNCHANGED counters
    /\ JobEnds
    /\ UNCHANGED <<edited, generated, built, liveHash, procs, screen, said, words>>

\* The css poke: ten seconds of a service that is down or boots, an overlay that
\* cannot compile, a style that does not compile, or one that does.
PokeGivesUp == ~Up(frontProc) \/ Booting

CssUnanswered ==
    /\ stage = "css poke" /\ PokeGivesUp
    /\ JobEnds
    /\ untold' = untold \cup Styles
    /\ UNCHANGED <<edited, generated, built, liveHash, procs, screen, said, ahead, counters>>

CssFallsBack ==
    /\ Up(frontProc) /\ frontProc.is = "fallback"
    /\ Step("css poke", "front stops")
    /\ UNCHANGED <<edited, jobs, generated, built, liveHash, procs, screen, said, words, counters>>

StylesFail ==
    /\ stage = "css poke" /\ Serving /\ ~Good(Styles)
    /\ JobEnds
    /\ UNCHANGED <<edited, generated, built, liveHash, procs, screen, said, words, counters>>

Restyled(text) == [f \in DOMAIN text |-> IF f \in Styles THEN content[f] ELSE text[f]]

CssCompiles ==
    /\ Serving /\ Good(Styles)
    /\ Step("css poke", "css tell")
    /\ frontProc' = [frontProc EXCEPT !.of = Restyled(@)]
    /\ UNCHANGED <<edited, jobs, generated, built, liveHash, goProc, screen, said, words, counters>>

\* Every tab fetches its stylesheet again, or no front was there to tell them.
CssTold ==
    /\ stage = "css tell"
    /\ JobEnds
    /\ screen' = [p \in PageFiles |->
            IF Up(goProc) /\ Serving /\ screen[p].is = "page"
            THEN [screen[p] EXCEPT !.of = [f \in DOMAIN @ |->
                    IF f \in Styles THEN frontProc.of[f] ELSE @[f]]]
            ELSE screen[p]]
    /\ untold' = IF Up(goProc) /\ Serving THEN untold \ Styles ELSE untold \cup Styles
    /\ UNCHANGED <<edited, generated, built, liveHash, procs, said, ahead, counters>>

-----------------------------------------------------------------------------
\* A process dies on its own, a service while it boots as well, and its exit
\* handler runs some time after.

GoDies ==
    /\ Trouble /\ Up(goProc)
    /\ goProc' = [goProc EXCEPT !.up = FALSE]
    /\ UNCHANGED <<edited, jobs, stage, generated, built, liveHash, frontProc, screen, said, words>>

FrontDies ==
    /\ Trouble /\ Up(frontProc)
    /\ frontProc' = [frontProc EXCEPT !.up = FALSE]
    /\ UNCHANGED <<edited, jobs, stage, generated, built, liveHash, goProc, screen, said, words>>

Fallen(proc) == proc # Absent /\ ~proc.up

GoExitHeard ==
    /\ Fallen(goProc)
    /\ goProc' = Absent
    /\ liveHash' = Absent
    /\ Says("api")
    /\ UNCHANGED <<content, events, pending, jobs, stage, generated, built, frontProc, screen, words, counters>>

FrontExitHeard ==
    /\ Fallen(frontProc)
    /\ frontProc' = Absent
    /\ WordIsLost
    /\ Says("app")
    /\ UNCHANGED <<content, events, pending, jobs, stage, generated, built, liveHash, goProc, screen, ahead, counters>>

Watches == (\E f \in Sources : Hear(f)) \/ (\E s \in Sides : Flush(s))
Rebuilds ==
    \/ Take
    \/ GoBuilds \/ GoBuildFails \/ GoUnchanged \/ GoStops \/ GoRenameFails \/ GoSpawns \/ GoReady
    \/ FrontStops \/ FrontSpawns \/ FrontBoots \/ FrontAnswers
    \/ CssUnanswered \/ CssFallsBack \/ StylesFail \/ CssCompiles \/ CssTold
Exits == GoExitHeard \/ FrontExitHeard

DevNext ==
    \/ \E f \in Sources : Save(f) \/ Straggler(f)
    \/ Watches \/ Rebuilds \/ Exits
    \/ GoDies \/ FrontDies

\* The timers fire, the builds end, the deadlines pass.
DevFairness == WF_devVars(Watches) /\ WF_devVars(Rebuilds) /\ WF_devVars(Exits)

DevSpec == DevInit /\ [][DevNext]_devVars

-----------------------------------------------------------------------------
AtRest ==
    /\ events = {} /\ jobs = <<>>
    /\ \A s \in Sides : pending[s] = {}
    /\ ~Fallen(goProc) /\ ~Fallen(frontProc) /\ ~Booting

\* When nothing is left to do, what runs is what is saved: no save is lost
\* between the watcher, the dedup, the timers and the chain, whenever it was
\* made. Of sources that do not compile, the last good api goes on, with the
\* environment it was last given, and the pages show their error. What is
\* excepted is a save that a build read before the watcher heard of it: undone
\* in between, it is an echo.
RunsWhatIsSaved ==
    AtRest =>
        /\ Up(goProc) /\ Good(GoFiles) /\ ahead["api"] = {} =>
              \A f \in GoSources : goProc.of[f] = content[f] \/ content[f] = "bad"
        /\ Serving => \A f \in FrontSources :
              \/ frontProc.of[f] = content[f]
              \/ f \in ahead["app"]
              \/ f \in Styles /\ ~Good(Styles)
        /\ Up(frontProc) /\ ~Serving => ~Good(FrontSources) \/ ahead["app"] # {}

\* The message of a process that is down is true: a save of a file it is built
\* from brings it back, identical bytes included (dev.ts 388: "the gesture this
\* message instructs is an editor save - which writes identical bytes").
SavesBringItBack ==
    AtRest =>
        /\ said["app"] # "saved"
        /\ said["api"] = "saved" => ~Good(GoFiles) \/ ahead["api"] # {}

\* The same of a style (dev.ts 441: "until you save any page or style to
\* restart it"). It does not hold: a style is poked to a service that is down,
\* and nothing starts it.
StylesBringItBack == AtRest => said["app"] # "styled"

\* Every open tab shows what is served, once there is nothing left to do (dev.ts
\* 20: "the last file alone would silently drop a Save All"): the modules it is
\* made of, and the style as well unless it does not compile. What is excepted
\* is told nobody: the files a service was started for that went before it was
\* up, a style that was poked to one that did not answer, and what a build read
\* before the watcher heard of it.
TabsCatchUp ==
    AtRest /\ Serving /\ Up(goProc) =>
        \A p \in PageFiles : screen[p] # Unavailable =>
            /\ screen[p].is = "page"
            /\ \A f \in DOMAIN screen[p].of :
                  screen[p].of[f] = frontProc.of[f] \/ f \in untold \/ (f \in Styles /\ ~Good(Styles))

\* Whatever a rebuild meets, it ends and the next one is taken.
RebuildsEnd == DevFairness => (jobs # <<>> ~> jobs = <<>>)

\* What runs, what brings it back and what the tabs show is what was saved last.
SessionIsCurrent == RunsWhatIsSaved /\ SavesBringItBack /\ TabsCatchUp
==============================================================================
