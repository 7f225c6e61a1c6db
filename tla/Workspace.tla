------------------------------ MODULE Workspace ------------------------------
(***************************************************************************)
(* The directory of an app and the commands that share it: `borgo build`,  *)
(* `borgo start`, `borgo export` and the build of a dev session            *)
(* (build.ts, cli.ts, export.ts, the boot of server.ts). A command may be  *)
(* killed between any two writes, and the next one decides from what is on *)
(* disk what it may serve. One build runs at a time (module BuildLock).    *)
(***************************************************************************)
EXTENDS Naturals, FiniteSets

CONSTANTS
    Shells,          \* terminals, each running one command at a time
    Pages,           \* the pages of the app
    PageKind,        \* [Pages -> PageKinds]: what export asks of each
    None,
    Alone,           \* no command begins while another one runs
    MaxEdits, MaxCommands

PageKinds == [guard : {"none", "middleware.ts", "middleware.go"}, revalidate : BOOLEAN,
              loader : BOOLEAN, prerender : BOOLEAN, dynamic : BOOLEAN, paths : BOOLEAN]

ASSUME WorkspaceAssumption ==
    /\ PageKind \in [Pages -> PageKinds]
    /\ None \notin Shells
    /\ Alone \in BOOLEAN /\ MaxEdits \in Nat /\ MaxCommands \in Nat

VARIABLES
    source,    \* the app: a version, its stylesheet, whether it compiles
    there,     \* the whole files in public/assets
    torn,      \* the truncated ones
    inventory, \* build-output.json: the files of the last build, or None
    stamp,     \* build-mode: which kind of build wrote public/assets
    mark,      \* build-incomplete
    manifest,  \* routes.gen.tsx is there
    site,      \* dist/site: its pages, the assets they name, the assets it has
    shell,     \* what each terminal is doing
    builder,   \* the holder of the build lock
    commands   \* how many commands were given

dirVars == <<source, there, torn, inventory, stamp, mark, manifest, site, shell, builder, commands>>
disk == <<there, torn, inventory, stamp, mark, manifest>>

Modes == {"dev", "production", "export"}
Versions == 0..MaxEdits

\* A dev build keeps its names fixed, the others name a file by its content,
\* which for the scripts depends on the mode and for the styles does not.
Script(v, m) == IF m = "dev" THEN [part |-> "js", v |-> 0, m |-> "fixed"]
                ELSE [part |-> "js", v |-> v, m |-> m]
PlainStyle == [part |-> "style", v |-> 0, m |-> "fixed"]
HashedStyle(v) == [part |-> "style", v |-> v, m |-> "hashed"]

Files == {Script(v, m) : v \in Versions, m \in Modes}
            \cup {PlainStyle} \cup {HashedStyle(v) : v \in Versions}

\* None is no inventory.
ASSUME NoneAssumption == \A files \in SUBSET Files : files # None

Idle == [cmd |-> "none", at |-> "idle", mode |-> "dev", tailwind |-> FALSE, then |-> "idle",
         wrote |-> FALSE, owned |-> {}, names |-> {}, indexed |-> None, staged |-> None,
         disturbed |-> FALSE]

Init0 == [v |-> 0, sheet |-> "scss", broken |-> FALSE]

DirInit ==
    /\ source = Init0
    /\ there = {} /\ torn = {} /\ inventory = None
    /\ stamp = "none" /\ mark = FALSE /\ manifest = FALSE
    /\ site = None
    /\ shell = [s \in Shells |-> Idle]
    /\ builder = None
    /\ commands = 0

\* What the inventory claims; no inventory claims nothing.
Owned == IF inventory = None THEN {} ELSE inventory
StyleOf(files) == {f \in files : f.part = "style"}

\* An entry that is missing or truncated, no manifest, or a build that did not
\* finish. With no inventory the entry is looked for under its fixed name.
Wanted == IF inventory = None THEN {Script(0, "dev")} ELSE inventory
\* slip: a build that was cut short leaves no word of it.
Missing == Wanted \ there # {} \/ ~manifest
BuildReasons == Wanted \ there # {} \/ ~manifest \/ mark

Moves(s, from, to) ==
    /\ shell[s].at = from
    /\ shell' = [shell EXCEPT ![s].at = to]

\* A build that is about to write tells on the others: whatever they read of
\* public/assets before is not what is there.
Disturbing(s, f) == [t \in Shells |-> IF t = s \/ f[t].at = "idle" THEN f[t]
                                      ELSE [f[t] EXCEPT !.disturbed = TRUE]]

-----------------------------------------------------------------------------
\* The commands.

MayBegin(s) ==
    /\ shell[s].at = "idle"
    /\ commands < MaxCommands
    /\ Alone => \A t \in Shells : shell[t].at \in {"idle", "serving"}
    /\ commands' = commands + 1
    /\ UNCHANGED <<disk, source, site, builder>>

Begins(s, cmd, at, mode, then) ==
    \E flag \in BOOLEAN :
        shell' = [shell EXCEPT ![s] =
            [Idle EXCEPT !.cmd = cmd, !.at = at, !.mode = mode, !.tailwind = flag, !.then = then]]

\* BORGO_STATIC in the environment makes an export build of it.
RunBuild(s) == MayBegin(s) /\ \E m \in {"production", "export"} : Begins(s, "build", "wants", m, "idle")
RunDev(s) == MayBegin(s) /\ Begins(s, "dev", "wants", "dev", "idle")
RunStart(s) == MayBegin(s) /\ Begins(s, "start", "stamp", "production", "serving")
RunExport(s) == MayBegin(s) /\ Begins(s, "export", "wants", "export", "boots")

\* `borgo start`: BORGO_STATIC is dropped, and a stamp that does not say
\* production is rebuilt before anything is spawned.
ReadStamp(s) ==
    /\ shell[s].at = "stamp"
    /\ shell' = [shell EXCEPT ![s].at = IF stamp = "production" THEN "spawn" ELSE "wants",
                              ![s].then = "spawn"]
    /\ UNCHANGED <<disk, source, site, builder, commands>>

\* The go front indexes public/ when it boots, once.
SpawnFront(s) ==
    /\ shell[s].at = "spawn"
    /\ shell' = [shell EXCEPT ![s].at = "boots", ![s].indexed = inventory]
    /\ UNCHANGED <<disk, source, site, builder, commands>>

AfterBoot(s) == IF shell[s].cmd = "export" THEN "renders" ELSE "serving"

\* serve(): the names of the last build, or a build of its own.
Boots(s) ==
    /\ shell[s].at = "boots"
    /\ shell' = IF BuildReasons
                THEN [shell EXCEPT ![s].at = "wants", ![s].then = AfterBoot(s)]
                ELSE [shell EXCEPT ![s].at = AfterBoot(s), ![s].names = inventory]
    /\ UNCHANGED <<disk, source, site, builder, commands>>

-----------------------------------------------------------------------------
\* buildAssets.

Lock(s) ==
    /\ builder = None
    /\ Moves(s, "wants", "manifest")
    /\ builder' = s
    /\ UNCHANGED <<disk, source, site, commands>>

GenerateManifest(s) ==
    /\ Moves(s, "manifest", "css")
    /\ mark' = TRUE
    /\ manifest' = TRUE
    /\ UNCHANGED <<there, torn, inventory, stamp, source, site, builder, commands>>

\* The build throws and the command with it; what is on disk stays.
Fails(s) ==
    /\ shell' = [shell EXCEPT ![s] = Idle]
    /\ builder' = None
    /\ UNCHANGED <<disk, source, site, commands>>

\* What compileCss finds: a source it compiles, one it may not touch without
\* the flag (kept as it is, if there is one), or none.
Compiles(s) == shell[s].tailwind \/ source.sheet = "scss"
KeptStyle == StyleOf(Owned) \cup {PlainStyle}
CssRefused(s) ==
    \/ shell[s].tailwind /\ source.sheet # "css"
    \/ ~Compiles(s) /\ source.sheet = "css" /\ KeptStyle \cap there = {}

CompileCss(s) ==
    /\ ~CssRefused(s)
    /\ shell[s].at = "css"
    /\ there' = CASE Compiles(s)            -> there \cup {PlainStyle}
                  [] source.sheet = "none"  -> there \ StyleOf(Owned)
                  [] OTHER                  -> there
    /\ LET moved == [shell EXCEPT ![s].at = "bundle", ![s].wrote = Compiles(s), ![s].owned = Owned]
       IN shell' = IF there' = there THEN moved ELSE Disturbing(s, moved)
    /\ UNCHANGED <<torn, inventory, stamp, mark, manifest, source, site, builder, commands>>

CssFails(s) == shell[s].at = "css" /\ CssRefused(s) /\ Fails(s)

\* The emitted stylesheet: renamed after its content, or the one of the last
\* build when this one wrote none.
Emitted(s) ==
    CASE shell[s].wrote /\ shell[s].mode = "dev" -> {PlainStyle}
      [] shell[s].wrote                          -> {HashedStyle(source.v)}
      [] OTHER                                   -> StyleOf(shell[s].owned) \cap there

Written(s) == {Script(source.v, shell[s].mode)} \cup Emitted(s)

Bundle(s) ==
    /\ shell[s].at = "bundle" /\ ~source.broken
    /\ there' = (IF shell[s].wrote /\ shell[s].mode # "dev" THEN there \ {PlainStyle} ELSE there)
                    \cup Written(s)
    /\ torn' = torn \ Written(s)
    /\ shell' = Disturbing(s, [shell EXCEPT ![s].at = "sweep", ![s].names = Written(s)])
    /\ UNCHANGED <<inventory, stamp, mark, manifest, source, site, builder, commands>>

\* A parse error, a broken environment: nothing was swept.
BundleFails(s) == shell[s].at = "bundle" /\ source.broken /\ Fails(s)

\* Only what an earlier build recorded, and the fixed names, which are borgo's.
Sweepable(s) == (shell[s].owned \cup {Script(0, "dev")}) \ shell[s].names

Sweep(s) ==
    /\ Moves(s, "sweep", "record")
    /\ there' = there \ Sweepable(s)
    /\ torn' = torn \ Sweepable(s)
    /\ UNCHANGED <<inventory, stamp, mark, manifest, source, site, builder, commands>>

WriteInventory(s) ==
    /\ Moves(s, "record", "stamps")
    /\ inventory' = shell[s].names
    /\ UNCHANGED <<there, torn, stamp, mark, manifest, source, site, builder, commands>>

WriteStamp(s) ==
    /\ Moves(s, "stamps", "checks")
    /\ stamp' = shell[s].mode
    /\ UNCHANGED <<there, torn, inventory, mark, manifest, source, site, builder, commands>>

\* An asset the front could not serve (assetChannelFaults): refused with the
\* mark still on.
ChannelRefused(s) == shell[s].at = "checks" /\ Fails(s)

Done(s) ==
    /\ shell[s].at = "checks"
    /\ mark' = FALSE
    /\ builder' = None
    /\ shell' = IF shell[s].then = "idle" THEN [shell EXCEPT ![s] = Idle]
                ELSE [shell EXCEPT ![s].at = shell[s].then]
    /\ UNCHANGED <<there, torn, inventory, stamp, manifest, source, site, commands>>

-----------------------------------------------------------------------------
\* borgo export.

Guarded(p) == PageKind[p].guard # "none"
Planned(p) ==
    LET k == PageKind[p]
    IN /\ k.guard # "middleware.ts"
       /\ ~k.revalidate
       /\ k.loader => k.prerender
       /\ k.dynamic => k.paths
\* api/middleware.go is asked about the pattern, and again about each path.
Exported == {p \in Pages : Planned(p) /\ PageKind[p].guard # "middleware.go"}

\* Staged beside dist/site, each page naming the assets of this boot.
Render(s) ==
    /\ Exported # {}
    /\ shell[s].at = "renders"
    /\ shell' = [shell EXCEPT ![s].at = "copies",
            ![s].staged = [pages |-> Exported, names |-> shell[s].names, assets |-> {}]]
    /\ UNCHANGED <<disk, source, site, builder, commands>>

\* A page that did not render, or that carries what belongs to one request:
\* nothing is published, and the stage goes with the command.
RenderFails(s) ==
    /\ shell[s].at = "renders"
    /\ shell' = [shell EXCEPT ![s] = Idle]
    /\ UNCHANGED <<disk, source, site, builder, commands>>

CopyPublic(s) ==
    /\ shell[s].at = "copies"
    /\ shell' = [shell EXCEPT ![s].at = "unpublishes", ![s].staged.assets = there]
    /\ UNCHANGED <<disk, source, site, builder, commands>>

Unpublish(s) ==
    /\ Moves(s, "unpublishes", "publishes")
    /\ site' = None
    /\ UNCHANGED <<disk, source, builder, commands>>

\* One rename. Another export may have put its own there: then it fails.
Publish(s) ==
    /\ shell[s].at = "publishes"
    /\ site' = IF site = None THEN shell[s].staged ELSE site
    /\ shell' = [shell EXCEPT ![s] = Idle]
    /\ UNCHANGED <<disk, source, builder, commands>>

-----------------------------------------------------------------------------
\* Killed, or stopped. A bundler killed half-way leaves a truncated file.
Crash(s) ==
    /\ shell[s].at # "idle"
    /\ LET half == shell[s].at = "bundle" /\ ~source.broken
           js   == Script(source.v, shell[s].mode)
           dead == [shell EXCEPT ![s] = Idle]
       IN \/ UNCHANGED <<there, torn>> /\ shell' = dead
          \/ /\ half
             /\ there' = there \ {js} /\ torn' = torn \cup {js}
             /\ shell' = Disturbing(s, dead)
    /\ builder' = IF builder = s THEN None ELSE builder
    /\ UNCHANGED <<inventory, stamp, mark, manifest, source, site, commands>>

Edit ==
    /\ source.v < MaxEdits
    /\ \E sheet \in {"scss", "css", "none"}, broken \in BOOLEAN :
        source' = [v |-> source.v + 1, sheet |-> sheet, broken |-> broken]
    \* what a build reads is read at its bundle: no edit in the middle of it
    /\ \A s \in Shells : shell[s].at \notin {"css", "bundle"}
    /\ UNCHANGED <<disk, site, shell, builder, commands>>

Commands(s) == RunBuild(s) \/ RunDev(s) \/ RunStart(s) \/ RunExport(s)
Starts(s) == ReadStamp(s) \/ SpawnFront(s) \/ Boots(s)
BuildsAssets(s) ==
    \/ Lock(s) \/ GenerateManifest(s) \/ CompileCss(s) \/ CssFails(s) \/ Bundle(s) \/ BundleFails(s)
    \/ Sweep(s) \/ WriteInventory(s) \/ WriteStamp(s) \/ ChannelRefused(s) \/ Done(s)
Exports(s) == Render(s) \/ RenderFails(s) \/ CopyPublic(s) \/ Unpublish(s) \/ Publish(s)

DirNext ==
    \/ \E s \in Shells : Commands(s) \/ Starts(s) \/ BuildsAssets(s) \/ Exports(s) \/ Crash(s)
    \/ Edit

DirSpec == DirInit /\ [][DirNext]_dirVars

-----------------------------------------------------------------------------
DirTypeOK ==
    /\ there \subseteq Files /\ torn \subseteq Files
    /\ inventory \in (SUBSET Files) \cup {None}
    /\ stamp \in Modes \cup {"none"}
    /\ builder \in Shells \cup {None}

Undisturbed(s) == shell[s].at = "serving" /\ ~shell[s].disturbed

\* A server that was let up names files that are there, whole and of a
\* production build, whatever was killed, exported or left half-built before,
\* as long as no other build wrote public/assets since it began: a failed one
\* takes nothing away (build.ts 1536: "swept first, one parse error took the
\* last good build with it").
ServedTreeIsWhole ==
    \A s \in Shells : Undisturbed(s) =>
        /\ shell[s].names \subseteq there
        /\ \E v \in Versions : Script(v, "production") \in shell[s].names
        /\ stamp = "production"

\* dist/site is always an export that rendered whole: it has the assets its
\* pages name, and no page that a guard or a clock keeps from being one file
\* for everyone.
PublishedSiteIsWhole ==
    site # None =>
        /\ site.names # {} /\ site.names \subseteq site.assets
        /\ \A p \in site.pages : ~Guarded(p) /\ ~PageKind[p].revalidate

\* The front indexed the build that is served (cli.ts 196: "the rebuild comes
\* before the go front starts"). It does not hold: the start asks the stamp
\* alone, and a tree that lacks a file is rebuilt by the boot of the service,
\* behind the front.
FrontIndexedWhatIsServed ==
    \A s \in Shells : Undisturbed(s) => shell[s].indexed = shell[s].names

\* What a command leaves for another one to use is there to the last file.
OutputsAreWhole == DirTypeOK /\ ServedTreeIsWhole /\ PublishedSiteIsWhole
==============================================================================
