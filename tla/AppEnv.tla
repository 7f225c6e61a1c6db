------------------------------- MODULE AppEnv -------------------------------
(***************************************************************************)
(* The app's typed environment: env.ts and a module it imports, what        *)
(* defineEnv makes of them on a machine, the three places that read the     *)
(* contract (the boot of the render service, the client map frozen into the *)
(* bundle, env/env.gen.go compiled into the go half) and the commands that  *)
(* bring it there: `borgo build` and `borgo start`, or a `borgo dev`        *)
(* session that rebuilds what a save asks for.                              *)
(***************************************************************************)
EXTENDS Naturals, Sequences, FiniteSets

CONSTANTS
    Files,        \* what env.ts may hold: [Rules -> contents], by the module it imports
    Rules,        \* what that module may hold
    Machines,     \* the environments a command may run in: [variables -> Texts]
    Unset, EmptyText, \* no variable, and FOO=
    Finite,       \* the texts Number() reads as a finite number
    PortTexts, BoolTexts, UrlTexts,
    Prefixed,     \* names that carry BORGO_PUBLIC_
    Reserved,     \* borgo's own names
    GoFields,     \* names go can hold as an exported field
    None,
    MaxSaves

ASSUME AppEnvAssumption == MaxSaves \in Nat /\ PortTexts \subseteq Finite

VARIABLES
    dev,          \* a session of borgo dev, or the commands of production
    envFile, rules, machine,   \* what is on disk, and where the next command runs
    sides,        \* dev: the rebuilds a save asked for and that have yet to run
    memo,         \* appEnvMetas of the process that goes on reading: what it last read
    building,     \* borgo build between borgogen and its bundle
    goDir,        \* the directory env/: none, a file, a package of the app's own, ours
    goFile,       \* env/env.gen.go, or None, and the bytes of env.ts it was written from
    goHalf,       \* what is compiled into the go half of it, or None
    bundle,       \* what the client bundle answers from, or None
    service,      \* what the render service reads, or None
    unasked,      \* dev: the imported module was saved and no rebuild of the go half followed
    savesLeft

onDisk == <<dev, envFile, rules, machine>>
goSide == <<goDir, goFile, goHalf>>
envVars == <<onDisk, sides, memo, building, goSide, bundle, service, unasked, savesLeft>>

-----------------------------------------------------------------------------
\* Values.

Str(x) == [t |-> "string", of |-> x]
Num(x) == [t |-> "number", of |-> x]
Bool(x) == [t |-> "boolean", of |-> x]
NaN == Num("NaN")
Undefined == [t |-> "undefined", of |-> "undefined"]
Refused == [t |-> "refused", of |-> "refused"]

\* A validator of the app: what it returns of a text, or its throw.
Validate(kind, raw) ==
    CASE kind = "text"    -> Str(raw)
      [] kind = "number"  -> IF raw \in Finite THEN Num(raw) ELSE NaN
      [] kind = "object"  -> [t |-> "object", of |-> raw]
      [] kind = "nothing" -> Undefined
      [] OTHER            -> Refused

Accepts(type, raw) ==
    CASE type = "number" -> raw \in Finite
      [] type = "boolean" -> raw \in BoolTexts
      [] type = "port" -> raw \in PortTexts
      [] type = "url" -> raw \in UrlTexts
      [] OTHER -> TRUE

Typed(type, raw) ==
    CASE type \in {"number", "port"} -> Num(raw) [] type = "boolean" -> Bool(raw) [] OTHER -> Str(raw)

ParseValue(spec, raw) ==
    IF spec.validate # "none" THEN Validate(spec.validate, raw)
    ELSE IF Accepts(spec.type, raw) THEN Typed(spec.type, raw) ELSE Refused

DefaultMistake(spec) ==
    /\ spec.default # None
    /\ IF spec.validate # "none"
       THEN spec.default.t # "string" \/ Validate(spec.validate, spec.default.of) = Refused
       ELSE spec.default # Typed(spec.type, spec.default.of) \/ ~Accepts(spec.type, spec.default.of)

\* Thrown by defineEnv whatever the machine holds.
SchemaMistake(schema) ==
    \/ \E n \in DOMAIN schema.client : n \notin Prefixed \/ DefaultMistake(schema.client[n])
    \/ \E n \in DOMAIN schema.server :
          n \in Prefixed \cup Reserved \cup DOMAIN schema.client \/ DefaultMistake(schema.server[n])

\* The empty string is missing; a required variable never reads undefined.
ReadValue(spec, raw) ==
    IF raw \in {Unset, EmptyText}
    THEN CASE spec.default # None /\ spec.validate # "none" -> Validate(spec.validate, spec.default.of)
           [] spec.default # None -> spec.default
           [] spec.default = None /\ spec.optional -> Undefined
           [] OTHER -> Refused
    ELSE LET v == ParseValue(spec, raw)
         IN IF v = Undefined /\ ~spec.optional THEN Refused ELSE v

Ships(v) == v.t \in {"undefined", "string", "number", "boolean"} /\ v # NaN

ClientValue(spec, raw) ==
    LET v == ReadValue(spec, raw) IN IF Ships(v) THEN v ELSE Refused

\* What defineEnv answers on a machine, with what the build and the boot read off it.
DefineEnv(schema, env) ==
    LET Client == [n \in DOMAIN schema.client |-> ClientValue(schema.client[n], env[n])]
        Server == [n \in DOMAIN schema.server |-> ReadValue(schema.server[n], env[n])]
    IN [clientValues   |-> Client,
        serverValues   |-> Server,
        clientFailures |-> {n \in DOMAIN Client : Client[n] = Refused},
        failures       |-> {n \in DOMAIN Client : Client[n] = Refused}
                           \cup {n \in DOMAIN Server : Server[n] = Refused},
        serverSpecs    |-> [n \in DOMAIN schema.server |->
                               [type      |-> schema.server[n].type,
                                optional  |-> schema.server[n].optional,
                                default   |-> schema.server[n].default,
                                validated |-> schema.server[n].validate # "none"]]]

-----------------------------------------------------------------------------
\* appEnvMetas: the subprocess that imports env.ts, bounded, and its memo.

Contents == envFile[rules]
Loads(contents) ==
    contents.loads /\ \A i \in DOMAIN contents.schemas : ~SchemaMistake(contents.schemas[i])

Remembered(fresh) == ~fresh /\ memo # None /\ memo.file = envFile

Sources == <<envFile, rules, machine>>
Loaded(contents) ==
    [of     |-> Sources,
     metas  |-> [i \in DOMAIN contents.schemas |-> DefineEnv(contents.schemas[i], machine)],
     others |-> contents.others]

MayRead(fresh) == Remembered(fresh) \/ Loads(Contents)
AppEnvMetas(fresh) == IF Remembered(fresh) THEN memo.app ELSE Loaded(Contents)
Memoised(fresh) == memo' = [file |-> envFile, app |-> AppEnvMetas(fresh)]

\* One variable, one source of truth.
DeclaredTwice(app, Names(_)) ==
    \E i, j \in DOMAIN app.metas : i # j /\ Names(app.metas[i]) \cap Names(app.metas[j]) # {}

Joined(app, Of(_)) ==
    LET Names == UNION {DOMAIN Of(app.metas[i]) : i \in DOMAIN app.metas}
    IN [n \in Names |-> LET i == CHOOSE i \in DOMAIN app.metas : n \in DOMAIN Of(app.metas[i])
                        IN Of(app.metas[i])[n]]

ClientOf(meta) == meta.clientValues
ClientNames(meta) == DOMAIN meta.clientValues
ServerOf(meta) == meta.serverSpecs
ServerNames(meta) == DOMAIN meta.serverSpecs
Broken(app, Of(_)) == \E i \in DOMAIN app.metas : Of(app.metas[i]) # {}

\* JSON drops what is undefined and has no NaN.
JsonOf(v) == IF v = NaN THEN [t |-> "null", of |-> "null"] ELSE v
ClientEnvDefine(app) ==
    LET Map == Joined(app, ClientOf)
    IN [n \in {m \in DOMAIN Map : Map[m] # Undefined} |-> JsonOf(Map[n])]

\* The bundle's env.ts is a shim over that map: a name it does not hold throws.
BrowserReads(n) == IF n \in DOMAIN bundle.map THEN bundle.map[n] ELSE [t |-> "throws", of |-> n]

-----------------------------------------------------------------------------
\* env/env.gen.go.

GoRefuses(app) ==
    \/ DeclaredTwice(app, ServerNames)
    \/ \E i \in DOMAIN app.metas : ~(ServerNames(app.metas[i]) \subseteq GoFields)

GoEnvSource(app) ==
    LET Contract == Joined(app, ServerOf) IN IF DOMAIN Contract = {} THEN None ELSE [contract |-> Contract, file |-> app.of[1]]

\* A package in env/ that is not the generated one is refused only when there
\* is one to write.
Generates(fresh) ==
    /\ MayRead(fresh)
    /\ ~GoRefuses(AppEnvMetas(fresh))
    /\ GoEnvSource(AppEnvMetas(fresh)) # None => goDir \notin {"file", "package"}

WriteGoEnv(fresh) ==
    LET Source == GoEnvSource(AppEnvMetas(fresh))
    IN /\ goFile' = Source
       /\ goDir' = IF Source = None THEN goDir ELSE "ours"

-----------------------------------------------------------------------------
\* The bundle and the boot.

Bundles(app) ==
    /\ ~Broken(app, LAMBDA m : m.clientFailures)
    /\ app.others => app.metas = <<>>
    /\ ~DeclaredTwice(app, ClientNames)

Bundled(app) == [of |-> app.of, map |-> ClientEnvDefine(app), specs |-> Joined(app, ServerOf)]

BootRefuses(app) == Broken(app, LAMBDA m : m.failures)

Booted(app) ==
    [of |-> app.of, client |-> Joined(app, ClientOf), server |-> Joined(app, LAMBDA m : m.serverValues)]

EnvInit ==
    /\ dev \in BOOLEAN /\ envFile \in Files /\ rules \in Rules /\ machine \in Machines
    /\ sides = IF dev THEN {"api", "app"} ELSE {}
    /\ memo = None /\ building = FALSE
    /\ goDir \in {"none", "file", "package"} /\ goFile = None /\ goHalf = None
    /\ bundle = None /\ service = None
    /\ unasked = FALSE /\ savesLeft = MaxSaves

\* borgo build, one process: the go half's package, then the bundle from what
\* was read for it.
Borgogen ==
    /\ ~dev /\ ~building /\ Generates(FALSE)
    /\ WriteGoEnv(FALSE) /\ Memoised(FALSE)
    /\ building' = TRUE
    /\ UNCHANGED <<onDisk, sides, goHalf, bundle, service, unasked, savesLeft>>

BuildAssets ==
    /\ building
    /\ building' = FALSE
    /\ memo' = None
    /\ IF MayRead(FALSE) /\ Bundles(AppEnvMetas(FALSE))
       THEN bundle' = Bundled(AppEnvMetas(FALSE)) /\ goHalf' = goFile
       ELSE UNCHANGED <<bundle, goHalf>>
    /\ UNCHANGED <<onDisk, sides, goDir, goFile, service, unasked, savesLeft>>

\* borgo start: a process of its own, so nothing is remembered.
Boot ==
    /\ ~dev /\ ~building /\ bundle # None
    /\ service' = IF Loads(Contents) /\ ~BootRefuses(Loaded(Contents)) THEN Booted(Loaded(Contents)) ELSE None
    /\ UNCHANGED <<onDisk, sides, memo, building, goSide, bundle, unasked, savesLeft>>

\* borgo dev: the supervisor generates, afresh each time, and the go half is
\* built from whatever is there.
\* slip: the memo of the first boot serves the session.
DevFreshNever == FALSE
DevFresh == TRUE

RebuildApi ==
    /\ "api" \in sides
    /\ sides' = sides \ {"api"}
    /\ IF Generates(DevFresh) THEN WriteGoEnv(DevFresh) /\ Memoised(DevFresh)
                              ELSE UNCHANGED <<goDir, goFile, memo>>
    /\ goHalf' = goFile'
    /\ unasked' = FALSE
    /\ UNCHANGED <<onDisk, building, bundle, service, savesLeft>>

\* The render service is a new process: its boot check, then its bundle.
RebuildApp ==
    /\ "app" \in sides
    /\ sides' = sides \ {"app"}
    /\ IF Loads(Contents) /\ ~BootRefuses(Loaded(Contents)) /\ Bundles(Loaded(Contents))
       THEN bundle' = Bundled(Loaded(Contents)) /\ service' = Booted(Loaded(Contents))
       ELSE service' = None /\ UNCHANGED bundle
    /\ UNCHANGED <<onDisk, memo, building, goSide, unasked, savesLeft>>

\* A save, and what a session rebuilds for it (rebuildSides).
Saves(asked) ==
    /\ savesLeft > 0 /\ savesLeft' = savesLeft - 1
    /\ sides' = IF dev THEN sides \cup asked ELSE sides
    /\ UNCHANGED <<dev, machine, memo, building, goSide, bundle, service>>

SaveEnv == \E f \in Files : envFile' = f /\ Saves({"api", "app"}) /\ UNCHANGED <<rules, unasked>>
SaveRules == \E r \in Rules : rules' = r /\ Saves({"app"}) /\ unasked' = TRUE /\ UNCHANGED envFile
SaveGo == Saves({"api"}) /\ UNCHANGED <<envFile, rules, unasked>>

\* The bundle of one machine, served on another.
EnvMoves ==
    /\ ~dev /\ ~building
    /\ machine' \in Machines
    /\ UNCHANGED <<dev, envFile, rules, sides, memo, building, goSide, bundle, service, unasked, savesLeft>>

EnvNext ==
    \/ Borgogen \/ BuildAssets \/ Boot
    \/ RebuildApi \/ RebuildApp
    \/ SaveEnv \/ SaveRules \/ SaveGo \/ EnvMoves

EnvSpec == EnvInit /\ [][EnvNext]_envVars

-----------------------------------------------------------------------------
\* The two sides of the wall: when the service runs on the sources and the
\* machine its bundle was built from, the browser reads of every client
\* variable that has a value exactly what the server reads (env.ts 304: "the
\* exact silent divergence this gate exists to refuse").
SidesAgree ==
    service # None /\ bundle # None /\ service.of = bundle.of =>
        \A n \in DOMAIN service.client :
            service.client[n] # Undefined => BrowserReads(n) = service.client[n]

\* The same of a variable that is optional and unset, which the docs type as
\* one that reads undefined (docs/environment.md 26). It does not hold: the
\* map leaves it out, and the browser's env throws on the name.
UnsetAgrees ==
    service # None /\ bundle # None /\ service.of = bundle.of =>
        \A n \in DOMAIN service.client :
            service.client[n] = Undefined => BrowserReads(n) = Undefined

\* Both halves of the app hold one contract. Of a build they are one read of
\* env.ts, whatever its imports turn into meanwhile; of a session at rest the
\* go half is compiled from the env.ts the service booted from, unless it cannot
\* be generated, or only a file env.ts imports was saved since.
AtRest == sides = {} /\ service # None /\ service.of = Sources /\ Generates(TRUE)
GoContract == IF goHalf = None THEN <<>> ELSE goHalf.contract
HalvesAgree ==
    /\ ~dev /\ goHalf # None /\ bundle.of[1] = goHalf.file => goHalf.contract = bundle.specs
    /\ dev /\ AtRest /\ ~unasked => GoContract = Joined(Loaded(Contents), ServerOf)

\* The same of every save (env-app.ts 26: "edited validation rules kept serving
\* the old schema until env.ts itself was touched"). It does not hold: a file
\* env.ts imports, saved alone, does not ask for the go half again.
HalvesAlwaysAgree == dev /\ AtRest => GoContract = Joined(Loaded(Contents), ServerOf)

\* A variable that env.ts declares reads as one value in the browser, in the
\* render service and in go, or nothing that reads it runs.
EnvMeansOneThing == SidesAgree /\ HalvesAgree
=============================================================================
