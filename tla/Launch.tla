------------------------------- MODULE Launch -------------------------------
(***************************************************************************)
(* borgo start: a launch environment that may lack what only the launch    *)
(* can carry (and then a process that runs the command again with it), the *)
(* start process that resolves one port and one key for both halves, the   *)
(* go front it spawns, and the ways they end: a signal to the process the  *)
(* operator started, a ctrl-c of the terminal, a death nobody handles.     *)
(***************************************************************************)
EXTENDS Naturals, FiniteSets

CONSTANTS
    Launches,     \* environments, trees and arguments a start may meet
    Requests,     \* requests the public port may have in flight
    LoosePorts,    \* ports nothing listens on at the launch
    TakenPorts,   \* ports another app answers on
    UnsetText, Noone, RefusedSetting,
    TrueTexts, FalseTexts,    \* the spellings of strconv.ParseBool
    PolicyTexts,  \* several words, or a directive with its semicolon
    BadPolicies,  \* of those, what Headers.set refuses
    NumberTexts,  \* whole numbers above zero, ports apart
    TerminalStops,    \* the operator may press ctrl-c
    MaxGestures

ASSUME LaunchAssumption ==
    /\ \A l \in Launches : {"node", "pool"} \subseteq DOMAIN l
    /\ LoosePorts \cap TakenPorts = {} /\ BadPolicies \subseteq PolicyTexts
    /\ UnsetText \notin {"production", "16384"} /\ "off" \notin PolicyTexts
    /\ Noone # "us"
    /\ MaxGestures \in Nat

Procs == {"parent", "start", "front"}

VARIABLES
    launch,       \* what the command was given
    depth,        \* how many times it ran itself again
    proc,         \* [Procs -> "off", "loading", "up", "signalled", "draining", "gone"]
    exitCode,         \* [Procs -> exit codes]
    launchStep,         \* where the start process is in its boot
    stopAsked,     \* its flag: a stop was asked of the front
    mine, its,    \* port and key of this process, and of the front it spawned
    switches,     \* what the render service serves with
    listeners,    \* [ports -> who answers there]
    signals,      \* [Procs -> stop signals sent and not yet handled]
    inFlight, dropped, gaveUp,
    gestures, kills, early

procVars == <<proc, exitCode, launchStep, stopAsked, signals>>
bootVars == <<depth, mine, its, switches, listeners>>
loadVars == <<inFlight, dropped, gaveUp>>
launchVars == <<launch, procVars, bootVars, loadVars, gestures, kills, early>>

Ports == LoosePorts \cup TakenPorts
Alive(p) == proc[p] \notin {"off", "gone"}

-----------------------------------------------------------------------------
\* Texts. The empty string is unset; a control character is refused for all.

Blank(t) == t \in {UnsetText, "", " "}
IsUnset(t) == t \in {UnsetText, ""}

EnvBool(t, default) ==
    CASE IsUnset(t)      -> default
      [] t \in TrueTexts  -> TRUE
      [] t \in FalseTexts -> FALSE
      [] OTHER            -> RefusedSetting

\* 0 is no limit, so nothing is rounded down to it.
EnvInt(t, default) ==
    CASE IsUnset(t)                   -> default
      [] t \in NumberTexts \cup Ports  -> t
      [] t = "0"                       -> "0"
      [] OTHER                         -> RefusedSetting

NamedRenderPort(t) == LET p == EnvInt(t, Noone) IN IF p \in Ports \cup {Noone} THEN p ELSE RefusedSetting

\* One variable, a switch and a policy.
CspSetting(t) ==
    CASE IsUnset(t) \/ t \in TrueTexts        -> "borgo's"
      [] t \in FalseTexts                      -> "off"
      [] t \in PolicyTexts \ BadPolicies       -> t
      [] OTHER                                 -> RefusedSetting

ResolveSwitches(l) ==
    [headers |-> EnvBool(l.headers, TRUE), csp |-> CspSetting(l.csp),
     csrf |-> EnvBool(l.csrf, TRUE), maxBody |-> EnvInt(l.maxBody, "32 MiB")]

Resolved(s) == \A name \in DOMAIN s : s[name] # RefusedSetting

\* Only the environment of the launch is early enough for these two.
\* slip: the default of a variable that is there and empty.
StartEnvIfUnset(l) ==
    [l EXCEPT !.node = IF @ = UnsetText THEN "production" ELSE @, !.pool = IF @ = UnsetText THEN "16384" ELSE @]
StartEnv(l) ==
    [l EXCEPT !.node = IF Blank(@) THEN "production" ELSE @, !.pool = IF Blank(@) THEN "16384" ELSE @]
NeedsReexec(l) == Blank(l.node) \/ Blank(l.pool)

\* One object both halves take their addresses from.
Topology(l, port) == [port |-> port, key |-> IF l.key = "long" THEN "long" ELSE "minted"]
GoFrontEnv(t) == t

-----------------------------------------------------------------------------
Reexeced == depth > 0
Top == IF Reexeced THEN "parent" ELSE "start"

LaunchInit ==
    /\ launch \in Launches /\ depth = 0
    /\ proc = [p \in Procs |-> IF p = "start" THEN "loading" ELSE "off"]
    /\ exitCode = [p \in Procs |-> Noone]
    /\ launchStep = "launched" /\ stopAsked = FALSE
    /\ mine = Noone /\ its = Noone /\ switches = Noone
    /\ listeners = [p \in Ports |-> IF p \in TakenPorts THEN "another" ELSE Noone]
    /\ signals = [p \in Procs |-> 0]
    /\ inFlight = {} /\ dropped = {} /\ gaveUp = FALSE
    /\ gestures = {} /\ kills = 0 /\ early = FALSE

\* An exit of p; what it held open is dropped with it.
Gone(p, c) ==
    /\ proc' = [proc EXCEPT ![p] = "gone"]
    /\ exitCode' = [exitCode EXCEPT ![p] = c]
    /\ signals' = [signals EXCEPT ![p] = 0]
    /\ IF p \in {"start", "front"} THEN dropped' = dropped \cup inFlight /\ inFlight' = {}
                                   ELSE UNCHANGED <<inFlight, dropped>>
    /\ listeners' = IF p = "start" THEN [q \in Ports |-> IF listeners[q] = "us" THEN Noone ELSE listeners[q]]
                                   ELSE listeners

Exits(c) ==
    /\ Gone("start", c)
    /\ UNCHANGED <<launch, launchStep, stopAsked, depth, mine, its, switches, gaveUp, gestures, kills, early>>

\* The same command again, in a child whose code becomes its own.
Reexec ==
    /\ proc["start"] = "loading" /\ launchStep = "launched" /\ NeedsReexec(launch) /\ depth < 2
    /\ proc' = [proc EXCEPT !["parent"] = "up"]
    /\ depth' = depth + 1 /\ launch' = StartEnv(launch)
    /\ UNCHANGED <<exitCode, launchStep, stopAsked, signals, mine, its, switches, listeners,
                   loadVars, gestures, kills, early>>

\* The handlers come before anything is awaited.
Installs ==
    /\ proc["start"] = "loading" /\ ~NeedsReexec(launch)
    /\ proc' = [proc EXCEPT !["start"] = "up"] /\ launchStep' = "port"
    /\ UNCHANGED <<launch, exitCode, stopAsked, signals, bootVars, loadVars, gestures, kills, early>>

At(where) == proc["start"] = "up" /\ launchStep = where
To(where) == launchStep' = where /\ UNCHANGED <<launch, proc, exitCode, stopAsked, signals, loadVars, gestures, kills, early>>

\* A free port, or the one named, refused when something answers there.
PortAnswers(p) == listeners[p] # Noone
ResolvedPorts ==
    LET named == NamedRenderPort(launch.port)
    IN CASE named = Noone    -> {p \in Ports : ~PortAnswers(p)}
         [] named = RefusedSetting -> {}
         [] OTHER           -> {p \in {named} : ~PortAnswers(p)}

ResolveRenderPort ==
    /\ At("port")
    /\ IF ResolvedPorts = {} \/ launch.frontOnly
       THEN Exits(1)
       ELSE /\ \E p \in ResolvedPorts : mine' = Topology(launch, p)
            /\ To("tree") /\ UNCHANGED <<depth, its, switches, listeners>>

\* The rebuild comes before the front, which indexes public/ at its boot.
Rebuilds ==
    /\ At("tree")
    /\ \/ launch.tree # "broken" /\ To("front") /\ UNCHANGED bootVars
       \/ launch.tree = "broken" /\ Exits(1)

SpawnsFront ==
    /\ At("front")
    /\ IF ~launch.binary THEN Exits(1)
       ELSE /\ proc' = [proc EXCEPT !["front"] = "up"]
            /\ its' = GoFrontEnv(mine) /\ launchStep' = "serve"
            /\ UNCHANGED <<launch, exitCode, stopAsked, signals, depth, mine, switches, listeners,
                           loadVars, gestures, kills, early>>

\* Refused switches and a port taken meanwhile end the boot.
StartServes ==
    /\ At("serve")
    /\ IF Resolved(ResolveSwitches(launch)) /\ listeners[mine.port] = Noone
       THEN /\ switches' = ResolveSwitches(launch)
            /\ listeners' = [listeners EXCEPT ![mine.port] = "us"]
            /\ To("serving") /\ UNCHANGED <<depth, mine, its>>
       ELSE Exits(1)

\* Another app binds a port the resolution let go of.
AnotherBinds ==
    /\ \E p \in Ports : listeners[p] = Noone /\ listeners' = [listeners EXCEPT ![p] = "another"]
    /\ Cardinality({p \in Ports : listeners[p] = "another"}) = Cardinality(TakenPorts)
    /\ UNCHANGED <<launch, procVars, depth, mine, its, switches, loadVars, gestures, kills, early>>

\* The front's own refusals: a port, a key, an environment.
FrontRefuses ==
    /\ proc["front"] = "up" /\ inFlight = {} /\ launchStep = "serve" /\ Gone("front", 1)
    /\ UNCHANGED <<launch, launchStep, stopAsked, depth, mine, its, switches, gaveUp, gestures, kills, early>>

-----------------------------------------------------------------------------
\* Requests wait for the page the start process renders.

Requested ==
    /\ proc["front"] = "up" /\ launchStep = "serving" /\ gestures = {}
    /\ \E r \in Requests \ (inFlight \cup dropped) : inFlight' = inFlight \cup {r}
    /\ UNCHANGED <<launch, procVars, bootVars, dropped, gaveUp, gestures, kills, early>>

AnswersRequest ==
    /\ Alive("front") /\ proc["start"] = "up" /\ launchStep = "serving" /\ its = mine
    /\ \E r \in inFlight : inFlight' = inFlight \ {r}
    /\ UNCHANGED <<launch, procVars, bootVars, dropped, gaveUp, gestures, kills, early>>

-----------------------------------------------------------------------------
\* Signals.

Sent(p, more) == [signals EXCEPT ![p] = IF Alive(p) THEN @ + more ELSE @]

\* kill of the process the operator started (a container, systemd, a shell).
AsksToStop ==
    /\ Alive(Top) /\ Cardinality(gestures) < MaxGestures
    /\ signals' = Sent(Top, 1)
    /\ gestures' = gestures \cup {<<Cardinality(gestures), "kill">>}
    /\ UNCHANGED <<launch, proc, exitCode, launchStep, stopAsked, bootVars, loadVars, kills, early>>

\* ctrl-c: the terminal signals every process of the foreground group.
PressesCtrlC ==
    /\ TerminalStops /\ Alive(Top) /\ Cardinality(gestures) < MaxGestures
    /\ signals' = [p \in Procs |-> IF Alive(p) THEN signals[p] + 1 ELSE 0]
    /\ gestures' = gestures \cup {<<Cardinality(gestures), "ctrl-c">>}
    /\ UNCHANGED <<launch, proc, exitCode, launchStep, stopAsked, bootVars, loadVars, kills, early>>

Handles(p) == signals[p] > 0

ParentForwards ==
    /\ Handles("parent")
    /\ signals' = [Sent("start", 1) EXCEPT !["parent"] = @ - 1]
    /\ UNCHANGED <<launch, proc, exitCode, launchStep, stopAsked, bootVars, loadVars, gestures, kills, early>>

\* The default action, before the handlers are there.
StartDiesEarly ==
    /\ Handles("start") /\ proc["start"] = "loading"
    /\ early' = TRUE /\ Gone("start", 143)
    /\ UNCHANGED <<launch, launchStep, stopAsked, depth, mine, its, switches, gaveUp, gestures, kills>>

\* slip: the exit does not wait for the front.
StopLeaves ==
    /\ Handles("start") /\ proc["start"] = "up" /\ ~stopAsked /\ Alive("front")
    /\ Exits(0)
\* The first is passed on and the process stays: it renders for what is in flight.
StopPassesOn ==
    /\ Handles("start") /\ proc["start"] = "up" /\ ~stopAsked /\ Alive("front")
    /\ stopAsked' = TRUE
    /\ signals' = [Sent("front", 1) EXCEPT !["start"] = @ - 1]
    /\ UNCHANGED <<launch, proc, exitCode, launchStep, bootVars, loadVars, gestures, kills, early>>

\* The second, and one that finds no front, is the end of both.
StopInsists ==
    /\ Handles("start") /\ proc["start"] = "up" /\ (stopAsked \/ proc["front"] = "off")
    /\ proc' = [proc EXCEPT !["start"] = "gone", !["front"] = IF Alive("front") THEN "gone" ELSE @]
    /\ exitCode' = [exitCode EXCEPT !["start"] = 0]
    /\ signals' = [signals EXCEPT !["start"] = 0, !["front"] = 0]
    /\ dropped' = dropped \cup inFlight /\ inFlight' = {}
    /\ listeners' = [q \in Ports |-> IF listeners[q] = "us" THEN Noone ELSE listeners[q]]
    /\ UNCHANGED <<launch, launchStep, stopAsked, depth, mine, its, switches, gaveUp, gestures, kills, early>>

\* The front's context is cancelled; a second signal is absorbed until the
\* default handlers are back, and ends the process after.
FrontHears ==
    /\ Handles("front") /\ proc["front"] \in {"up", "signalled"}
    /\ proc' = [proc EXCEPT !["front"] = "signalled"]
    /\ signals' = [signals EXCEPT !["front"] = @ - 1]
    /\ UNCHANGED <<launch, exitCode, launchStep, stopAsked, bootVars, loadVars, gestures, kills, early>>

FrontRestores ==
    /\ proc["front"] = "signalled"
    /\ proc' = [proc EXCEPT !["front"] = "draining"]
    /\ UNCHANGED <<launch, exitCode, launchStep, stopAsked, signals, bootVars, loadVars, gestures, kills, early>>

FrontIsCutShort ==
    /\ Handles("front") /\ proc["front"] = "draining" /\ Gone("front", 143)
    /\ UNCHANGED <<launch, launchStep, stopAsked, depth, mine, its, switches, gaveUp, gestures, kills, early>>

\* Shutdown waits for what is in flight, within BORGO_SHUTDOWN_TIMEOUT.
FrontDrains ==
    /\ proc["front"] = "draining"
    /\ gaveUp' = (gaveUp \/ inFlight # {})
    /\ Gone("front", 0)
    /\ UNCHANGED <<launch, launchStep, stopAsked, depth, mine, its, switches, gestures, kills, early>>

\* apiProc.exited: the front's own end is the start's, with its code.
StartFollows == Exits(IF stopAsked THEN 0 ELSE exitCode["front"])
FrontExited == proc["start"] = "up" /\ launchStep \in {"serve", "serving"} /\ proc["front"] = "gone" /\ StartFollows

\* The child's own code, so a restart policy sees the truth.
ParentExits ==
    /\ proc["parent"] = "up" /\ proc["start"] = "gone" /\ Gone("parent", exitCode["start"])
    /\ UNCHANGED <<launch, launchStep, stopAsked, depth, mine, its, switches, gaveUp, gestures, kills, early>>

\* A death nobody handles: the kernel's, or a hard kill.
Killed ==
    /\ kills = 0 /\ kills' = 1
    /\ \E p \in Procs : Alive(p) /\ Gone(p, 137)
    /\ UNCHANGED <<launch, launchStep, stopAsked, depth, mine, its, switches, gaveUp, gestures, early>>

\* The watches: the start of its supervisor, the front of the start.
\* slip: the pid of the supervisor does not reach the child.
SupervisedNever == FALSE
Supervised == Reexeced
StartWatches == proc["start"] = "up" /\ Supervised /\ proc["parent"] = "gone" /\ Exits(0)

FrontWatches ==
    /\ proc["front"] = "up" /\ proc["start"] = "gone"
    /\ proc' = [proc EXCEPT !["front"] = "signalled"]
    /\ UNCHANGED <<launch, exitCode, launchStep, stopAsked, signals, bootVars, loadVars, gestures, kills, early>>

LaunchBoots == Reexec \/ Installs \/ ResolveRenderPort \/ Rebuilds \/ SpawnsFront \/ StartServes
StartIsOver ==
    \/ ParentForwards \/ StartDiesEarly \/ StopPassesOn \/ StopInsists
    \/ FrontHears \/ FrontRestores \/ FrontIsCutShort \/ FrontDrains
    \/ FrontExited \/ ParentExits \/ StartWatches \/ FrontWatches

LaunchNext ==
    \/ LaunchBoots \/ StartIsOver
    \/ AnotherBinds \/ FrontRefuses \/ Requested \/ AnswersRequest
    \/ AsksToStop \/ PressesCtrlC \/ Killed

LaunchSpec == LaunchInit /\ [][LaunchNext]_launchVars

-----------------------------------------------------------------------------
\* The one stop of a service manager drops nothing the front's own limit did
\* not: the front drains while the start goes on rendering (cli.ts 134-138).
Undisturbed == Cardinality(gestures) = 1 /\ kills = 0 /\ ~gaveUp /\ exitCode["front"] # 1
OneKillDrains == Undisturbed /\ <<0, "kill">> \in gestures => dropped = {}

\* The same of the one ctrl-c of a terminal (cli.ts 138: "a second signal is
\* the operator insisting").
OneStopDrains == Undisturbed => dropped = {}

\* What a restart policy sees: an end that was asked for is a 0, and one that
\* was not is never a 0, whichever of the three processes ended first.
ExitsTellTheTruth ==
    proc[Top] = "gone" /\ kills = 0 /\ ~early =>
        /\ exitCode[Top] = 0 => gestures # {}
        /\ gestures # {} /\ exitCode[Top] # 0 => Cardinality(gestures) > 1 \/ exitCode["start"] = 1

\* One run of itself settles the environment, and a front that serves meets
\* the render service of its own start, at its port and with a key it takes.
HalvesMeet ==
    /\ depth <= 1
    /\ launchStep = "serving" => ~NeedsReexec(launch)
    /\ Alive("front") /\ Alive("start") => its = mine /\ its.key \in {"long", "minted"}
    /\ launchStep = "serving" /\ Alive("start") => listeners[mine.port] = "us"

\* A protection is off when its variable spells false, and never for a text
\* the boot could not read.
ProtectionsStay ==
    switches # Noone =>
        /\ switches.headers = FALSE => launch.headers \in FalseTexts
        /\ switches.csrf = FALSE => launch.csrf \in FalseTexts
        /\ switches.csp = "off" => launch.csp \in FalseTexts
        /\ switches.maxBody = "0" => launch.maxBody = "0"

LaunchFairness ==
    /\ WF_launchVars(LaunchBoots) /\ WF_launchVars(ParentForwards) /\ WF_launchVars(StopPassesOn)
    /\ WF_launchVars(StopInsists) /\ WF_launchVars(FrontHears) /\ WF_launchVars(FrontRestores)
    /\ WF_launchVars(FrontDrains) /\ WF_launchVars(FrontExited) /\ WF_launchVars(ParentExits)
    /\ WF_launchVars(StartWatches) /\ WF_launchVars(FrontWatches)

\* The end of any of the three is, in time, the end of all: no front is left
\* on the public port, no renderer on its own. A parent killed while the child
\* loads is seen by the watch the child then arms.
NoOrphans == LaunchFairness => \A p \in Procs : (proc[p] = "gone") ~> \A q \in Procs : ~Alive(q)

\* A variable means one thing to the supervisor, the render service and the
\* front, whoever reads it, and a protection goes only when its own word says so.
SettingsMeanOneThing == HalvesMeet /\ ProtectionsStay

\* A service manager that stops a start once sees its requests drained, and an
\* exit code that tells how it ended.
StopsAreOrderly == OneKillDrains /\ ExitsTellTheTruth
=============================================================================
