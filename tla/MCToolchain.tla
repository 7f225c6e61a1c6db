----------------------------- MODULE MCToolchain -----------------------------
(***************************************************************************)
(* The commands of a developer: three builds after one lock; two shells    *)
(* that run three commands over an app of five kinds of page, edited once; *)
(* a dev session with two saves, of five files, one process that dies or   *)
(* is late to boot;                                                        *)
(* a file of public/assets written twice over a running service, whose     *)
(* contents compress well, less well, and not at all.                      *)
(***************************************************************************)
EXTENDS BuildLock, Workspace, DevSession, AssetServing

CONSTANTS b1, b2, b3, s1, s2

VARIABLE part     \* which of the four moves

PageOf(by, clock, loads, rendered, takes, lists) ==
    [guard |-> by, revalidate |-> clock, loader |-> loads,
     prerender |-> rendered, dynamic |-> takes, paths |-> lists]

MCPageKind ==
    [p \in Pages |->
        CASE p = "home"    -> PageOf("none", FALSE, FALSE, FALSE, FALSE, FALSE)
          [] p = "posts"   -> PageOf("none", FALSE, TRUE, TRUE, TRUE, TRUE)
          [] p = "account" -> PageOf("middleware.ts", FALSE, FALSE, FALSE, FALSE, FALSE)
          [] p = "admin"   -> PageOf("middleware.go", FALSE, FALSE, FALSE, FALSE, FALSE)
          [] OTHER         -> PageOf("none", TRUE, FALSE, FALSE, FALSE, FALSE)]

MCKind ==
    [f \in Sources |->
        CASE f = "main.go"  -> "go"
          [] f = "env.ts"   -> "env"
          [] f = "app.scss" -> "style"
          [] OTHER          -> "page"]

MCSizeOf ==
    [c \in Contents |->
        CASE c = "long"  -> [plain |-> 9, br |-> 4, gzip |-> 5]
          [] c = "short" -> [plain |-> 7, br |-> 3, gzip |-> 4]
          [] OTHER       -> [plain |-> 2, br |-> 3, gzip |-> 6]]

ToolchainInit ==
    /\ LockInit /\ DirInit /\ DevInit /\ AssetInit
    /\ part \in {"lock", "directory", "dev", "assets"}
    \* the other parts stand still, at one state each
    /\ part # "assets" => hashed = Gone /\ files["plain"].content = "long"

ToolchainNext ==
    /\ \/ part = "lock"      /\ LockNext  /\ UNCHANGED <<dirVars, devVars, assetVars>>
       \/ part = "directory" /\ DirNext   /\ UNCHANGED <<lockVars, devVars, assetVars>>
       \/ part = "dev"       /\ DevNext   /\ UNCHANGED <<lockVars, dirVars, assetVars>>
       \/ part = "assets"    /\ AssetNext /\ UNCHANGED <<lockVars, dirVars, devVars>>
    /\ UNCHANGED part

ToolchainSpec == ToolchainInit /\ [][ToolchainNext]_<<part, lockVars, dirVars, devVars, assetVars>>

\* Nothing waits on what will not come: a build on the lock of a dead one, or a
\* save on a rebuild.
WorkGoesOn == CorpsesAreTakenOver /\ RebuildsEnd
=============================================================================
